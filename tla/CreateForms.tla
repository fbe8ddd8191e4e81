---------------------------- MODULE CreateForms ----------------------------
(***************************************************************************)
(* The forms of the frontend that create something: contracts, bookings    *)
(* and leads, a contract of a booking, a booking of a lead, users, days    *)
(* off, and the payroll of a month.  Of a behaviour one is looked at.      *)
(*                                                                         *)
(* Five of them ask for the consent of a buyer.  Its text comes with a     *)
(* version, is kept in the query cache and read again now and then; the    *)
(* box under it is a field of the form, and the version that is sent is    *)
(* that of the text as it is known then.  The server takes the version of  *)
(* today only.                                                             *)
(*                                                                         *)
(* Between two moments when the form is empty lies a filling.  Checks of   *)
(* the other fields are the difference between filled and not filled.      *)
(***************************************************************************)
EXTENDS FiniteSets, Naturals

CONSTANTS
  MaxFillings,  \* how often the form is filled in; a bound
  MaxCalls,     \* how many calls and records there are at a time; a bound
  MaxVersions   \* how many versions of the text there are; a bound

VARIABLES
  form,      \* which of the forms is looked at
  open,      \* it is on the screen
  filling,   \* the number of the filling
  filled,    \* the fields hold what may be sent
  tick,      \* the box, with the filling and the version it was ticked in
  text,      \* the version of the text that is known, 0 for none
  fetching,  \* the text is being read
  version,   \* the server's version of the text
  calls,     \* the POSTs on the way
  records,   \* what the server has created
  lost,      \* history: the answer of a POST that created something was lost
  reread     \* history: a new text came under a ticked box

vars == <<form, open, filling, filled, tick, text, fetching, version, calls,
          records, lost, reread>>

WithConsent == {"contract", "booking", "convertBooking", "lead", "convertLead"}
Forms == WithConsent \cup {"user", "dayOff", "generate"}

\* These stay with their screen; the others are opened by a button.
Staying == {"lead", "user", "dayOff"}

\* The server refuses to create the same thing twice, but for these; of a user
\* it is the action that waits for its confirmation.
Repeatable == {"contract", "booking", "lead", "user"}

Unticked == [filling |-> 0, version |-> 0]

\* Mutant: the button is on again when the server has answered, while the
\* lists are still read.
BusyUntilAnswered == \E c \in calls : c.to = "form" /\ c.at = "sent"

\* isSubmitting or isPending: until the answer has come and, after a success,
\* the lists have been read again.  `to' is who the answer reaches.
Busy == \E c \in calls : c.to = "form"

\* A form without the text cannot be sent, nor be typed into if it is the
\* form of the leads.
TextKnown == form \in WithConsent => text # 0
Usable == open /\ ~Busy /\ (form = "lead" => text # 0 \/ ~fetching)

-----------------------------------------------------------------------------
(* The text of the consent                                                 *)

\* When the form opens, by "Try again", or when the connection comes back.
FetchText ==
  /\ form \in WithConsent /\ open /\ ~fetching
  /\ fetching' = TRUE
  /\ UNCHANGED <<form, open, filling, filled, tick, text, version, calls,
                 records, lost, reread>>

TextAnswer ==
  /\ fetching
  /\ fetching' = FALSE
  /\ text' \in {text, version}
  /\ reread' = (reread \/ (tick # Unticked /\ text' # text))
  /\ UNCHANGED <<form, open, filling, filled, tick, version, calls, records, lost>>

NewVersion ==
  /\ version < MaxVersions
  /\ version' = version + 1
  /\ UNCHANGED <<form, open, filling, filled, tick, text, fetching, calls,
                 records, lost, reread>>

-----------------------------------------------------------------------------
(* The user                                                                *)

\* Mutant: the box stays ticked for the next person.
EmptiedButTick ==
  /\ filling' = filling + 1
  /\ filled' = FALSE
  /\ UNCHANGED tick

\* The form is empty again, after a success or because it is a new one.
Emptied ==
  /\ filling' = filling + 1
  /\ filled' = FALSE
  /\ tick' = Unticked

Open ==
  /\ ~open /\ filling < MaxFillings
  /\ open' = TRUE
  /\ Emptied
  /\ \/ UNCHANGED fetching
     \/ form \in WithConsent /\ fetching' = TRUE
  /\ UNCHANGED <<form, text, version, calls, records, lost, reread>>

Fill ==
  /\ Usable /\ ~filled
  /\ filled' = TRUE
  /\ UNCHANGED <<form, open, filling, tick, text, fetching, version, calls,
                 records, lost, reread>>

Tick ==
  /\ form \in WithConsent /\ Usable /\ text # 0
  /\ tick' = IF tick = Unticked THEN [filling |-> filling, version |-> text] ELSE Unticked
  /\ UNCHANGED <<form, open, filling, filled, text, fetching, version, calls,
                 records, lost, reread>>

Submit ==
  /\ Usable /\ TextKnown /\ filled
  /\ form \in WithConsent => tick # Unticked
  /\ Cardinality(calls) + Cardinality(records) < MaxCalls
  /\ calls' = calls \cup
       {[filling |-> filling, tick |-> tick, version |-> text, at |-> "sent", to |-> "form"]}
  /\ UNCHANGED <<form, open, filling, filled, tick, text, fetching, version,
                 records, lost, reread>>

Readdressed(to) ==
  {[c EXCEPT !.to = IF c.to = "form" \/ to = "nobody" THEN to ELSE c.to] : c \in calls}

\* The button that gives up.  In the form it waits for the answer; the button
\* in the head of the screen and that of the dialog of a lead do not, and of a
\* dialog the answer goes on to the screen below.
Cancel ==
  /\ open /\ form \notin Staying
  /\ form \in {"convertBooking", "generate"} => ~Busy
  /\ open' = FALSE
  /\ calls' = Readdressed(IF form = "convertLead" THEN "screen" ELSE "nobody")
  /\ UNCHANGED <<form, filling, filled, tick, text, fetching, version,
                 records, lost, reread>>

\* Another screen is opened.
Leave ==
  /\ open
  /\ open' = FALSE
  /\ calls' = Readdressed("nobody")
  /\ UNCHANGED <<form, filling, filled, tick, text, fetching, version,
                 records, lost, reread>>

-----------------------------------------------------------------------------
(* The server and its answers                                              *)

Accepted(c) ==
  /\ form \in WithConsent => c.version = version
  /\ form \in Repeatable \/ \A r \in records : r.filling # c.filling

Create(c) ==
  /\ c.at = "sent" /\ Accepted(c)
  /\ records' = records \cup
       {[n |-> Cardinality(records), filling |-> c.filling, tick |-> c.tick,
         version |-> c.version]}
  /\ \E at \in {"done", "failed"} :
       /\ calls' = (calls \ {c}) \cup {[c EXCEPT !.at = at]}
       /\ lost' = (lost \/ at = "failed")
  /\ UNCHANGED <<form, open, filling, filled, tick, text, fetching, version, reread>>

Refuse(c) ==
  /\ c.at = "sent"
  /\ calls' = (calls \ {c}) \cup {[c EXCEPT !.at = "failed"]}
  /\ UNCHANGED <<form, open, filling, filled, tick, text, fetching, version,
                 records, lost, reread>>

\* A success empties the form, or closes it; the screen of the leads closes
\* whatever dialog is open.  After a failure the form is as it was.
Result(c) ==
  /\ c.at # "sent"
  /\ calls' = calls \ {c}
  /\ IF c.at = "failed" \/ c.to = "nobody" \/ ~open
       THEN UNCHANGED <<open, filling, filled, tick>>
       ELSE /\ open' = (form \in Staying \cup {"contract", "booking"})
            /\ Emptied
  /\ UNCHANGED <<form, text, fetching, version, records, lost, reread>>

-----------------------------------------------------------------------------

Init ==
  /\ form \in Forms
  /\ open = FALSE
  /\ filling = 0 /\ filled = FALSE /\ tick = Unticked
  /\ text = 0 /\ fetching = FALSE /\ version = 1
  /\ calls = {} /\ records = {} /\ lost = FALSE /\ reread = FALSE

Next ==
  \/ FetchText \/ TextAnswer \/ NewVersion
  \/ Open \/ Fill \/ Tick \/ Submit \/ Cancel \/ Leave
  \/ \E c \in calls : Create(c) \/ Refuse(c) \/ Result(c)

Spec == Init /\ [][Next]_vars

-----------------------------------------------------------------------------

\* Whoever is recorded with a consent has given it: the box was ticked while
\* this person was filled in, under the version that is recorded, unless a new
\* text came under the ticked box (LeadForm and the others, BuyerConsent).
ConsentIsItsOwn ==
  form \in WithConsent => \A r \in records :
    /\ r.tick.filling = r.filling
    /\ reread \/ r.tick.version = r.version

\* What was filled in once is created once, unless the answer was lost and the
\* user tried again: the button is off until the form is empty (useCreateContract,
\* useCreateBooking, LeadForm).
CreatedOnce ==
  ~lost => \A r, s \in records : r.filling = s.filling => r = s
=============================================================================
