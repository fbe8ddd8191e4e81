------------------------------- MODULE Cards -------------------------------
(***************************************************************************)
(* The card of a payroll entry (PayrollEntryDetail) and that of an         *)
(* operation (TransactionCard): each offers two writes of one record and   *)
(* lets neither begin while the other runs or the record is read again.    *)
(*                                                                         *)
(* What a card knows of a running write is the isPending of its own        *)
(* mutation.  Closing the card is always possible, forgets the mutation    *)
(* and does not stop the call; a card opened again knows nothing of it.    *)
(* Nobody else writes the record; codes are in CodeForms.                  *)
(***************************************************************************)
EXTENDS FiniteSets, Naturals

CONSTANTS
  MaxEdits,  \* how many corrections are sent; a bound
  MaxLeft    \* how many calls are left behind by a closed card; a bound

VARIABLES
  card,      \* "payroll" or "transaction"
  open,      \* the card is on the screen
  fetching,  \* isFetching of the query of the record
  dirty,     \* unsaved input in the form of the correction
  entry,     \* the server's record: amount, named by the correction it comes from
  seen,      \* the record in the cache
  edits,     \* corrections sent
  calls,     \* writes on the way
  left       \* history: a card was closed over a running write

vars == <<card, open, fetching, dirty, entry, seen, edits, calls, left>>

Pending(kind) == \E c \in calls : c.mine /\ c.kind = kind

\* First and second write of a card.
Correct == IF card = "payroll" THEN "correction" ELSE "update"
Confirm == IF card = "payroll" THEN "confirm" ELSE "attachment"

\* PayrollEntryDetail, and TransactionCardBody.
EntryBusy == Pending(Correct) \/ Pending(Confirm) \/ fetching

\* CorrectPayrollEntryForm is disabled by a confirmation or a new reading, and
\* by its own isSubmitting; EditTransactionForm by all of EntryBusy.
CorrectDisabled ==
  IF card = "payroll"
    THEN Pending("confirm") \/ fetching \/ Pending("correction")
    ELSE EntryBusy

\* Mutant: the confirmation looks only at itself and at unsaved input.
ConfirmBlockedByInputOnly == Pending(Confirm) \/ fetching \/ (card = "payroll" /\ dirty)

\* confirmBlocked of PayrollEntryDetail; the attachment needs no saved form.
ConfirmBlocked == EntryBusy \/ (card = "payroll" /\ dirty)

\* A confirmed entry shows neither form (isPayrollEntryEditable).
Editable == open /\ ~seen.confirmed

Send(kind, value) ==
  calls' = calls \cup
    {[kind |-> kind, value |-> value, at |-> "sent", mine |-> TRUE]}

-----------------------------------------------------------------------------

\* Something is typed into the form of the correction, or taken back.
Dirty ==
  /\ card = "payroll" /\ Editable /\ ~CorrectDisabled
  /\ dirty' = ~dirty
  /\ UNCHANGED <<card, open, fetching, entry, seen, edits, calls, left>>

SendCorrection ==
  /\ Editable /\ ~CorrectDisabled
  /\ card = "payroll" => dirty
  /\ edits < MaxEdits
  /\ edits' = edits + 1
  /\ Send(Correct, edits + 1)
  /\ UNCHANGED <<card, open, fetching, dirty, entry, seen, left>>

SendConfirmation ==
  /\ Editable /\ ~ConfirmBlocked
  /\ Send(Confirm, 0)
  /\ UNCHANGED <<card, open, fetching, dirty, entry, seen, edits, left>>

\* The card is closed: its queries and mutations lose their observer.
CloseCard ==
  /\ open
  /\ Cardinality(calls) <= MaxLeft
  /\ open' = FALSE /\ dirty' = FALSE
  /\ calls' = {[c EXCEPT !.mine = FALSE] : c \in calls}
  /\ left' = (left \/ calls # {})
  /\ UNCHANGED <<card, fetching, entry, seen, edits>>

\* A record that was read less than staleTime ago is not read again.
OpenCard ==
  /\ ~open
  /\ open' = TRUE
  /\ \/ fetching' = TRUE
     \/ UNCHANGED fetching
  /\ UNCHANGED <<card, dirty, entry, seen, edits, calls, left>>

-----------------------------------------------------------------------------

\* The server does a write; an entry that is confirmed is final.
Carry(c) ==
  /\ c.at = "sent"
  /\ IF entry.confirmed
       THEN /\ calls' = (calls \ {c}) \cup {[c EXCEPT !.at = "failed"]}
            /\ UNCHANGED entry
       ELSE /\ \E at \in {"done", "failed"} :
                 calls' = (calls \ {c}) \cup {[c EXCEPT !.at = at]}
            /\ CASE c.kind = Correct ->
                      entry' = [entry EXCEPT !.amount = c.value]
                 [] c.kind = "confirm" ->
                      entry' = [entry EXCEPT !.confirmed = TRUE]
                 [] c.kind = "attachment" -> UNCHANGED entry
  /\ UNCHANGED <<card, open, fetching, dirty, seen, edits, left>>

Refuse(c) ==
  /\ c.at = "sent"
  /\ calls' = (calls \ {c}) \cup {[c EXCEPT !.at = "failed"]}
  /\ UNCHANGED <<card, open, fetching, dirty, entry, seen, edits, left>>

\* onSuccess invalidates the record, which is read again if a card shows it;
\* the mutation is pending until then.  A failure ends it.
Result(c) ==
  /\ c.at \in {"done", "failed"}
  /\ IF c.at = "done" /\ open
       THEN /\ calls' = (calls \ {c}) \cup {[c EXCEPT !.at = "reading"]}
            /\ fetching' = TRUE
       ELSE /\ calls' = calls \ {c}
            /\ UNCHANGED fetching
  /\ UNCHANGED <<card, open, dirty, entry, seen, edits, left>>

\* The record has been read, or the reading failed; the mutations that waited
\* for it end, and a saved correction empties its form.
Fetched ==
  /\ fetching
  /\ fetching' = FALSE
  /\ seen' \in {entry, seen}
  /\ calls' = {c \in calls : c.at # "reading"}
  /\ dirty' = (dirty /\ \A c \in calls \ calls' : c.kind # "correction" \/ ~c.mine)
  /\ UNCHANGED <<card, open, entry, edits, left>>

-----------------------------------------------------------------------------

Init ==
  /\ card \in {"payroll", "transaction"}
  /\ open = FALSE /\ fetching = FALSE /\ dirty = FALSE
  /\ entry = [amount |-> 0, confirmed |-> FALSE] /\ seen = entry
  /\ edits = 0 /\ calls = {} /\ left = FALSE

Next ==
  \/ Dirty \/ SendCorrection \/ SendConfirmation
  \/ CloseCard \/ OpenCard \/ Fetched
  \/ \E c \in calls : Carry(c) \/ Refuse(c) \/ Result(c)

Spec == Init /\ [][Next]_vars

-----------------------------------------------------------------------------

\* The two writes of a card are never on the way together, nor a confirmation
\* over unsaved input, as long as no card was closed over a running write
\* (entryBusy and confirmBlocked of PayrollEntryDetail and TransactionCard).
OneWriteAtATime ==
  ~left => /\ \A c, d \in calls : c.at = "sent" /\ d.at = "sent" => c = d
           /\ Pending("confirm") => ~dirty
=============================================================================
