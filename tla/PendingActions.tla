--------------------------- MODULE PendingActions ---------------------------
(***************************************************************************)
(* The queue of confirmations on the page of a Director: UsersScreen with  *)
(* PendingActions, a row for each action that the queue lists, and the     *)
(* form that requests a new one.                                           *)
(*                                                                         *)
(* A row knows of a running call by the isPending of its own mutations,    *)
(* and goes with what it knows when the queue is read without its action   *)
(* or cannot be read.  The call goes on.  What a confirmation does at the  *)
(* server is in Confirmations; here it is one step, beside which the       *)
(* action expires or is resolved by another Director.  A Director who      *)
(* leaves the page forgets what a queue that cannot be read forgets.       *)
(***************************************************************************)
EXTENDS FiniteSets, Naturals

CONSTANTS
  Actions,
  MaxSetbacks  \* how many calls and readings fail or are repeated; a bound

VARIABLES
  type,      \* of each action: "create_user", or one that no row resolves
  status,    \* table PendingAction, "unborn" before the row is inserted; an action
             \* that is executed, rejected, failed or expired is "over"
  queue,     \* the query: what the page shows, whether there are data, and they;
             \* the request in flight, and what the server has read for it
  row,       \* of each row: its code, and whether it asks to reject
  calls,     \* confirmations and rejections on the way
  resolved,  \* history: what was answered to this page as resolved
  left,      \* history: the rows went while one of them had a call on the way
  setbacks

vars == <<type, status, queue, row, calls, resolved, left, setbacks>>

\* "-" is an empty field.
Fresh == [code |-> "-", askReject |-> FALSE]

PendingIds == {a \in Actions : status[a] = "pending"}

\* A queue that could not be read shows the error instead of its rows.
Rows == IF queue.shows = "rows" THEN queue.data ELSE {}

\* Mutant: a row waits for the answer, not for the queue to be read after it.
BusyUntilAnswered(a) ==
  \E c \in calls : c.action = a /\ c.mine /\ c.at # "reading"

Busy(a) == \E c \in calls : c.action = a /\ c.mine

\* The row of a has buttons, and they are enabled.
Offered(a) == a \in Rows /\ type[a] = "create_user" /\ ~Busy(a)

-----------------------------------------------------------------------------
(* The queue                                                               *)

\* Mutant: a reading that is under way is not begun anew.
ReadOnce(q) == IF q.request = "none" THEN [q EXCEPT !.request = "sent"] ELSE q

\* query.fetch gives up a reading under way for a new one, but not the first.
ReadAgain(q) ==
  IF q.request # "none" /\ ~q.loaded THEN q ELSE [q EXCEPT !.request = "sent"]

\* GET /confirmations/pending, which also lets what is too old expire.
ListPending ==
  /\ queue.request = "sent"
  /\ queue' = [queue EXCEPT !.request = "read", !.answer = PendingIds]
  /\ UNCHANGED <<type, status, row, calls, resolved, left, setbacks>>

\* The rows of these actions go, and whoever waits for the queue goes on.
Shows(actions) ==
  /\ row' = [a \in Actions |-> IF a \in actions THEN row[a] ELSE Fresh]
  /\ calls' = {[c EXCEPT !.mine = c.mine /\ c.action \in actions] :
                 c \in {d \in calls : d.at # "reading"}}

\* A row that stays has emptied what its own call was for.
ListArrives ==
  /\ queue.request = "read"
  /\ queue' = [shows |-> "rows", loaded |-> TRUE, data |-> queue.answer,
                request |-> "none", answer |-> {}]
  /\ Shows(queue.answer)
  /\ UNCHANGED <<type, status, resolved, left, setbacks>>

ListFails ==
  /\ queue.request # "none" /\ setbacks < MaxSetbacks
  /\ queue' = [queue EXCEPT !.shows = "error", !.request = "none", !.answer = {}]
  /\ Shows({})
  /\ left' = (left \/ \E c \in calls : c.mine /\ c.at # "reading")
  /\ setbacks' = setbacks + 1
  /\ UNCHANGED <<type, status, resolved>>

\* The button above the queue, or in the place of its rows.
Refetch ==
  /\ queue.request = "none" /\ queue.shows # "nothing"
  /\ queue.shows = "rows" => setbacks < MaxSetbacks
  /\ setbacks' = IF queue.shows = "rows" THEN setbacks + 1 ELSE setbacks
  /\ queue' = ReadAgain(queue)
  /\ UNCHANGED <<type, status, row, calls, resolved, left>>

-----------------------------------------------------------------------------
(* The form that requests an account, and what others do                   *)

\* The request was accepted; the page reads its queue again.
RequestUserCreation(a) ==
  /\ status[a] = "unborn" /\ type[a] = "create_user"
  /\ status' = [status EXCEPT ![a] = "pending"]
  /\ queue' = ReadAgain(queue)
  /\ UNCHANGED <<type, row, calls, resolved, left, setbacks>>

RequestedElsewhere(a) ==
  /\ status[a] = "unborn"
  /\ status' = [status EXCEPT ![a] = "pending"]
  /\ UNCHANGED <<type, queue, row, calls, resolved, left, setbacks>>

\* Another Director resolves it, or it is not resolved in time.
ResolvedElsewhere(a) ==
  /\ status[a] = "pending"
  /\ status' = [status EXCEPT ![a] = "over"]
  /\ UNCHANGED <<type, queue, row, calls, resolved, left, setbacks>>

-----------------------------------------------------------------------------
(* A row                                                                   *)

Set(a, field, value) ==
  /\ row' = [row EXCEPT ![a][field] = value]
  /\ UNCHANGED <<type, status, queue, calls, resolved, left, setbacks>>

EnterCode(a) ==
  /\ Offered(a) /\ row[a].code = "-"
  /\ \E code \in {"right", "wrong"} : Set(a, "code", code)

\* "Отклонить" and "Отмена".
AskReject(a) == Offered(a) /\ Set(a, "askReject", ~row[a].askReject)

Send(a, kind) ==
  /\ calls' = calls \cup {[action |-> a, kind |-> kind, at |-> "sent", mine |-> TRUE]}
  /\ UNCHANGED <<type, status, queue, row, resolved, left, setbacks>>

HandleConfirm(a) ==
  /\ Offered(a) /\ row[a].code # "-"
  /\ Send(a, row[a].code)

HandleReject(a) ==
  /\ Offered(a) /\ row[a].askReject
  /\ Send(a, "reject")

\* The server takes what is pending, if the code is right, and answers, if the
\* answer is not lost.
Carry(c) ==
  LET taken == status[c.action] = "pending" /\ c.kind # "wrong"
  IN /\ c.at = "sent"
     /\ status' = IF taken THEN [status EXCEPT ![c.action] = "over"] ELSE status
     /\ \/ /\ calls' = (calls \ {c}) \cup {[c EXCEPT !.at = IF taken THEN "done" ELSE "failed"]}
           /\ setbacks' = setbacks
        \/ /\ taken /\ setbacks < MaxSetbacks
           /\ calls' = (calls \ {c}) \cup {[c EXCEPT !.at = "failed"]}
           /\ setbacks' = setbacks + 1
     /\ UNCHANGED <<type, queue, row, resolved, left>>

\* onSuccess waits for the queue to be read; then the row, if it is still there,
\* empties its code or its question.
Done(c) ==
  /\ c.at = "done"
  /\ queue' = ReadAgain(queue)
  /\ calls' = (calls \ {c}) \cup {[c EXCEPT !.at = "reading"]}
  /\ resolved' = resolved \cup {c.action}
  /\ row' = IF c.mine THEN [row EXCEPT ![c.action] = Fresh] ELSE row
  /\ UNCHANGED <<type, status, left, setbacks>>

\* The error stays in the row; the code goes, the question stays.
Failed(c) ==
  /\ c.at = "failed"
  /\ calls' = calls \ {c}
  /\ row' = IF c.mine /\ c.kind # "reject" THEN [row EXCEPT ![c.action].code = "-"] ELSE row
  /\ UNCHANGED <<type, status, queue, resolved, left, setbacks>>

-----------------------------------------------------------------------------

Init ==
  /\ type \in [Actions -> {"create_user", "disable_user"}]
  /\ status = [a \in Actions |-> "unborn"]
  /\ queue = [shows |-> "nothing", loaded |-> FALSE, data |-> {}, request |-> "sent", answer |-> {}]
  /\ row = [a \in Actions |-> Fresh]
  /\ calls = {} /\ resolved = {} /\ left = FALSE /\ setbacks = 0

Next ==
  \/ ListPending \/ ListArrives \/ ListFails \/ Refetch
  \/ \E a \in Actions :
       \/ RequestUserCreation(a) \/ RequestedElsewhere(a) \/ ResolvedElsewhere(a)
       \/ EnterCode(a) \/ AskReject(a) \/ HandleConfirm(a) \/ HandleReject(a)
  \/ \E c \in calls : Carry(c) \/ Done(c) \/ Failed(c)

Spec == Init /\ [][Next]_vars

-----------------------------------------------------------------------------

\* What the page has been told is resolved it does not offer to resolve again,
\* and it never sends two resolutions of one action at once, as long as no
\* reading of the queue failed while a resolution was on its way (busy of
\* PendingActionRow, the onSuccess of useConfirmAction and useRejectAction).
ResolvedOnce ==
  ~left =>
    /\ \A a \in resolved : ~Offered(a)
    /\ \A c, d \in calls : c.action = d.action /\ c.at = "sent" /\ d.at = "sent" => c = d
=============================================================================
