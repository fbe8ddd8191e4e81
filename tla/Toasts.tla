------------------------------- MODULE Toasts -------------------------------
(***************************************************************************)
(* The messages in the corner of a tab (components/ui/toast-queue.ts,      *)
(* toast-store.ts and ToastProvider.tsx): each closes by itself after five *)
(* seconds, unless the pointer is on its card or the focus on its button.  *)
(* A message is named by its id; what it says is left out.                 *)
(***************************************************************************)
EXTENDS Naturals, Sequences, SequencesExt

CONSTANTS
  MaxToasts,  \* bound: how many messages are shown
  None        \* no message

MAX_VISIBLE_TOASTS == 3

VARIABLES
  toasts,   \* the visible messages, the oldest first
  nextId,   \* the id of the next message
  timers,   \* the messages whose timeout is running
  hovered,  \* the message whose card is under the pointer, or None
  focused   \* the message whose button has the focus, or None

vars == <<toasts, nextId, timers, hovered, focused>>

Ids == 1 .. MaxToasts
Visible(id) == id \in ToSet(toasts)
Held(id) == id \in {hovered, focused}

Init ==
  /\ toasts = << >>
  /\ nextId = 1
  /\ timers = {}
  /\ hovered = None
  /\ focused = None

\* A card that is removed takes the pointer and the focus with it, and tells
\* nobody.
Display(queue) ==
  LET remains(id) == IF id \in ToSet(queue) THEN id ELSE None
  IN /\ toasts' = queue
     /\ hovered' = remains(hovered)
     /\ focused' = remains(focused)

PushToast(id) ==
  LET queue == Append(toasts, id)
  IN IF Len(queue) > MAX_VISIBLE_TOASTS THEN Tail(queue) ELSE queue

RemoveToast(id) ==
  IF Visible(id)
  THEN RemoveAt(toasts, CHOOSE i \in 1 .. Len(toasts) : toasts[i] = id)
  ELSE toasts

\* The one message that a further one pushes out.
Evicted == IF Len(toasts) >= MAX_VISIBLE_TOASTS THEN {Head(toasts)} ELSE {}

\* showToast
Show ==
  /\ nextId <= MaxToasts
  /\ nextId' = nextId + 1
  /\ timers' = (timers \ Evicted) \cup {nextId}
  /\ Display(PushToast(nextId))

\* dismissToast, on the button of the card.
Dismiss(id) ==
  /\ Visible(id)
  /\ timers' = timers \ {id}
  /\ Display(RemoveToast(id))
  /\ UNCHANGED nextId

\* dismissToast, when the timeout ends.
Fire(id) ==
  /\ id \in timers
  /\ timers' = timers \ {id}
  /\ Display(RemoveToast(id))
  /\ UNCHANGED nextId

PauseToast(id) == timers' = timers \ {id}

\* Mutant: no timeout for a card that is still held, but the event that lets it
\* go has not been taken in yet.
ResumeUnlessHeld(id) ==
  timers' = IF Visible(id) /\ ~Held(id) THEN timers \cup {id} ELSE timers

\* The timeout starts anew, five seconds from now.
ResumeToast(id) == timers' = IF Visible(id) THEN timers \cup {id} ELSE timers

MouseEnter(id) ==
  /\ Visible(id)
  /\ hovered = None
  /\ hovered' = id
  /\ PauseToast(id)
  /\ UNCHANGED <<toasts, nextId, focused>>

MouseLeave ==
  /\ hovered # None
  /\ hovered' = None
  /\ ResumeToast(hovered)
  /\ UNCHANGED <<toasts, nextId, focused>>

Focus(id) ==
  /\ Visible(id)
  /\ focused = None
  /\ focused' = id
  /\ PauseToast(id)
  /\ UNCHANGED <<toasts, nextId, hovered>>

Blur ==
  /\ focused # None
  /\ focused' = None
  /\ ResumeToast(focused)
  /\ UNCHANGED <<toasts, nextId, hovered>>

\* clearAllToasts, when the session is reset.
ClearAllToasts ==
  /\ toasts # << >>
  /\ timers' = {}
  /\ Display(<< >>)
  /\ UNCHANGED nextId

Next ==
  \/ Show
  \/ \E id \in Ids : Dismiss(id) \/ Fire(id) \/ MouseEnter(id) \/ Focus(id)
  \/ MouseLeave
  \/ Blur
  \/ ClearAllToasts

Spec == Init /\ [][Next]_vars

-----------------------------------------------------------------------------

\* A message that nobody holds does not stay: the timeout that takes it away is
\* running.  Every way to pause a timeout must have one that starts it again, and
\* none may pass a message over (pauseToast, resumeToast, showToast with a full
\* corner).
UnheldToastIsTimed == \A id \in ToSet(toasts) : Held(id) \/ id \in timers
=============================================================================
