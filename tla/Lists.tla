------------------------------- MODULE Lists -------------------------------
(***************************************************************************)
(* The screens that show a list page by page: contracts (also as the       *)
(* accountant sees them), bookings, operations, shifts, days off, reports. *)
(*                                                                         *)
(* A filter has two parts: a status, type or kind, and a value to search   *)
(* for, a period or a person.  What the controls show is not always what   *)
(* is asked for: some screens apply a choice at once, some when a button   *)
(* is pressed.  Each filter with an offset is a key of the query cache,    *)
(* with data of its own; nothing of one page is shown for another.         *)
(*                                                                         *)
(* Rows come, change and leave at the server while a page is looked at.    *)
(***************************************************************************)
EXTENDS FiniteSets, FiniteSetsExt, Integers

CONSTANTS
  Statuses,   \* values of the first part of a filter that somebody looks for
  Searches,   \* values of the second part that somebody looks for
  All,        \* no such condition
  PageSize,   \* PAGE_SIZE
  MaxRows,    \* how many rows the server has; a bound
  MaxWrites,  \* how often the rows change; a bound
  MaxKept     \* how many pages the cache keeps; a bound

VARIABLES
  screen,   \* which of the screens is looked at
  rows,     \* the server: how many rows there are, by status and search
  typed,    \* what the controls of the filter show
  applied,  \* the filter of the query
  offset,
  known,    \* the cache: the last answer, by filter and offset
  request,  \* of the page that is shown: none, sent, or the answer
  failed,   \* isError
  writes,
  gone      \* history: a row has left a filter it matched

vars == <<screen, rows, typed, applied, offset, known, request, failed, writes, gone>>

\* What a row is, as far as filters see it; All: nobody looks for it.
RowKinds == (Statuses \cup {All}) \X (Searches \cup {All})

\* Nothing is asked for; or it is, and has not been read.
Nothing == [at |-> "none"]
Sent == [at |-> "sent"]

NoFilter == [status |-> All, search |-> All]

\* Screens whose status is applied at once, and whose search is.
StatusAtOnce == {"contracts", "bookings", "accountant", "shifts"}
SearchAtOnce == {"shifts"}

\* Screens with a button that applies what the controls show.
WithSubmit == {"contracts", "bookings", "transactions", "reports"}
WithFilter == StatusAtOnce \cup WithSubmit

\* Screens with a button that reads the page again.
WithRefresh == {"contracts", "bookings", "accountant", "transactions"}

Screens == WithFilter \cup {"dayOffs"}

-----------------------------------------------------------------------------
(* What is on the screen                                                   *)

Key == <<applied, offset>>
Loaded == Key \in DOMAIN known
Fetching == request # Nothing

\* The skeleton, the error and the page exclude each other.
Skeleton == ~Loaded /\ ~failed
Page == Loaded /\ ~failed
Items == known[Key].items
Total == known[Key].total
ShownTo == IF offset + Items < Total THEN offset + Items ELSE Total

\* The controls of some screens wait for the first answer; those of the
\* shifts and of the reports never do.
Usable == screen \in {"shifts", "reports"} \/ ~Skeleton

-----------------------------------------------------------------------------
(* The query                                                               *)

\* The page that is shown becomes that of another key.  What is in the cache
\* is shown, and read again if it is old.
LookAt(filter, from) ==
  /\ applied' = filter /\ offset' = from
  /\ IF <<filter, from>> = Key
       THEN UNCHANGED <<request, failed>>
       ELSE /\ failed' = FALSE
            /\ \/ request' = Sent
               \/ <<filter, from>> \in DOMAIN known /\ request' = Nothing

\* What a filter finds.  A row is named by its kind and a number, and of each
\* kind there are as many as rows says.
RowsOf(filter) ==
  {row \in RowKinds \X (1 .. MaxRows) :
     /\ row[2] <= rows[row[1]]
     /\ filter.status \in {row[1][1], All}
     /\ filter.search \in {row[1][2], All}}

Matching(filter) == Cardinality(RowsOf(filter))

Read ==
  /\ request = Sent
  /\ LET matching == Matching(applied)
     IN request' = [at |-> "read", total |-> matching,
                    items |-> Max({0, Min({PageSize, matching - offset})})]
  /\ UNCHANGED <<screen, rows, typed, applied, offset, known, failed, writes, gone>>

\* Of the other pages some are kept.
Answer ==
  /\ request.at = "read"
  /\ \E kept \in SUBSET (DOMAIN known \ {Key}) :
       /\ Cardinality(kept) < MaxKept
       /\ known' = [k \in kept \cup {Key} |-> IF k = Key THEN request ELSE known[k]]
  /\ request' = Nothing /\ failed' = FALSE
  /\ UNCHANGED <<screen, rows, typed, applied, offset, writes, gone>>

Fail ==
  /\ Fetching
  /\ request' = Nothing /\ failed' = TRUE
  /\ UNCHANGED <<screen, rows, typed, applied, offset, known, writes, gone>>

\* "Refresh", "Try again", or a form on the same screen that was saved.
Refetch ==
  /\ ~Fetching
  /\ failed \/ screen \in WithRefresh
  /\ request' = Sent /\ failed' = (failed /\ Loaded)
  /\ UNCHANGED <<screen, rows, typed, applied, offset, known, writes, gone>>

-----------------------------------------------------------------------------
(* The filter                                                              *)

\* Mutant: the offset stays where it was.
ApplyFiltersHere == LookAt(typed', offset)

\* applyFilters: what the controls show, from the first page.
ApplyFilters == LookAt(typed', 0)

Choose(part, value, atOnce) ==
  /\ Usable
  /\ value # typed[part]
  /\ typed' = [typed EXCEPT ![part] = value]
  /\ IF atOnce THEN ApplyFilters ELSE UNCHANGED <<applied, offset, request, failed>>
  /\ UNCHANGED <<screen, rows, known, writes, gone>>

ChooseStatus ==
  /\ screen \in WithFilter
  /\ \E s \in Statuses \cup {All} : Choose("status", s, screen \in StatusAtOnce)

ChooseSearch ==
  /\ screen \in WithFilter \ {"accountant"}
  /\ \E s \in Searches \cup {All} : Choose("search", s, screen \in SearchAtOnce)

Submit ==
  /\ screen \in WithSubmit /\ Usable
  /\ UNCHANGED typed
  /\ ApplyFilters
  /\ UNCHANGED <<screen, rows, known, writes, gone>>

\* A chip over the page takes one condition away, in both places.
RemoveFilter(part) ==
  /\ Page /\ applied[part] # All
  /\ typed' = [typed EXCEPT ![part] = All]
  /\ LookAt([applied EXCEPT ![part] = All], 0)
  /\ UNCHANGED <<screen, rows, known, writes, gone>>

\* Beside the controls, and on an empty page of a filter.
ResetFilters ==
  /\ screen \in WithFilter
  /\ \/ Page /\ Items = 0 /\ applied # NoFilter
     \/ screen \in {"contracts", "bookings"} /\ Usable
        /\ (applied.search # All \/ typed.status # All)
     \/ screen \in {"transactions", "reports"} /\ Usable
  /\ typed' = NoFilter
  /\ LookAt(NoFilter, 0)
  /\ UNCHANGED <<screen, rows, known, writes, gone>>

-----------------------------------------------------------------------------
(* The pages.  An empty page has no buttons.                               *)

Paging == Page /\ Items > 0 /\ ~Fetching

LastPage ==
  IF screen = "reports" THEN offset + PageSize >= Total ELSE ShownTo >= Total

Back ==
  /\ Paging /\ offset # 0
  /\ LookAt(applied, Max({0, offset - PageSize}))
  /\ UNCHANGED <<screen, rows, typed, known, writes, gone>>

Forward ==
  /\ Paging /\ ~LastPage
  /\ LookAt(applied, offset + PageSize)
  /\ UNCHANGED <<screen, rows, typed, known, writes, gone>>

-----------------------------------------------------------------------------
(* The server                                                              *)

RowComes(k) ==
  /\ writes < MaxWrites
  /\ Matching(NoFilter) < MaxRows
  /\ rows' = [rows EXCEPT ![k] = @ + 1]
  /\ writes' = writes + 1
  /\ UNCHANGED <<screen, typed, applied, offset, known, request, failed, gone>>

\* A row is deleted, or becomes one of another kind.
RowLeaves(k) ==
  /\ writes < MaxWrites /\ rows[k] > 0
  /\ \/ rows' = [rows EXCEPT ![k] = @ - 1]
     \/ \E l \in RowKinds \ {k} : rows' = [rows EXCEPT ![k] = @ - 1, ![l] = @ + 1]
  /\ writes' = writes + 1 /\ gone' = TRUE
  /\ UNCHANGED <<screen, typed, applied, offset, known, request, failed>>

-----------------------------------------------------------------------------

Init ==
  /\ screen \in Screens
  /\ rows \in [RowKinds -> 0 .. MaxRows]
  /\ Matching(NoFilter) <= MaxRows
  /\ typed = NoFilter /\ applied = NoFilter /\ offset = 0
  /\ known = [k \in {} |-> 0]
  /\ request = Sent /\ failed = FALSE
  /\ writes = 0 /\ gone = FALSE

Next ==
  \/ Read \/ Answer \/ Fail \/ Refetch
  \/ ChooseStatus \/ ChooseSearch \/ Submit \/ ResetFilters
  \/ \E part \in {"status", "search"} : RemoveFilter(part)
  \/ Back \/ Forward
  \/ \E k \in RowKinds : RowComes(k) \/ RowLeaves(k)

Spec == Init /\ [][Next]_vars

-----------------------------------------------------------------------------

\* Nobody is left on an empty page after the first, which has no way back,
\* unless a row has left the filter meanwhile: a new filter begins at its first
\* page, and no page is turned that its total does not promise (applyFilters,
\* resetFilters, the chips and the buttons under the tables).
NoBlankPage == Page /\ Items = 0 /\ offset > 0 => gone
=============================================================================
