------------------------------ MODULE MCFunnel ------------------------------
\* Instances of Funnel for TLC: one head of sales with one manager, and
\* few enough rows that two handlers in flight meet on the same one.
EXTENDS Funnel, TLC

CONSTANTS h1, m1

MCHeads == {h1}
MCSellers == {m1}
MCTeam == [h \in MCHeads |-> MCSellers]

\* Rows of a table and request slots are interchangeable.
Symmetry ==
  Permutations(Leads) \cup Permutations(Bookings)
    \cup Permutations(Contracts) \cup Permutations(Requests)
=============================================================================
