------------------------------ MODULE MCPayroll ------------------------------
\* An instance of Payroll for TLC.  Generations and edits are interchangeable.
EXTENDS Payroll, TLC

\* Everybody is there in the first month.
MCHiredIn == [u \in Employees |-> 1]

Symmetric == Permutations(Generations) \cup Permutations(Requests)
=============================================================================
