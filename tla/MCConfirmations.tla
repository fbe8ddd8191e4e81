-------------------------- MODULE MCConfirmations --------------------------
\* Instances of Confirmations for TLC: actions, Directors and requests are
\* interchangeable.
EXTENDS Confirmations, TLC

Symmetry ==
  Permutations(Actions) \cup Permutations(Directors) \cup Permutations(Requests)
=============================================================================
