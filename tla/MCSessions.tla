----------------------------- MODULE MCSessions -----------------------------
\* One login, refreshed twice, and three requests at a time: a refresh that wins,
\* one that loses and one that ends the sessions of the account.  Tokens and
\* requests are interchangeable.
EXTENDS Sessions, TLC

Symmetry == Permutations(Tokens) \cup Permutations(Requests)
=============================================================================
