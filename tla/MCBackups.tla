----------------------------- MODULE MCBackups -----------------------------
(***************************************************************************)
(* An instance of Backups, and with it of Accounting, for TLC.  The tables *)
(* and files change under two handlers; once an export has begun, they do  *)
(* within Small.  Files, handlers and restores are interchangeable.        *)
(***************************************************************************)
EXTENDS Backups, FiniteSets, TLC

Symmetry ==
  Permutations(Files) \cup Permutations(Requests) \cup Permutations(Restores)

\* One handler, two files, one value and one month, and one file of which reads fail.
Small ==
  /\ Cardinality({r \in Requests : req[r] # Idle}) < 2
  /\ Cardinality({f \in Files : file[f] # "unused"}) < 3
  /\ \A t \in Transactions :
       tx[t].state = "present" => tx[t].value = CHOOSE v \in Values : TRUE
  /\ month = 1
  /\ Cardinality(UNION {a.unread : a \in (archives \cup {export}) \ {Idle}}) < 2

MCNext == BackupNext /\ (exports' > 0 => Small')

MCSpec == BackupInit /\ [][MCNext]_<<vars, backupVars>>
=============================================================================
