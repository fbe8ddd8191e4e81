------------------------------ MODULE Backups ------------------------------
(***************************************************************************)
(* createSnapshot and restoreSnapshot, beside the handlers of Accounting:  *)
(* of the tables in a backup these two, Transaction and StoredFile, are    *)
(* modelled with the files on disk.                                        *)
(*                                                                         *)
(* An export reads the tables in one REPEATABLE READ transaction, that is  *)
(* as of one moment, and the files one by one after it.  A restore looks   *)
(* whether the target is empty, inserts all rows in one transaction and    *)
(* writes the files after it.  The application does not run on the target. *)
(***************************************************************************)
EXTENDS Accounting

CONSTANTS
  Restores,    \* slots of restores; their number is a bound
  MaxExports   \* bound: how many exports are started

ASSUME MaxExportsAssumption == MaxExports \in Nat

VARIABLES
  exports,      \* how many exports have been started
  export,       \* the export in progress
  archives,     \* the backups that were handed out
  targetRows,   \* the rows of the target database, None while it is empty
  targetFiles,  \* the files on the target's disk
  restore       \* what each restore goes on to do

backupVars == <<exports, export, archives, targetRows, targetFiles, restore>>

Rows == [tx: [Transactions -> Row], stored: SUBSET Files]

\* None, no rows, stands for the empty database.
ASSUME BackupAssumption == None \notin Rows

\* "unread" is history: the files listed as missing although they were there.
Archive ==
  [rows: Rows, data: SUBSET Files, missing: SUBSET Files, unread: SUBSET Files]

Export ==
  {Idle} \cup
  [op: {"files"}, rows: Rows, left: SUBSET Files, data: SUBSET Files,
   missing: SUBSET Files, unread: SUBSET Files]

Restore ==
       {Idle}
  \cup [op: {"check", "insert", "done"}, archive: Archive]
  \cup [op: {"write"}, archive: Archive, left: SUBSET Files]

BackupTypeOK ==
  /\ exports \in 0 .. MaxExports
  /\ export \in Export
  /\ archives \subseteq Archive
  /\ targetRows \in Rows \cup {None}
  /\ targetFiles \subseteq Files
  /\ restore \in [Restores -> Restore]

BackupInit ==
  /\ Init
  /\ exports = 0
  /\ export = Idle
  /\ archives = {}
  /\ targetRows = None
  /\ targetFiles = {}
  /\ restore = [x \in Restores |-> Idle]

-----------------------------------------------------------------------------
OnDisk(f) == file[f] \in {"bytes", "stored", "rowless"}

\* The transaction reads every table as of its first statement.
ExportRead ==
  /\ export = Idle
  /\ exports < MaxExports
  /\ exports' = exports + 1
  /\ LET stored == {f \in Files : file[f] = "stored"}
     IN export' = [op |-> "files", rows |-> [tx |-> tx, stored |-> stored],
                   left |-> stored, data |-> {}, missing |-> {}, unread |-> {}]
  /\ UNCHANGED <<archives, targetRows, targetFiles, restore>>

\* Mutant: a file that cannot be read is passed over.
ExportFileSilently(f) ==
  /\ export # Idle
  /\ f \in export.left
  /\ export' = [export EXCEPT !.left = @ \ {f},
                              !.data = IF OnDisk(f) THEN @ \cup {f} ELSE @]
  /\ UNCHANGED <<exports, archives, targetRows, targetFiles, restore>>

\* Any read that fails lists the file as missing: the file is not there, or it is
\* and cannot be opened or read.
ExportFile(f) ==
  /\ export # Idle
  /\ f \in export.left
  /\ \/ OnDisk(f) /\ export' = [export EXCEPT !.left = @ \ {f}, !.data = @ \cup {f}]
     \/ export' = [export EXCEPT !.left = @ \ {f}, !.missing = @ \cup {f},
                                 !.unread = IF OnDisk(f) THEN @ \cup {f} ELSE @]
  /\ UNCHANGED <<exports, archives, targetRows, targetFiles, restore>>

ExportEnd ==
  /\ export # Idle
  /\ export.left = {}
  /\ archives' = archives \cup
       {[rows |-> export.rows, data |-> export.data, missing |-> export.missing,
         unread |-> export.unread]}
  /\ export' = Idle
  /\ UNCHANGED <<exports, targetRows, targetFiles, restore>>

\* The export fails, or its process stops: no backup is handed out.
ExportFail ==
  /\ export # Idle
  /\ export' = Idle
  /\ UNCHANGED <<exports, archives, targetRows, targetFiles, restore>>

-----------------------------------------------------------------------------
RestoreGoesOn(x, state) == restore' = [restore EXCEPT ![x] = state]

RestoreStart(x) ==
  /\ restore[x] = Idle
  /\ \E a \in archives : RestoreGoesOn(x, [op |-> "check", archive |-> a])
  /\ UNCHANGED <<exports, export, archives, targetRows, targetFiles>>

\* A database with rows is refused.
RestoreCheck(x) ==
  /\ restore[x].op = "check"
  /\ RestoreGoesOn(x, IF targetRows = None
                      THEN [op |-> "insert", archive |-> restore[x].archive] ELSE Idle)
  /\ UNCHANGED <<exports, export, archives, targetRows, targetFiles>>

\* Mutant: rows that are there already are skipped.
InsertSkippingDuplicates(x) ==
  /\ restore[x].op = "insert"
  /\ LET a == restore[x].archive
     IN /\ targetRows' = IF targetRows = None THEN a.rows ELSE targetRows
        /\ RestoreGoesOn(x, [op |-> "write", archive |-> a, left |-> a.data])
  /\ UNCHANGED <<exports, export, archives, targetFiles>>

\* All rows in one transaction.  Every backup has the row of a director, so the
\* primary keys refuse a second one.
RestoreInsert(x) ==
  /\ restore[x].op = "insert"
  /\ LET a == restore[x].archive
     IN IF targetRows = None
        THEN /\ targetRows' = a.rows
             /\ RestoreGoesOn(x, [op |-> "write", archive |-> a, left |-> a.data])
        ELSE /\ RestoreGoesOn(x, Idle)
             /\ UNCHANGED targetRows
  /\ UNCHANGED <<exports, export, archives, targetFiles>>

RestoreFile(x, f) ==
  /\ restore[x].op = "write"
  /\ f \in restore[x].left
  /\ targetFiles' = targetFiles \cup {f}
  /\ RestoreGoesOn(x, [restore[x] EXCEPT !.left = @ \ {f}])
  /\ UNCHANGED <<exports, export, archives, targetRows>>

\* The operator is told that the restore is done.
RestoreEnd(x) ==
  /\ restore[x].op = "write"
  /\ restore[x].left = {}
  /\ RestoreGoesOn(x, [op |-> "done", archive |-> restore[x].archive])
  /\ UNCHANGED <<exports, export, archives, targetRows, targetFiles>>

RestoreFail(x) ==
  /\ restore[x].op \in {"check", "insert", "write"}
  /\ RestoreGoesOn(x, Idle)
  /\ UNCHANGED <<exports, export, archives, targetRows, targetFiles>>

-----------------------------------------------------------------------------
ExportStep == ExportRead \/ (\E f \in Files : ExportFile(f)) \/ ExportEnd \/ ExportFail

RestoreStep(x) ==
  \/ RestoreStart(x) \/ RestoreCheck(x) \/ RestoreInsert(x)
  \/ \E f \in Files : RestoreFile(x, f)
  \/ RestoreEnd(x) \/ RestoreFail(x)

BackupStep == ExportStep \/ \E x \in Restores : RestoreStep(x)

BackupNext ==
  \/ Next /\ UNCHANGED backupVars
  \/ BackupStep /\ UNCHANGED vars

BackupSpec == BackupInit /\ [][BackupNext]_<<vars, backupVars>>

-----------------------------------------------------------------------------
(***************************************************************************)
(* Properties                                                              *)
(***************************************************************************)

AttachmentsIn(rows) ==
  {rows.tx[t].file : t \in {u \in Transactions : rows.tx[u].state = "present"}} \ {None}

\* A backup accounts for every attachment of its transactions: the file is in it,
\* or it is listed as missing; and then its read has failed, or no transaction
\* has it any more.  An upload, a replacement or a removal beside the export never
\* takes away the file of a transaction that still refers to it (createSnapshot).
BackupAccountsForAttachments ==
  \A a \in archives :
    /\ AttachmentsIn(a.rows) \subseteq a.data \cup a.missing
    /\ (a.missing \ a.unread) \cap AttachmentsIn([tx |-> tx]) = {}

\* Types, and a backup that has every attachment of its rows or lists it as missing
\* (createSnapshot).
BackupIsSound == BackupTypeOK /\ BackupAccountsForAttachments

\* When a restore has said that it is done, the target holds the rows of its
\* backup and a file for each attachment that is not listed as missing, also
\* when another restore was started beside it or had stopped half-way before
\* (restoreSnapshot).
DoneIsRestored ==
  \A x \in Restores : restore[x].op = "done" =>
    LET a == restore[x].archive
    IN targetRows = a.rows /\ AttachmentsIn(a.rows) \subseteq targetFiles \cup a.missing
=============================================================================
