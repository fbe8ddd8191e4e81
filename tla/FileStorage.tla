---------------------------- MODULE FileStorage ----------------------------
(***************************************************************************)
(* FileStorageService: encrypted bytes on disk and a StoredFile row that   *)
(* describes them, written and removed in two steps each.  A file goes     *)
(* through the states                                                      *)
(*                                                                         *)
(*   "unused" -> "bytes" -> "stored" -> "rowless" -> "gone"                *)
(*                  \-----------------------------------^                  *)
(*                                                                         *)
(* store() writes the bytes, then the row; if the row cannot be written it *)
(* removes the bytes again.  remove() deletes the row, then the bytes, and *)
(* does nothing for a file without a row.  The id and the storage key of   *)
(* an upload are random and never used twice.                              *)
(***************************************************************************)
CONSTANT Files   \* identifiers of uploads

VARIABLE file    \* the state of each upload

FileState == {"unused", "bytes", "stored", "rowless", "gone"}

FileInit == file = [f \in Files |-> "unused"]

WriteBytes(f) ==
  /\ file[f] = "unused"
  /\ file' = [file EXCEPT ![f] = "bytes"]

CreateRow(f) ==
  /\ file[f] = "bytes"
  /\ file' = [file EXCEPT ![f] = "stored"]

\* The row could not be written: the catch branch of store().
DropBytes(f) ==
  /\ file[f] = "bytes"
  /\ file' = [file EXCEPT ![f] = "gone"]

DeleteRow(f) ==
  /\ file[f] = "stored"
  /\ file' = [file EXCEPT ![f] = "rowless"]

RemoveBytes(f) ==
  /\ file[f] = "rowless"
  /\ file' = [file EXCEPT ![f] = "gone"]
=============================================================================
