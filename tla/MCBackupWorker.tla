--------------------------- MODULE MCBackupWorker ---------------------------
(* A unit of time is the shortest window; the other spaces are scaled down  *)
(* so that first, later, short and capped windows all occur.                *)
EXTENDS BackupWorker

CONSTANTS f1, f2

=============================================================================
