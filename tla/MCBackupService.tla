-------------------------- MODULE MCBackupService --------------------------
(* One or two bricks, as many threads, and task objects for the first start *)
(* and for MaxCommands further ones.  Callers: the main loop of the         *)
(* graphical program (gui), or the daemon's main and control threads.       *)
EXTENDS BackupService

CONSTANTS gui, main, ctr, b1, b2

=============================================================================
