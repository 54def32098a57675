------------------------------ MODULE MCDaemon ------------------------------
EXTENDS Daemon

CONSTANTS b1, b2

=============================================================================
