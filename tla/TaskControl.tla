---------------------------- MODULE TaskControl -----------------------------
(***************************************************************************)
(* task_control (src/backup/backup_task.cpp, Linux build): the register of *)
(* bricks that are being backed up, with one stop semaphore for each.      *)
(*                                                                         *)
(* Every method holds m_lock from its first to its last line, and nobody   *)
(* calls wait_sem with infinite = true, so a method never blocks inside:   *)
(* each is one action.  The list _v is the set of its brick ids, because   *)
(* reg refuses a brick that is there.                                      *)
(***************************************************************************)
EXTENDS Naturals

CONSTANT Bricks

VARIABLES
    registered,         \* the brick ids in _v
    sem                 \* value of each brick's semaphore while registered

controlVars == <<registered, sem>>

ControlInit ==
    /\ registered = {}
    /\ sem = [b \in Bricks |-> 0]

-----------------------------------------------------------------------------
(* Seeded faults.                                                          *)

Taken(n) == n - 1
NeverFound(b) == FALSE

-----------------------------------------------------------------------------

(* The search that every method starts with.                               *)
Found(b) == b \in registered

(* A semaphore after sem_trywait succeeded and sem_post gave back.         *)
TakenAndGivenBack(n) == (n - 1) + 1

Reg(b) ==
    /\ ~Found(b)
    /\ registered' = registered \cup {b}
    /\ sem' = [sem EXCEPT ![b] = 0]

RegRefused(b) ==
    /\ Found(b)
    /\ UNCHANGED controlVars

Unreg(b) ==
    /\ registered' = registered \ {b}
    /\ UNCHANGED sem

(* A brick that is not registered is only logged.                          *)
SetSem(b) ==
    /\ sem' = IF b \in registered THEN [sem EXCEPT ![b] = @ + 1] ELSE sem
    /\ UNCHANGED registered

SetAll ==
    /\ sem' = [b \in Bricks |-> IF b \in registered THEN sem[b] + 1 ELSE sem[b]]
    /\ UNCHANGED registered

(* wait_sem, when it returns true and when it returns false.               *)
Signalled(b) ==
    /\ b \in registered
    /\ sem[b] > 0
    /\ sem' = [sem EXCEPT ![b] = TakenAndGivenBack(@)]
    /\ UNCHANGED registered

NotSignalled(b) ==
    /\ b \notin registered \/ sem[b] = 0
    /\ UNCHANGED controlVars

ControlTypeOK ==
    /\ registered \subseteq Bricks
    /\ sem \in [Bricks -> Nat]

=============================================================================
