----------------------------- MODULE BrickLife ------------------------------
(***************************************************************************)
(* What the backup service promises of each brick: the abstract            *)
(* specification of src/include/backup.h that BackupService implements and *)
(* Daemon builds on.                                                       *)
(*                                                                         *)
(* A brick is idle, or one worker has entered it; the worker may announce  *)
(* its start, and then announces its stop before it leaves.  A request to  *)
(* stop reaches the worker that is inside when the request is made, stays  *)
(* with that worker until it leaves, and never reaches a later one.        *)
(***************************************************************************)
CONSTANT Bricks

VARIABLES
    phase,              \* of each brick
    told                \* the bricks whose worker was told to stop

lifeVars == <<phase, told>>

Phases == {"idle", "entered", "shown", "leaving"}

LifeTypeOK ==
    /\ phase \in [Bricks -> Phases]
    /\ told \subseteq Bricks

LifeInit ==
    /\ phase = [b \in Bricks |-> "idle"]
    /\ told = {}

Inside(b) == phase[b] # "idle"

-----------------------------------------------------------------------------

Become(b, before, after) ==
    /\ phase[b] = before
    /\ phase' = [phase EXCEPT ![b] = after]

(* A new worker has not been told anything.                                *)
Enter(b) == Become(b, "idle", "entered") /\ told' = told \ {b}

ShowStart(b) == Become(b, "entered", "shown") /\ UNCHANGED told

(* The worker's init failed: neither a start nor a stop is announced.      *)
GiveUp(b) == Become(b, "entered", "leaving") /\ UNCHANGED told

ShowStop(b) == Become(b, "shown", "leaving") /\ UNCHANGED told

Leave(b) == Become(b, "leaving", "idle") /\ told' = told \ {b}

(* A request to stop a set of bricks: one, or all of them.                 *)
Tell(B) ==
    /\ told' = told \cup {b \in B : Inside(b)}
    /\ UNCHANGED phase

Advance(b) == ShowStart(b) \/ GiveUp(b) \/ ShowStop(b) \/ Leave(b)

LifeNext ==
    \/ \E b \in Bricks : Enter(b) \/ Advance(b) \/ Tell({b})
    \/ Tell(Bricks)

LifeSpec == LifeInit /\ [][LifeNext]_lifeVars

=============================================================================
