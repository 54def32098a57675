--------------------------- MODULE BackupService ----------------------------
(***************************************************************************)
(* The backup service behind the functions of backup.h: the thread pool,   *)
(* the stop register, the tasks that the pool's threads run (proc in       *)
(* src/backup/backup_task.cpp with the loops of backup_worker.cpp and      *)
(* file_frame.cpp that ask for the stop signal), and the callers of the    *)
(* service (src/backup/backup.cpp, backup_master.cpp).                     *)
(*                                                                         *)
(* Callers are the threads that use backup.h: one in the graphical program *)
(* (its main loop) and in bk_console, two in the daemon (its main thread   *)
(* starts the service, its control thread obeys the client).               *)
(*                                                                         *)
(* The messages of a worker reach the user interface in posting order and  *)
(* without loss (MsgQueue), so "status" is what it shows of a brick once   *)
(* the queue is read: the last start or stop message that was posted.      *)
(***************************************************************************)
EXTENDS ThreadPool, TaskControl

CONSTANTS
    Starter,            \* the caller that calls backup_start
    MaxCommands,        \* bound on the calls of a caller after that
    NoBrick

ASSUME StarterAssumption == Starter \in Callers
ASSUME BricksAssumption == IsFiniteSet(Bricks) /\ NoBrick \notin Bricks
ASSUME PoolSizeAssumption ==
    MinThreads = Cardinality(Bricks) /\ MaxThreads = Cardinality(Bricks)
ASSUME CommandsAssumption == MaxCommands \in Nat

VARIABLES
    mpc,                \* control point of each caller in backup_master
    todo,               \* bricks that backup_start has still to queue
    commands,           \* calls made so far
    brick_id,           \* brick_id of each task's backup_task
    wpc,                \* control point of each thread in proc
    status,             \* the start/stop status of a brick at the interface
    stopMissed          \* history: a task that set_all could not see

masterVars == <<mpc, todo, commands, brick_id, stopMissed>>
workerVars == <<wpc, status>>
serviceVars == <<vars, controlVars, masterVars, workerVars>>

ServiceInit ==
    /\ Init
    /\ ControlInit
    /\ mpc = [c \in Callers |-> IF c = Starter THEN "init" ELSE "idle"]
    /\ todo = Bricks
    /\ commands = 0
    /\ brick_id = [k \in Tasks |-> NoBrick]
    /\ wpc = [t \in Threads |-> "none"]
    /\ status = [b \in Bricks |-> "STOP"]
    /\ stopMissed = FALSE

MasterGoto(c, here, there) ==
    /\ mpc[c] = here
    /\ mpc' = [mpc EXCEPT ![c] = there]

WorkerGoto(t, here, there) ==
    /\ tpc[t] = "run"
    /\ wpc[t] = here
    /\ wpc' = [wpc EXCEPT ![t] = there]

(* The task object that the next "new" returns; Tasks bounds how many there *)
(* are.                                                                    *)
NewTask == CHOOSE k \in Tasks : k \notin added
TasksLeft == ~(Tasks \subseteq added)

(* The brick of the task that thread t runs.                               *)
Brick(t) == brick_id[m_ptask[t]]

(* Thread t is between its reg and its unreg.                              *)
Active(t) == wpc[t] \notin {"none", "return"}

(* Thread t was given a task that has not come to reg yet.                 *)
NotYetRegistered(t) ==
    m_ptask[t] # NoTask /\ tpc[t] # "paused" /\ wpc[t] = "none"

-----------------------------------------------------------------------------
(* Seeded faults: proc unregisters before it posts the stop message; a     *)
(* full disk does not stop the worker; stop() forgets set_all.             *)

UnregFirst == [leave |-> "unreg", unreg |-> "post_stop", post_stop |-> "return"]
SignalNobody(b) == UNCHANGED controlVars
SetNone == UNCHANGED controlVars

-----------------------------------------------------------------------------
(* How proc ends: the stop message, then unreg, then the return.           *)
ProcOrder == [leave |-> "post_stop", post_stop |-> "unreg", unreg |-> "return"]

(* What copy does to its own brick when no disk is left.                   *)
StopSelf(b) == SetSem(b)

(* How stop() tells the workers.                                           *)
StopAll == SetAll

-----------------------------------------------------------------------------
(* backup_start: initialize, one task for each brick, one process().       *)

Start(c) ==
    /\ c = Starter
    /\ MasterGoto(c, "init", "start_add")
    /\ Initialize(c)
    /\ UNCHANGED <<controlVars, todo, commands, brick_id, stopMissed,
                   workerVars>>

StartAdd(c) ==
    /\ mpc[c] = "start_add"
    /\ TasksLeft
    /\ \E b \in todo :
         /\ todo' = todo \ {b}
         /\ brick_id' = [brick_id EXCEPT ![NewTask] = b]
    /\ AddTask(c, NewTask)
    /\ UNCHANGED <<controlVars, mpc, commands, stopMissed, workerVars>>

StartProcess(c) ==
    /\ todo = {}
    /\ MasterGoto(c, "start_add", "return")
    /\ Process(c)
    /\ UNCHANGED <<controlVars, todo, commands, brick_id, stopMissed,
                   workerVars>>

(* start_by_brick: a new task for the brick, and one process().            *)
StartByBrick(c, b) ==
    /\ commands < MaxCommands
    /\ TasksLeft
    /\ commands' = commands + 1
    /\ MasterGoto(c, "idle", "process")
    /\ brick_id' = [brick_id EXCEPT ![NewTask] = b]
    /\ AddTask(c, NewTask)
    /\ UNCHANGED <<controlVars, todo, stopMissed, workerVars>>

CallProcess(c) ==
    /\ MasterGoto(c, "process", "return")
    /\ Process(c)
    /\ UNCHANGED <<controlVars, todo, commands, brick_id, stopMissed,
                   workerVars>>

StopByBrick(c, b) ==
    /\ mpc[c] = "idle"
    /\ commands < MaxCommands
    /\ commands' = commands + 1
    /\ SetSem(b)
    /\ UNCHANGED <<vars, mpc, todo, brick_id, stopMissed, workerVars>>

(* stop: set_all, shut_down, the STOP message.                             *)
Stop(c) ==
    /\ commands < MaxCommands
    /\ commands' = commands + 1
    /\ MasterGoto(c, "idle", "set_all")
    /\ StopAll
    /\ stopMissed' = (stopMissed \/ \E t \in Threads : NotYetRegistered(t))
    /\ UNCHANGED <<vars, todo, brick_id, workerVars>>

CallShutDown(c) ==
    /\ MasterGoto(c, "set_all", "shut_down")
    /\ ShutDown(c)
    /\ UNCHANGED <<controlVars, todo, commands, brick_id, stopMissed,
                   workerVars>>

(* The call returns to the user interface, after START or STOP is posted.  *)
Return(c) ==
    /\ cpc[c] = "client"
    /\ mpc[c] \in {"return", "shut_down"}
    /\ mpc' = [mpc EXCEPT ![c] = "idle"]
    /\ UNCHANGED <<vars, controlVars, todo, commands, brick_id, stopMissed,
                   workerVars>>

InPool(c) == Continue(c) /\ UNCHANGED <<controlVars, masterVars, workerVars>>

-----------------------------------------------------------------------------
(* proc: a task on thread t                                                *)

Register(t) ==
    /\ WorkerGoto(t, "none", "init")
    /\ Reg(Brick(t))
    /\ UNCHANGED <<vars, masterVars, status>>

(* The brick is being backed up already: the task only logs that.          *)
RegisterRefused(t) ==
    /\ WorkerGoto(t, "none", "return")
    /\ RegRefused(Brick(t))
    /\ UNCHANGED <<vars, masterVars, status>>

InitFails(t) ==
    /\ WorkerGoto(t, "init", "unreg")
    /\ UNCHANGED <<vars, controlVars, masterVars, status>>

(* init succeeds, and BACKUP_BRICK is posted.                              *)
PostStart(t) ==
    /\ WorkerGoto(t, "init", "prepare")
    /\ status' = [status EXCEPT ![Brick(t)] = "START"]
    /\ UNCHANGED <<vars, controlVars, masterVars>>

Prepare(t) ==
    /\ \/ WorkerGoto(t, "prepare", "loop")
       \/ WorkerGoto(t, "prepare", ProcOrder.leave)
    /\ UNCHANGED <<vars, controlVars, masterVars, status>>

(* The loop of worker.start: a window that is too short waits, another is  *)
(* scanned.  (A scan that meets no entry changes nothing that is modelled  *)
(* here.)                                                                  *)
Window(t) ==
    /\ \/ WorkerGoto(t, "loop", "sleep")
       \/ WorkerGoto(t, "loop", "filter")
    /\ UNCHANGED <<vars, controlVars, masterVars, status>>

SleepEnds(t) ==
    /\ \/ WorkerGoto(t, "sleep", ProcOrder.leave) /\ Signalled(Brick(t))
       \/ WorkerGoto(t, "sleep", "loop") /\ NotSignalled(Brick(t))
    /\ UNCHANGED <<vars, masterVars, status>>

(* search_by_folder calls the filter twice for an entry that the first     *)
(* call does not let in: only the second call's FRAME_STOP counts.         *)
Filter(t) ==
    /\ \/ WorkerGoto(t, "filter", "filter2") /\ Signalled(Brick(t))
       \/ WorkerGoto(t, "filter", "filter2") /\ NotSignalled(Brick(t))
       \/ WorkerGoto(t, "filter", "copy") /\ NotSignalled(Brick(t))
    /\ UNCHANGED <<vars, masterVars, status>>

FilterAgain(t) ==
    /\ \/ WorkerGoto(t, "filter2", ProcOrder.leave) /\ Signalled(Brick(t))
       \/ WorkerGoto(t, "filter2", "filter") /\ NotSignalled(Brick(t))
       \/ WorkerGoto(t, "filter2", "loop") /\ NotSignalled(Brick(t))
    /\ UNCHANGED <<vars, masterVars, status>>

(* copy ends; after it the scan goes on or is over.                        *)
Copy(t) ==
    /\ \/ WorkerGoto(t, "copy", "filter")
       \/ WorkerGoto(t, "copy", "loop")
    /\ \/ UNCHANGED controlVars
       \/ StopSelf(Brick(t))
    /\ UNCHANGED <<vars, masterVars, status>>

PostStop(t) ==
    /\ WorkerGoto(t, "post_stop", ProcOrder.post_stop)
    /\ status' = [status EXCEPT ![Brick(t)] = "STOP"]
    /\ UNCHANGED <<vars, controlVars, masterVars>>

(* unreg, and the error message if there is an error to show.              *)
Unregister(t) ==
    /\ WorkerGoto(t, "unreg", ProcOrder.unreg)
    /\ Unreg(Brick(t))
    /\ UNCHANGED <<vars, masterVars, status>>

ProcReturns(t) ==
    /\ WorkerGoto(t, "return", "none")
    /\ TaskReturns(t)
    /\ UNCHANGED <<controlVars, masterVars, status>>

Proc(t) ==
    \/ Register(t)
    \/ RegisterRefused(t)
    \/ InitFails(t)
    \/ PostStart(t)
    \/ Prepare(t)
    \/ Window(t)
    \/ SleepEnds(t)
    \/ Filter(t)
    \/ FilterAgain(t)
    \/ Copy(t)
    \/ PostStop(t)
    \/ Unregister(t)
    \/ ProcReturns(t)

Poller(t) == ThreadProc(t) /\ UNCHANGED <<controlVars, masterVars, workerVars>>

-----------------------------------------------------------------------------

Call(c) ==
    \/ Start(c)
    \/ \E b \in Bricks : StartByBrick(c, b) \/ StopByBrick(c, b)
    \/ Stop(c)

(* The rest of a call.                                                     *)
Finish(c) ==
    \/ StartAdd(c)
    \/ StartProcess(c)
    \/ CallProcess(c)
    \/ CallShutDown(c)
    \/ Return(c)
    \/ InPool(c)

ThreadStep(t) == Poller(t) \/ Proc(t)

ServiceNext ==
    /\ ~crashed
    /\ \/ \E c \in Callers : Call(c) \/ Finish(c)
       \/ \E t \in Threads : ThreadStep(t)

ServiceSpec == ServiceInit /\ [][ServiceNext]_serviceVars

(* A caller inside the service and every thread are scheduled, a copy and  *)
(* a scan end; nobody is obliged to call the service.                      *)
ServiceFairness ==
    /\ \A c \in Callers : WF_serviceVars(~crashed /\ Finish(c))
    /\ \A t \in Threads : WF_serviceVars(~crashed /\ ThreadStep(t))

FairServiceSpec == ServiceSpec /\ ServiceFairness

-----------------------------------------------------------------------------

(* Every variable of the service stays in its type. *)
ServiceTypeOK ==
    /\ TypeOK
    /\ ControlTypeOK
    /\ mpc \in [Callers -> {"init", "idle", "start_add", "process", "return",
                            "set_all", "shut_down"}]
    /\ todo \subseteq Bricks
    /\ commands \in 0..MaxCommands
    /\ brick_id \in [Tasks -> Bricks \cup {NoBrick}]
    /\ wpc \in [Threads -> {"none", "init", "prepare", "loop", "sleep", "filter",
                            "filter2", "copy", "post_stop", "unreg", "return"}]
    /\ status \in [Bricks -> {"START", "STOP"}]
    /\ stopMissed \in BOOLEAN

(* Two threads never back up the same brick at the same time, however      *)
(* often a start is repeated while the brick is running; and a brick is    *)
(* registered exactly as long as a thread works on it, so that a stop      *)
(* reaches the worker and the brick can be started again afterwards.       *)
OneWorkerPerBrick ==
    \A b \in Bricks :
        Cardinality({t \in Threads : Active(t) /\ Brick(t) = b})
            = IF b \in registered THEN 1 ELSE 0

(* When backup_stop comes back, nothing of the service is at work: every   *)
(* thread has been joined, no brick is registered, every status is STOP.   *)
StoppedMeansQuiet ==
    \A c \in Callers :
        mpc[c] = "shut_down" /\ cpc[c] = "client" =>
            /\ \A t \in Threads : tpc[t] \notin {"while", "poll", "lock", "run", "paused"}
            /\ registered = {}
            /\ \A b \in Bricks : status[b] = "STOP"

(* The worker of brick b is at one of the control points of proc.          *)
WorkerAt(b, points) == \E t \in Threads : wpc[t] \in points /\ Brick(t) = b

(* How the service looks from outside: the phase of each brick by where    *)
(* its worker is, and the workers that were told to stop by the semaphores *)
(* of the stop register.                                                   *)
LifePhase ==
    [b \in Bricks |->
        IF WorkerAt(b, {"init"}) THEN "entered"
        ELSE IF WorkerAt(b, {"prepare", "loop", "sleep", "filter", "filter2",
                             "copy", "post_stop"}) THEN "shown"
        ELSE IF WorkerAt(b, {"unreg"}) THEN "leaving"
        ELSE "idle"]

Life == INSTANCE BrickLife WITH
            phase <- LifePhase, told <- {b \in registered : sem[b] > 0}

(* The service, its pool, its register and its threads together implement  *)
(* the life of a brick: one worker after the other, each with its start    *)
(* announced before its stop and its stop before it leaves; a request to   *)
(* stop stays with the worker it found, and no later worker inherits it.   *)
(* The daemon and the windows are modelled on top of this (Daemon,         *)
(* UserInterface).                                                         *)
ImplementsLife == Life!LifeSpec

(* process() gives a task only to a thread that still waits for one.       *)
AssignsToDormant ==
    \A c \in Callers :
        cpc[c] = "set_task" => m_ptask[dormant[c][idx[c]]] = NoTask

(* A stop signal that a registered worker was given is obeyed.             *)
StopSignalObeyed ==
    \A b \in Bricks :
        b \in registered /\ sem[b] > 0 ~> b \notin registered \/ crashed

Stopping == \E c \in Callers : mpc[c] \in {"set_all", "shut_down"}

(* backup_stop comes back, unless set_all ran while a task was set in a    *)
(* thread and had not registered yet.                                      *)
StopReturnsUnlessMissed == Stopping ~> ~Stopping \/ stopMissed \/ crashed

(* backup_stop comes back.                                                 *)
StopReturns == Stopping ~> ~Stopping \/ crashed

Waiting(t) == Dormant(t) /\ tpc[t] \in {"while", "poll"}

(* Queued tasks are assigned to the dormant threads: a queued task and a   *)
(* live thread that waits for one do not wait for each other forever.      *)
IdleThreadIsUsed ==
    []<>~(m_qtaskList # << >> /\
          \E i \in 1..Len(m_vthreads) : Waiting(m_vthreads[i]))

=============================================================================
