------------------------ MODULE BackupServiceProofs -------------------------
(***************************************************************************)
(* Proofs about the backup service: for any number of bricks, callers,     *)
(* tasks and commands, that it uses its pool as the pool's proofs demand,  *)
(* that it never has two workers on a brick, that it implements the life   *)
(* of a brick; and for one caller that backup_stop leaves nothing at work. *)
(***************************************************************************)
EXTENDS BackupService, ThreadPoolProofs

(* A thread is somewhere in proc only while it runs a task, tasks are of   *)
(* bricks, and the bricks in the register are those that a thread is at    *)
(* work on, one thread each.                                               *)
WorkerInv ==
    /\ \A t \in Threads : wpc[t] # "none" => tpc[t] = "run"
    /\ \A k \in added : brick_id[k] \in Bricks
    /\ \A s, t \in Threads : Active(s) /\ Active(t) /\ Brick(s) = Brick(t) => s = t
    /\ \A t \in Threads : Active(t) => Brick(t) \in registered
    /\ \A b \in registered : \E t \in Threads : Active(t) /\ Brick(t) = b

ServiceInv == IInv /\ HeldInv /\ ServiceTypeOK /\ WorkerInv

-----------------------------------------------------------------------------

(* While there are task objects left, the next one is new. *)
LEMMA NewTaskIsNew == TasksLeft => NewTask \in Tasks \ added
  BY DEF TasksLeft, NewTask

(* A step of the service is a step of the pool, or leaves the pool alone. *)
LEMMA ServiceUsesPool == [ServiceNext]_serviceVars => [Next]_vars
  <1> SUFFICES ASSUME [ServiceNext]_serviceVars PROVE [Next]_vars
    OBVIOUS
  <1>1. CASE UNCHANGED serviceVars
    BY <1>1 DEF serviceVars
  <1>2. ASSUME ~crashed, NEW c \in Callers, Call(c) \/ Finish(c) PROVE [Next]_vars
    <2>1. CASE Start(c)
      BY <1>2, <2>1 DEF Start, Next
    <2>2. ASSUME NEW b \in Bricks, StartByBrick(c, b) PROVE [Next]_vars
      BY <1>2, <2>2, NewTaskIsNew DEF StartByBrick, Next
    <2>3. CASE StartAdd(c)
      BY <1>2, <2>3, NewTaskIsNew DEF StartAdd, Next
    <2>4. CASE StartProcess(c) \/ CallProcess(c) \/ CallShutDown(c) \/ InPool(c)
      BY <1>2, <2>4 DEF StartProcess, CallProcess, CallShutDown, InPool, Next
    <2>5. ASSUME \/ \E b \in Bricks : StopByBrick(c, b)
                 \/ Stop(c) \/ Return(c)
          PROVE  [Next]_vars
      BY <2>5 DEF StopByBrick, Stop, Return
    <2> QED
      BY <1>2, <2>1, <2>2, <2>3, <2>4, <2>5 DEF Call, Finish
  <1>3. ASSUME ~crashed, NEW t \in Threads, ThreadStep(t) PROVE [Next]_vars
    <2>1. CASE Poller(t) \/ ProcReturns(t)
      BY <1>3, <2>1 DEF Poller, ProcReturns, Next
    <2>2. ASSUME \/ Register(t) \/ RegisterRefused(t) \/ InitFails(t) \/ PostStart(t)
                 \/ Prepare(t) \/ Window(t) \/ SleepEnds(t) \/ Filter(t) \/ FilterAgain(t)
                 \/ Copy(t) \/ PostStop(t) \/ Unregister(t)
          PROVE  [Next]_vars
      BY <2>2 DEF Register, RegisterRefused, InitFails, PostStart, Prepare, Window, SleepEnds,
                  Filter, FilterAgain, Copy, PostStop, Unregister
    <2> QED
      BY <1>3, <2>1, <2>2 DEF ThreadStep, Proc
  <1> QED
    BY <1>1, <1>2, <1>3 DEF ServiceNext

(* The service is one of the ways to use the pool. *)
LEMMA ServiceIsPool == ServiceSpec => Spec
  <1>1. ServiceInit => Init
    BY DEF ServiceInit
  <1> QED
    BY <1>1, ServiceUsesPool, PTL DEF ServiceSpec, Spec

(* No task of the service is run twice, shared, or used after its deletion, *)
(* with the two callers of the daemon too. *)
THEOREM ServiceHandsOver == ServiceSpec => []TaskHeldOnce
  BY ServiceIsPool, TaskHandedOver, PTL

-----------------------------------------------------------------------------

(* The types of the service hold at the start, and nobody is at work. *)
LEMMA ServiceStarts == ServiceInit => ServiceTypeOK /\ WorkerInv
  <1> SUFFICES ASSUME ServiceInit PROVE ServiceTypeOK /\ WorkerInv
    OBVIOUS
  <1>1. TypeOK
    BY TypeInit DEF ServiceInit
  <1>2. registered = {} /\ sem = [b \in Bricks |-> 0] /\ added = {}
    BY DEF ServiceInit, ControlInit, Init
  <1>3. ServiceTypeOK
    <2>1. /\ mpc \in [Callers -> {"init", "idle", "start_add", "process", "return",
                                   "set_all", "shut_down"}]
          /\ wpc \in [Threads -> {"none", "init", "prepare", "loop", "sleep", "filter",
                                   "filter2", "copy", "post_stop", "unreg", "return"}]
          /\ status \in [Bricks -> {"START", "STOP"}]
      BY DEF ServiceInit
    <2>2. commands \in 0..MaxCommands
      BY CommandsAssumption, SMT DEF ServiceInit
    <2>3. todo \subseteq Bricks /\ stopMissed \in BOOLEAN
      BY Zenon DEF ServiceInit
    <2>4. brick_id \in [Tasks -> Bricks \cup {NoBrick}]
      BY DEF ServiceInit
    <2>5. ControlTypeOK
      BY <1>2 DEF ControlTypeOK
    <2> QED
      BY <1>1, <2>1, <2>2, <2>3, <2>4, <2>5 DEF ServiceTypeOK
  <1>4. WorkerInv
    BY <1>2 DEF ServiceInit, WorkerInv, Active
  <1> QED
    BY <1>3, <1>4

(* Each step of a caller keeps the types of the service. *)
LEMMA ServiceTypeCaller ==
    ASSUME ServiceTypeOK, TypeOK', NEW c \in Callers, Call(c) \/ Finish(c)
    PROVE  ServiceTypeOK'
  <1> USE DEF ServiceTypeOK, ControlTypeOK, MasterGoto, controlVars, masterVars, workerVars
  <1>1. CASE Start(c)
    BY <1>1 DEF Start
  <1>2. ASSUME NEW b \in Bricks, StartByBrick(c, b) PROVE ServiceTypeOK'
    BY <1>2, CommandsAssumption, NewTaskIsNew DEF StartByBrick
  <1>3. ASSUME NEW b \in Bricks, StopByBrick(c, b) PROVE ServiceTypeOK'
    BY <1>3, CommandsAssumption DEF StopByBrick, SetSem
  <1>4. CASE Stop(c)
    BY <1>4, CommandsAssumption DEF Stop, StopAll, SetAll
  <1>5. CASE StartAdd(c)
    BY <1>5, NewTaskIsNew DEF StartAdd
  <1>6. CASE StartProcess(c) \/ CallProcess(c) \/ CallShutDown(c) \/ Return(c) \/ InPool(c)
    BY <1>6 DEF StartProcess, CallProcess, CallShutDown, Return, InPool
  <1> QED
    BY <1>1, <1>2, <1>3, <1>4, <1>5, <1>6 DEF Call, Finish

(* A running thread has a task of a brick. *)
LEMMA RunningHasBrick ==
    ASSUME ServiceInv, NEW t \in Threads, tpc[t] = "run"
    PROVE  m_ptask[t] \in added /\ Brick(t) \in Bricks
  <1>1. m_ptask[t] # NoTask
    BY PointerSafe DEF ServiceInv, TaskPointerNotNull
  <1> QED
    BY <1>1 DEF ServiceInv, HeldInv, HeldInUse, WorkerInv, Brick

(* Each step of a thread keeps the types of the service. *)
LEMMA ServiceTypeThread ==
    ASSUME ServiceInv, TypeOK', NEW t \in Threads, ThreadStep(t)
    PROVE  ServiceTypeOK'
  <1> USE DEF ServiceInv, ServiceTypeOK, ControlTypeOK, WorkerGoto, controlVars, masterVars,
              workerVars, ProcOrder
  <1>0. tpc[t] = "run" => Brick(t) \in Bricks
    BY RunningHasBrick
  <1>1. CASE Poller(t)
    BY <1>1 DEF Poller
  <1>2. CASE Register(t)
    BY <1>0, <1>2 DEF Register, Reg
  <1>3. CASE RegisterRefused(t)
    BY <1>3 DEF RegisterRefused, RegRefused
  <1>4. CASE InitFails(t) \/ Prepare(t) \/ Window(t) \/ ProcReturns(t)
    BY <1>4 DEF InitFails, Prepare, Window, ProcReturns
  <1>5. CASE PostStart(t)
    BY <1>0, <1>5 DEF PostStart
  <1>6. CASE SleepEnds(t)
    BY <1>0, <1>6 DEF SleepEnds, Signalled, NotSignalled, TakenAndGivenBack
  <1>7. CASE Filter(t)
    BY <1>0, <1>7 DEF Filter, Signalled, NotSignalled, TakenAndGivenBack
  <1>8. CASE FilterAgain(t)
    BY <1>0, <1>8 DEF FilterAgain, Signalled, NotSignalled, TakenAndGivenBack
  <1>9. CASE Copy(t)
    BY <1>0, <1>9 DEF Copy, StopSelf, SetSem
  <1>10. CASE PostStop(t)
    BY <1>0, <1>10 DEF PostStop
  <1>11. CASE Unregister(t)
    BY <1>0, <1>11 DEF Unregister, Unreg
  <1> QED
    BY <1>1, <1>2, <1>3, <1>4, <1>5, <1>6, <1>7, <1>8, <1>9, <1>10, <1>11 DEF ThreadStep, Proc

-----------------------------------------------------------------------------

(* Nobody but the thread itself ends a task, or takes its pointer away. *)
LEMMA RunningKept ==
    ASSUME IInv, [Next]_vars, NEW t \in Threads, tpc[t] = "run", ~TaskReturns(t)
    PROVE  tpc'[t] = "run" /\ m_ptask'[t] = m_ptask[t]
  <1> USE DEF poolVars, threadVars, flagVars, callerVars, historyVars
  <1>0. /\ m_ptask \in [Threads -> Tasks \cup {NoTask}]
        /\ tpc \in [Threads -> {"unborn", "failed", "while", "poll", "lock", "run",
                            "paused", "exited", "freed"}]
        /\ m_lock[t] = "self"
    BY DEF IInv, TypeOK, PointerInv, LockInv
  <1>1. CASE UNCHANGED vars
    BY <1>1 DEF vars
  <1>2. ASSUME NEW c \in Callers,
               \/ Initialize(c) \/ Process(c) \/ ShutDown(c)
               \/ \E k \in Tasks : AddTask(c, k)
        PROVE  tpc'[t] = "run" /\ m_ptask'[t] = m_ptask[t]
    BY <1>2 DEF Initialize, Process, ShutDown, AddTask
  <1>3. ASSUME ~crashed, NEW c \in Callers, Continue(c)
        PROVE  tpc'[t] = "run" /\ m_ptask'[t] = m_ptask[t]
    <2>1. CASE CreateThread(c)
      BY <1>0, <2>1 DEF CreateThread
    <2>2. CASE SetTask(c)
      <3>1. cpc[c] = "set_task" /\ UNCHANGED tpc
            /\ m_ptask' = [m_ptask EXCEPT ![Slot(c)] = nextTask[c]]
        BY <2>2 DEF SetTask, Slot, Goto
      <3>2. Slot(c) # t
        BY <1>0, <3>1, OwnersAssumption DEF IInv, PointerInv, LockInv
      <3> QED
        BY <1>0, <3>1, <3>2
    <2>3. CASE Destroy(c)
      <3>1. cpc[c] = "destroy" /\ UNCHANGED m_ptask
            /\ tpc' = [tpc EXCEPT ![delthread[c]] = "freed"]
        BY <2>3 DEF Destroy, Goto
      <3>2. delthread[c] # t
        BY <1>3, <3>1 DEF IInv, PointerInv, DestroyInv
      <3> QED
        BY <1>0, <3>1, <3>2
    <2>4. UNCHANGED <<tpc, m_ptask>> \/ CreateThread(c) \/ SetTask(c) \/ Destroy(c)
      BY <1>3 DEF Continue, SetRunning, InitializeReturns, Scan, ScanEnds, PopTask, LockThread,
           ResumeUnlock, ProcessReturns, DrainTask, DrainEnds, PopThread, End, Join,
           ShutDownReturns
    <2> QED
      BY <2>1, <2>2, <2>3, <2>4
  <1>4. ASSUME NEW s \in Threads, ThreadProc(s) \/ TaskReturns(s)
        PROVE  tpc'[t] = "run" /\ m_ptask'[t] = m_ptask[t]
    BY <1>0, <1>4 DEF ThreadProc, TaskReturns, While, Exit, Poll, TakeTask, ClearTask, Step
  <1> QED
    BY <1>1, <1>2, <1>3, <1>4 DEF Next

(* What a step leaves alone, when it is not one of proc. *)
WorkersLeftAlone ==
    /\ UNCHANGED <<registered, wpc, status>>
    /\ \A t \in Threads : tpc[t] = "run" => tpc'[t] = "run" /\ Brick(t)' = Brick(t)

(* A step of a caller leaves the workers at their work: a new task is of a *)
(* brick and changes that of no other task. *)
LEMMA CallerLeavesAlone ==
    ASSUME ServiceInv, ~crashed, NEW c \in Callers, Call(c) \/ Finish(c), ServiceNext
    PROVE  WorkersLeftAlone /\ \A k \in added' : brick_id'[k] \in Bricks
  <1> USE DEF controlVars, masterVars, workerVars
  <1>1. \A t \in Threads : tpc[t] = "run" => tpc'[t] = "run" /\ m_ptask'[t] = m_ptask[t]
    <2>1. [Next]_vars
      BY ServiceUsesPool
    <2>2. ASSUME NEW t \in Threads, TaskReturns(t) PROVE FALSE
      <3>1. UNCHANGED <<cpc, idx, dormant, nextTask, delthread, m_qtaskList, m_vthreads>>
            /\ tpc'[t] # tpc[t]
        BY <2>2 DEF TaskReturns, Step, callerVars, poolVars, ServiceInv, IInv, TypeOK
      <3>2. CASE Continue(c)
        BY <3>1, <3>2 DEF Continue, CreateThread, SetRunning, InitializeReturns, Scan, ScanEnds,
             PopTask, LockThread, SetTask, ResumeUnlock, ProcessReturns, DrainTask, DrainEnds,
             PopThread, End, Join, Destroy, ShutDownReturns, Goto, threadVars, ServiceInv, IInv,
             TypeOK
      <3> QED
        BY <3>1, <3>2 DEF Call, Finish, Start, StartByBrick, StopByBrick, Stop, StartAdd,
             StartProcess, CallProcess, CallShutDown, Return, InPool, Initialize, AddTask, Process,
             ShutDown, vars, threadVars
    <2> QED
      BY <2>1, <2>2, RunningKept DEF ServiceInv
  <1>2. /\ \A k \in added : brick_id'[k] = brick_id[k]
        /\ \A k \in added' : brick_id'[k] \in Bricks
    <2>0. /\ \A k \in added : brick_id[k] \in Bricks
          /\ brick_id \in [Tasks -> Bricks \cup {NoBrick}]
          /\ todo \subseteq Bricks
      BY DEF ServiceInv, WorkerInv, ServiceTypeOK
    <2>1. CASE StartAdd(c)
      BY <2>0, <2>1, NewTaskIsNew DEF StartAdd, AddTask
    <2>2. ASSUME NEW b \in Bricks, StartByBrick(c, b)
          PROVE  /\ \A k \in added : brick_id'[k] = brick_id[k]
                 /\ \A k \in added' : brick_id'[k] \in Bricks
      BY <2>0, <2>2, NewTaskIsNew DEF StartByBrick, AddTask
    <2>3. ASSUME \/ Start(c) \/ \E b \in Bricks : StopByBrick(c, b)
                 \/ Stop(c) \/ StartProcess(c) \/ CallProcess(c) \/ CallShutDown(c) \/ Return(c)
                 \/ InPool(c)
          PROVE  UNCHANGED <<brick_id, added>>
      <3>1. Continue(c) => UNCHANGED added
        BY DEF Continue, CreateThread, SetRunning, InitializeReturns, Scan, ScanEnds,
             PopTask, LockThread, SetTask, ResumeUnlock, ProcessReturns, DrainTask, DrainEnds,
             PopThread, End, Join, Destroy, ShutDownReturns, historyVars
      <3> QED
        BY <2>3, <3>1 DEF Start, StopByBrick, Stop, StartProcess, CallProcess, CallShutDown,
             Return, InPool, Initialize, Process, ShutDown, vars, historyVars
    <2> QED
      BY <2>0, <2>1, <2>2, <2>3 DEF Call, Finish
  <1>3. UNCHANGED <<registered, wpc, status>>
    BY DEF Call, Finish, Start, StartByBrick, StopByBrick, Stop, StartAdd, StartProcess,
           CallProcess, CallShutDown, Return, InPool, StopAll, SetAll, SetSem
  <1>4. \A t \in Threads : tpc[t] = "run" => Brick(t)' = Brick(t)
    BY <1>1, <1>2, RunningHasBrick DEF Brick
  <1> QED
    BY <1>1, <1>2, <1>3, <1>4 DEF WorkersLeftAlone

(* So does a thread of the pool outside proc. *)
LEMMA PollerLeavesAlone ==
    ASSUME ServiceInv, ~crashed, NEW s \in Threads, Poller(s)
    PROVE  WorkersLeftAlone /\ \A k \in added' : brick_id'[k] \in Bricks
  <1>1. \A t \in Threads : tpc[t] = "run" => tpc'[t] = "run" /\ m_ptask'[t] = m_ptask[t]
    BY DEF Poller, ThreadProc, While, Exit, Poll, TakeTask, ClearTask, Step, ServiceInv, IInv,
           TypeOK
  <1>2. UNCHANGED <<registered, wpc, status, brick_id, added>>
    BY DEF Poller, ThreadProc, While, Exit, Poll, TakeTask, ClearTask, historyVars, controlVars,
           masterVars, workerVars
  <1> QED
    BY <1>1, <1>2 DEF WorkersLeftAlone, Brick, ServiceInv, WorkerInv

(* Workers that are left alone stay the only ones of their bricks. *)
LEMMA LeftAloneKeeps ==
    ASSUME ServiceInv, WorkersLeftAlone, \A k \in added' : brick_id'[k] \in Bricks
    PROVE  WorkerInv'
  <1>1. \A t \in Threads : wpc[t] # "none" => tpc'[t] = "run" /\ Brick(t)' = Brick(t)
    BY DEF ServiceInv, WorkerInv, WorkersLeftAlone
  <1>2. UNCHANGED <<registered, wpc>>
    BY DEF WorkersLeftAlone
  <1>3. \A t \in Threads : Active(t)' = Active(t)
    BY <1>2 DEF Active
  <1>4. \A t \in Threads : Active(t) => Brick(t)' = Brick(t)
    BY <1>1 DEF Active
  <1> QED
    BY <1>1, <1>2, <1>3, <1>4 DEF ServiceInv, WorkerInv

(* A step of proc changes nothing of the other threads, and of its own     *)
(* thread only where it is. *)
LEMMA ProcLeavesOthers ==
    ASSUME ServiceInv, NEW t \in Threads, Proc(t)
    PROVE  /\ tpc[t] = "run" /\ Brick(t) \in Bricks
           /\ \A s \in Threads : Brick(s)' = Brick(s)
           /\ \A s \in Threads : s # t => tpc'[s] = tpc[s] /\ wpc'[s] = wpc[s]
           /\ ProcReturns(t) \/ tpc' = tpc
           /\ UNCHANGED <<brick_id, added>>
  <1> USE DEF Proc, Register, RegisterRefused, InitFails, PostStart, Prepare, Window, SleepEnds,
              Filter, FilterAgain, Copy, PostStop, Unregister, ProcReturns, TaskReturns, WorkerGoto
  <1>1. tpc[t] = "run"
    OBVIOUS
  <1>2. Brick(t) \in Bricks
    BY <1>1, RunningHasBrick
  <1>3. UNCHANGED <<brick_id, m_ptask, added>>
    BY DEF vars, threadVars, masterVars, historyVars
  <1>4. \A s \in Threads : s # t => tpc'[s] = tpc[s] /\ wpc'[s] = wpc[s]
    BY DEF Step, vars, threadVars, ServiceInv, ServiceTypeOK, TypeOK
  <1>5. ProcReturns(t) \/ tpc' = tpc
    BY DEF vars, threadVars
  <1> QED
    BY <1>1, <1>2, <1>3, <1>4, <1>5 DEF Brick

(* The worker of a brick stays the only one: it enters when nobody is      *)
(* registered, and is registered until it leaves. *)
LEMMA ProcKeepsWorkers ==
    ASSUME ServiceInv, NEW t \in Threads, Proc(t)
    PROVE  WorkerInv'
  <1>0. /\ tpc[t] = "run" /\ Brick(t) \in Bricks
        /\ \A s \in Threads : Brick(s)' = Brick(s)
        /\ \A s \in Threads : s # t => tpc'[s] = tpc[s] /\ wpc'[s] = wpc[s]
        /\ ProcReturns(t) \/ tpc' = tpc
        /\ UNCHANGED <<brick_id, added>>
        /\ registered \subseteq Bricks
        /\ wpc \in [Threads -> {"none", "init", "prepare", "loop", "sleep", "filter",
                                "filter2", "copy", "post_stop", "unreg", "return"}]
    BY ProcLeavesOthers DEF ServiceInv, ServiceTypeOK, ControlTypeOK
  <1>1. ASSUME tpc' = tpc, Active(t), Active(t)', registered' = registered
        PROVE  WorkerInv'
    BY <1>0, <1>1 DEF ServiceInv, WorkerInv, Active
  <1>2. CASE Register(t)
    <2>1. /\ wpc[t] = "none" /\ wpc' = [wpc EXCEPT ![t] = "init"] /\ tpc' = tpc
          /\ Brick(t) \notin registered /\ registered' = registered \cup {Brick(t)}
      BY <1>2 DEF Register, WorkerGoto, Reg, Found, vars, threadVars
    <2> QED
      BY <1>0, <2>1 DEF ServiceInv, WorkerInv, Active
  <1>3. CASE RegisterRefused(t)
    <2>1. /\ wpc[t] = "none" /\ wpc' = [wpc EXCEPT ![t] = "return"] /\ tpc' = tpc
          /\ registered' = registered
      BY <1>3 DEF RegisterRefused, WorkerGoto, RegRefused, controlVars, vars, threadVars
    <2> QED
      BY <1>0, <2>1 DEF ServiceInv, WorkerInv, Active
  <1>4. CASE Unregister(t)
    <2>1. /\ wpc[t] = "unreg" /\ wpc' = [wpc EXCEPT ![t] = "return"] /\ tpc' = tpc
          /\ registered' = registered \ {Brick(t)}
      BY <1>4 DEF Unregister, WorkerGoto, Unreg, ProcOrder, vars, threadVars
    <2> QED
      BY <1>0, <2>1 DEF ServiceInv, WorkerInv, Active
  <1>5. CASE ProcReturns(t)
    <2>1. /\ wpc[t] = "return" /\ wpc' = [wpc EXCEPT ![t] = "none"]
          /\ registered' = registered
      BY <1>5 DEF ProcReturns, WorkerGoto, controlVars
    <2> QED
      BY <1>0, <2>1 DEF ServiceInv, WorkerInv, Active
  <1>6. ASSUME \/ InitFails(t) \/ PostStart(t) \/ Prepare(t) \/ Window(t) \/ SleepEnds(t)
               \/ Filter(t) \/ FilterAgain(t) \/ Copy(t) \/ PostStop(t)
        PROVE  WorkerInv'
    <2>1. tpc' = tpc /\ registered' = registered
      BY <1>6 DEF InitFails, PostStart, Prepare, Window, SleepEnds, Filter, FilterAgain, Copy,
           PostStop, StopSelf, SetSem, Signalled, NotSignalled, controlVars, vars, threadVars
    <2>2. Active(t) /\ Active(t)'
      BY <1>0, <1>6 DEF InitFails, PostStart, Prepare, Window, SleepEnds, Filter, FilterAgain, Copy,
           PostStop, WorkerGoto, ProcOrder, Active
    <2> QED
      BY <1>1, <2>1, <2>2
  <1> QED
    BY <1>2, <1>3, <1>4, <1>5, <1>6 DEF Proc

(* Each step keeps the invariant of the service. *)
LEMMA ServiceStep ==
    ServiceInv /\ IInv' /\ HeldInv' /\ [ServiceNext]_serviceVars => ServiceInv'
  <1> SUFFICES ASSUME ServiceInv, IInv', HeldInv', [ServiceNext]_serviceVars
               PROVE  ServiceTypeOK' /\ WorkerInv'
    BY DEF ServiceInv
  <1>0. TypeOK'
    BY DEF IInv
  <1>1. CASE UNCHANGED serviceVars
    <2>1. /\ UNCHANGED <<added, brick_id, registered, sem, wpc, status, tpc, m_ptask, mpc, todo,
                         commands, stopMissed>>
      BY <1>1 DEF serviceVars, vars, controlVars, masterVars, workerVars, threadVars, historyVars
    <2>2. ServiceTypeOK'
      BY <1>0, <2>1 DEF ServiceInv, ServiceTypeOK, ControlTypeOK
    <2>3. \A t \in Threads : Brick(t)' = Brick(t) /\ Active(t)' = Active(t)
      BY <2>1 DEF Brick, Active
    <2>4. WorkerInv'
      BY <2>1, <2>3 DEF ServiceInv, WorkerInv
    <2> QED
      BY <2>2, <2>4
  <1>2. ASSUME ServiceNext, ~crashed, NEW c \in Callers, Call(c) \/ Finish(c)
        PROVE  ServiceTypeOK' /\ WorkerInv'
    <2>1. ServiceTypeOK'
      BY <1>0, <1>2, ServiceTypeCaller DEF ServiceInv
    <2>2. WorkersLeftAlone /\ \A k \in added' : brick_id'[k] \in Bricks
      BY <1>2, CallerLeavesAlone
    <2> QED
      BY <2>1, <2>2, LeftAloneKeeps
  <1>3. ASSUME ~crashed, NEW t \in Threads, ThreadStep(t)
        PROVE  ServiceTypeOK' /\ WorkerInv'
    <2>1. ServiceTypeOK'
      BY <1>0, <1>3, ServiceTypeThread
    <2>2. CASE Poller(t)
      <3>1. WorkersLeftAlone /\ \A k \in added' : brick_id'[k] \in Bricks
        BY <1>3, <2>2, PollerLeavesAlone
      <3> QED
        BY <2>1, <3>1, LeftAloneKeeps
    <2>3. CASE Proc(t)
      BY <2>1, <2>3, ProcKeepsWorkers
    <2> QED
      BY <1>3, <2>2, <2>3 DEF ThreadStep
  <1> QED
    BY <1>1, <1>2, <1>3 DEF ServiceNext

(* The invariant of the service holds, with any number of callers. *)
THEOREM ServiceInvariant == ServiceSpec => []ServiceInv
  <1>1. ServiceInit => ServiceInv
    <2>1. ServiceInit => Init
      BY DEF ServiceInit
    <2> QED
      BY <2>1, ServiceStarts, TypeInit, PointerInit, HeldInit DEF ServiceInv, IInv
  <1>2. IInv /\ HeldInv /\ [Next]_vars => HeldInv'
    BY HeldStep
  <1> QED
    BY <1>1, <1>2, InvStep, ServiceStep, ServiceUsesPool, PTL DEF ServiceSpec, ServiceInv

(* The types of the service hold, with any number of callers. *)
THEOREM ServiceTypeCorrect == ServiceSpec => []ServiceTypeOK
  BY ServiceInvariant, PTL DEF ServiceInv

(* Two threads never work on the same brick, however starts and stops of   *)
(* any number of callers overlap, and a brick is registered exactly as     *)
(* long as one works on it. *)
THEOREM OneWorker == ServiceSpec => []OneWorkerPerBrick
  <1>1. ServiceInv => OneWorkerPerBrick
    <2> SUFFICES ASSUME ServiceInv, NEW b \in Bricks
                 PROVE  Cardinality({t \in Threads : Active(t) /\ Brick(t) = b})
                          = IF b \in registered THEN 1 ELSE 0
      BY DEF OneWorkerPerBrick
    <2> DEFINE W == {t \in Threads : Active(t) /\ Brick(t) = b}
    <2>1. CASE b \in registered
      <3>1. PICK t \in Threads : Active(t) /\ Brick(t) = b
        BY <2>1 DEF ServiceInv, WorkerInv
      <3>2. W = {t}
        BY <3>1 DEF ServiceInv, WorkerInv
      <3>3. Cardinality(W) = 1
        BY <3>2, FS_Singleton
      <3> QED
        BY <2>1, <3>3
    <2>2. CASE b \notin registered
      <3>1. W = {}
        BY <2>2 DEF ServiceInv, WorkerInv
      <3>2. Cardinality(W) = 0
        BY <3>1, FS_EmptySet
      <3> QED
        BY <2>2, <3>2
    <2> QED
      BY <2>1, <2>2
  <1> QED
    BY <1>1, ServiceInvariant, PTL

-----------------------------------------------------------------------------

(* The phase that the only worker of a brick shows.                        *)
PhaseAt(point) ==
    IF point = "init" THEN "entered"
    ELSE IF point = "unreg" THEN "leaving"
    ELSE "shown"

(* The phase of a brick is that of its worker, and idle without one.       *)
PhaseInv ==
    /\ \A t \in Threads : Active(t) => LifePhase[Brick(t)] = PhaseAt(wpc[t])
    /\ \A b \in Bricks : b \notin registered => LifePhase[b] = "idle"

(* What LifePhase looks for is where the only worker is. *)
LEMMA PhaseIsWorkers == ServiceInv => PhaseInv
  <1> SUFFICES ASSUME ServiceInv PROVE PhaseInv
    OBVIOUS
  <1>0. wpc \in [Threads -> {"none", "init", "prepare", "loop", "sleep", "filter",
                             "filter2", "copy", "post_stop", "unreg", "return"}]
    BY DEF ServiceInv, ServiceTypeOK
  <1>1. ASSUME NEW t \in Threads, Active(t)
        PROVE  LifePhase[Brick(t)] = PhaseAt(wpc[t])
    <2>1. Brick(t) \in Bricks
      BY <1>1, RunningHasBrick DEF Active, ServiceInv, WorkerInv
    <2>2. ASSUME NEW s \in Threads, wpc[s] \notin {"none", "return"}, Brick(s) = Brick(t)
          PROVE  s = t
      BY <1>1, <2>2 DEF ServiceInv, WorkerInv, Active
    <2>3. /\ WorkerAt(Brick(t), {"init"}) <=> wpc[t] = "init"
          /\ WorkerAt(Brick(t), {"unreg"}) <=> wpc[t] = "unreg"
          /\ WorkerAt(Brick(t), {"prepare", "loop", "sleep", "filter", "filter2",
                                 "copy", "post_stop"})
               <=> wpc[t] \in {"prepare", "loop", "sleep", "filter", "filter2",
                               "copy", "post_stop"}
      BY <2>2 DEF WorkerAt
    <2> QED
      BY <1>0, <1>1, <2>1, <2>3 DEF LifePhase, PhaseAt, Active
  <1>2. ASSUME NEW b \in Bricks, b \notin registered PROVE LifePhase[b] = "idle"
    <2>1. \A t \in Threads : Brick(t) = b => wpc[t] \in {"none", "return"}
      BY <1>2 DEF ServiceInv, WorkerInv, Active
    <2>2. /\ ~WorkerAt(b, {"init"}) /\ ~WorkerAt(b, {"unreg"})
          /\ ~WorkerAt(b, {"prepare", "loop", "sleep", "filter", "filter2",
                           "copy", "post_stop"})
      BY <2>1 DEF WorkerAt
    <2> QED
      BY <2>2 DEF LifePhase
  <1> QED
    BY <1>1, <1>2 DEF PhaseInv

(* The same of the state after a step. *)
LEMMA PhaseIsWorkersNext == ServiceInv' => PhaseInv'
  BY PhaseIsWorkers, PTL

(* The bricks whose worker was told to stop. *)
Told == {b \in registered : sem[b] > 0}

(* A step that leaves the workers alone leaves every phase alone. *)
LEMMA SamePhases ==
    ASSUME ServiceInv, ServiceInv', WorkersLeftAlone
    PROVE  LifePhase' = LifePhase
  <1>1. PhaseInv /\ PhaseInv'
    BY PhaseIsWorkers, PhaseIsWorkersNext
  <1>2. \A t \in Threads : Active(t) => Active(t)' /\ Brick(t)' = Brick(t) /\ wpc'[t] = wpc[t]
    BY DEF ServiceInv, WorkerInv, WorkersLeftAlone, Active
  <1>3. \A b \in Bricks : LifePhase'[b] = LifePhase[b]
    <2> TAKE b \in Bricks
    <2>1. CASE b \in registered
      <3>1. PICK t \in Threads : Active(t) /\ Brick(t) = b
        BY <2>1 DEF ServiceInv, WorkerInv
      <3> QED
        BY <1>1, <1>2, <3>1 DEF PhaseInv, PhaseAt
    <2>2. CASE b \notin registered
      BY <1>1, <2>2 DEF PhaseInv, WorkersLeftAlone
    <2> QED
      BY <2>1, <2>2
  <1>4. LifePhase = [b \in Bricks |-> LifePhase[b]] /\ LifePhase' = [b \in Bricks |-> LifePhase'[b]]
    BY DEF LifePhase
  <1> QED
    BY <1>3, <1>4

(* A step of proc changes at most the phase of its own brick. *)
LEMMA OnePhase ==
    ASSUME ServiceInv, ServiceInv', NEW t \in Threads, Proc(t)
    PROVE  LifePhase' = [LifePhase EXCEPT ![Brick(t)] = LifePhase'[Brick(t)]]
  <1>1. PhaseInv /\ PhaseInv'
    BY PhaseIsWorkers, PhaseIsWorkersNext
  <1>2. /\ Brick(t) \in Bricks
        /\ \A s \in Threads : Brick(s)' = Brick(s)
        /\ \A s \in Threads : s # t => wpc'[s] = wpc[s]
    BY ProcLeavesOthers
  <1>3. \A b \in Bricks : b # Brick(t) => (b \in registered' <=> b \in registered)
    BY DEF Proc, Register, RegisterRefused, InitFails, PostStart, Prepare, Window, SleepEnds,
           Filter, FilterAgain, Copy, PostStop, Unregister, ProcReturns, Reg, RegRefused, Unreg,
           StopSelf, SetSem, Signalled, NotSignalled, controlVars
  <1>4. \A b \in Bricks : b # Brick(t) => LifePhase'[b] = LifePhase[b]
    <2> SUFFICES ASSUME NEW b \in Bricks, b # Brick(t) PROVE LifePhase'[b] = LifePhase[b]
      OBVIOUS
    <2>1. CASE b \in registered
      <3>1. PICK s \in Threads : Active(s) /\ Brick(s) = b
        BY <2>1 DEF ServiceInv, WorkerInv
      <3>2. s # t /\ Active(s)' /\ Brick(s)' = b /\ wpc'[s] = wpc[s]
        BY <1>2, <3>1 DEF Active
      <3> QED
        BY <1>1, <3>1, <3>2 DEF PhaseInv, PhaseAt
    <2>2. CASE b \notin registered
      BY <1>1, <1>3, <2>2 DEF PhaseInv
    <2> QED
      BY <2>1, <2>2
  <1>5. LifePhase = [b \in Bricks |-> LifePhase[b]] /\ LifePhase' = [b \in Bricks |-> LifePhase'[b]]
    BY DEF LifePhase
  <1> QED
    BY <1>2, <1>4, <1>5

(* A brick is registered from the entry of its worker until it has left. *)
LEMMA RegisteredIsInside ==
    ASSUME ServiceInv, NEW b \in Bricks
    PROVE  b \in registered <=> LifePhase[b] # "idle"
  <1>1. PhaseInv
    BY PhaseIsWorkers
  <1>2. CASE b \in registered
    <2>1. PICK t \in Threads : Active(t) /\ Brick(t) = b
      BY <1>2 DEF ServiceInv, WorkerInv
    <2> QED
      BY <1>1, <1>2, <2>1 DEF PhaseInv, PhaseAt
  <1>3. CASE b \notin registered
    BY <1>1, <1>3 DEF PhaseInv
  <1> QED
    BY <1>2, <1>3

(* A step that changes neither a phase nor who was told is none of Life. *)
LEMMA LifeStutters ==
    ASSUME LifePhase' = LifePhase, Told' = Told
    PROVE  UNCHANGED Life!lifeVars
  BY DEF Life!lifeVars, Told

(* A call of the service tells bricks to stop, or is none of Life's steps. *)
LEMMA LifeCaller ==
    ASSUME ServiceInv, ServiceInv', ~crashed, ServiceNext, NEW c \in Callers, Call(c) \/ Finish(c)
    PROVE  [Life!LifeNext]_(Life!lifeVars)
  <1>1. LifePhase' = LifePhase
    BY CallerLeavesAlone, SamePhases
  <1>2. registered' = registered /\ registered \subseteq Bricks /\ sem \in [Bricks -> Nat]
    BY CallerLeavesAlone DEF WorkersLeftAlone, ServiceInv, ServiceTypeOK, ControlTypeOK
  <1>3. \A b \in Bricks : b \in registered <=> Life!Inside(b)
    BY RegisteredIsInside DEF Life!Inside
  <1>4. ASSUME NEW b \in Bricks, StopByBrick(c, b) PROVE Life!Tell({b})
    <2>1. sem' = IF b \in registered THEN [sem EXCEPT ![b] = @ + 1] ELSE sem
      BY <1>4 DEF StopByBrick, SetSem
    <2>2. Told' = Told \cup {a \in {b} : a \in registered}
      BY <1>2, <2>1 DEF Told
    <2> QED
      BY <1>1, <1>3, <2>2 DEF Life!Tell, Told
  <1>5. CASE Stop(c)
    <2>1. sem' = [b \in Bricks |-> IF b \in registered THEN sem[b] + 1 ELSE sem[b]]
      BY <1>5 DEF Stop, StopAll, SetAll
    <2>2. Told' = Told \cup {a \in Bricks : a \in registered}
      BY <1>2, <2>1 DEF Told
    <2>3. Life!Tell(Bricks)
      BY <1>1, <1>3, <2>2 DEF Life!Tell, Told
    <2> QED
      BY <2>3 DEF Life!LifeNext
  <1>6. ASSUME \/ Start(c) \/ \E b \in Bricks : StartByBrick(c, b)
               \/ Finish(c)
        PROVE  UNCHANGED Life!lifeVars
    <2>1. sem' = sem
      BY <1>6 DEF Finish, Start, StartByBrick, StartAdd, StartProcess, CallProcess, CallShutDown,
           Return, InPool, controlVars
    <2> QED
      BY <1>1, <1>2, <2>1, LifeStutters DEF Told
  <1> QED
    BY <1>4, <1>5, <1>6 DEF Call, Life!LifeNext

(* The phase of a worker's brick, before and after a step of proc. *)
LEMMA ProcPhase ==
    ASSUME ServiceInv, ServiceInv', NEW t \in Threads, Proc(t), NEW b \in Bricks, b = Brick(t)
    PROVE  /\ LifePhase' = [LifePhase EXCEPT ![b] = LifePhase'[b]]
           /\ Active(t) => LifePhase[b] = PhaseAt(wpc[t])
           /\ Active(t)' => LifePhase'[b] = PhaseAt(wpc'[t])
           /\ b \notin registered => LifePhase[b] = "idle"
           /\ b \notin registered' => LifePhase'[b] = "idle"
           /\ RegisterRefused(t) \/ ProcReturns(t) => LifePhase' = LifePhase
  <1>1. PhaseInv /\ PhaseInv'
    BY PhaseIsWorkers, PhaseIsWorkersNext
  <1>2. /\ Brick(t)' = b
        /\ \A s \in Threads : s # t => wpc'[s] = wpc[s] /\ Brick(s)' = Brick(s)
    BY ProcLeavesOthers
  <1>3. LifePhase' = [LifePhase EXCEPT ![b] = LifePhase'[b]]
    BY OnePhase
  <1>4. LifePhase = [LifePhase EXCEPT ![b] = LifePhase[b]]
    BY DEF LifePhase
  <1>5. ASSUME RegisterRefused(t) \/ ProcReturns(t) PROVE LifePhase' = LifePhase
    <2>1. UNCHANGED registered /\ ~Active(t) /\ ~Active(t)'
      BY <1>5 DEF RegisterRefused, ProcReturns, WorkerGoto, RegRefused, controlVars, Active,
           ServiceInv, ServiceTypeOK
    <2>2. CASE b \in registered
      <3>1. PICK s \in Threads : Active(s) /\ Brick(s) = b
        BY <2>2 DEF ServiceInv, WorkerInv
      <3>2. s # t /\ Active(s)' /\ Brick(s)' = b /\ wpc'[s] = wpc[s]
        BY <1>2, <2>1, <3>1 DEF Active
      <3>3. LifePhase'[b] = LifePhase[b]
        BY <1>1, <3>1, <3>2 DEF PhaseInv, PhaseAt
      <3> QED
        BY <1>3, <1>4, <3>3
    <2>3. CASE b \notin registered
      <3>1. LifePhase'[b] = LifePhase[b]
        BY <1>1, <2>1, <2>3 DEF PhaseInv
      <3> QED
        BY <1>3, <1>4, <3>1
    <2> QED
      BY <2>2, <2>3
  <1> QED
    BY <1>1, <1>2, <1>3, <1>5 DEF PhaseInv, PhaseAt

(* A worker's own way through proc is the life of its brick. *)
LEMMA LifeProc ==
    ASSUME ServiceInv, ServiceInv', NEW t \in Threads, Proc(t)
    PROVE  [Life!LifeNext]_(Life!lifeVars)
  <1>0. /\ wpc \in [Threads -> {"none", "init", "prepare", "loop", "sleep", "filter",
                                "filter2", "copy", "post_stop", "unreg", "return"}]
        /\ registered \subseteq Bricks /\ sem \in [Bricks -> Nat]
    BY DEF ServiceInv, ServiceTypeOK, ControlTypeOK
  <1>1. PICK b \in Bricks : b = Brick(t)
    BY ProcLeavesOthers
  <1>2. LifePhase' = [LifePhase EXCEPT ![b] = LifePhase'[b]]
    BY <1>1, ProcPhase
  <1>3. LifePhase = [LifePhase EXCEPT ![b] = LifePhase[b]]
    BY DEF LifePhase
  <1>4. /\ Active(t) => LifePhase[b] = PhaseAt(wpc[t])
        /\ Active(t)' => LifePhase'[b] = PhaseAt(wpc'[t])
        /\ b \notin registered => LifePhase[b] = "idle"
        /\ b \notin registered' => LifePhase'[b] = "idle"
    BY <1>1, ProcPhase
  <1>5. CASE Register(t)
    <2>1. /\ wpc' = [wpc EXCEPT ![t] = "init"]
          /\ b \notin registered /\ registered' = registered \cup {b}
          /\ sem' = [sem EXCEPT ![b] = 0]
      BY <1>1, <1>5 DEF Register, WorkerGoto, Reg, Found
    <2>2. LifePhase[b] = "idle" /\ LifePhase'[b] = "entered"
      BY <1>0, <1>4, <2>1 DEF PhaseAt, Active
    <2>3. Told' = Told \ {b}
      BY <1>0, <2>1 DEF Told
    <2>4. Life!Enter(b)
      BY <1>2, <2>2, <2>3 DEF Life!Enter, Life!Become, Told
    <2> QED
      BY <1>0, <2>4 DEF Life!LifeNext
  <1>6. CASE InitFails(t) \/ PostStart(t) \/ PostStop(t)
    <2>1. /\ UNCHANGED <<registered, sem>>
          /\ \/ wpc[t] = "init" /\ wpc' = [wpc EXCEPT ![t] = "unreg"]
             \/ wpc[t] = "init" /\ wpc' = [wpc EXCEPT ![t] = "prepare"]
             \/ wpc[t] = "post_stop" /\ wpc' = [wpc EXCEPT ![t] = "unreg"]
      BY <1>6 DEF InitFails, PostStart, PostStop, WorkerGoto, controlVars, ProcOrder
    <2>2. \/ LifePhase[b] = "entered" /\ LifePhase'[b] = "leaving"
          \/ LifePhase[b] = "entered" /\ LifePhase'[b] = "shown"
          \/ LifePhase[b] = "shown" /\ LifePhase'[b] = "leaving"
      BY <1>0, <1>4, <2>1 DEF PhaseAt, Active
    <2>3. Told' = Told
      BY <2>1 DEF Told
    <2>4. Life!GiveUp(b) \/ Life!ShowStart(b) \/ Life!ShowStop(b)
      BY <1>2, <2>2, <2>3 DEF Life!GiveUp, Life!ShowStart, Life!ShowStop, Life!Become, Told
    <2> QED
      BY <1>0, <2>4 DEF Life!LifeNext, Life!Advance
  <1>7. CASE Unregister(t)
    <2>1. /\ wpc[t] = "unreg" /\ wpc' = [wpc EXCEPT ![t] = "return"]
          /\ registered' = registered \ {b} /\ sem' = sem
      BY <1>1, <1>7 DEF Unregister, WorkerGoto, Unreg, ProcOrder
    <2>2. LifePhase[b] = "leaving" /\ LifePhase'[b] = "idle"
      BY <1>0, <1>4, <2>1 DEF PhaseAt, Active
    <2>3. Told' = Told \ {b}
      BY <2>1 DEF Told
    <2>4. Life!Leave(b)
      BY <1>2, <2>2, <2>3 DEF Life!Leave, Life!Become, Told
    <2> QED
      BY <1>0, <2>4 DEF Life!LifeNext, Life!Advance
  <1>8. CASE RegisterRefused(t) \/ ProcReturns(t)
    <2>1. /\ UNCHANGED <<registered, sem>>
          /\ ~Active(t) /\ ~Active(t)'
      BY <1>0, <1>8 DEF RegisterRefused, ProcReturns, WorkerGoto, RegRefused, controlVars, Active
    <2>2. LifePhase' = LifePhase
      BY <1>1, <1>8, ProcPhase
    <2>3. Told' = Told
      BY <2>1 DEF Told
    <2> QED
      BY <2>2, <2>3, LifeStutters
  <1>9. CASE Copy(t)
    <2>1. /\ wpc[t] = "copy" /\ wpc'[t] \in {"filter", "loop"} /\ registered' = registered
          /\ \/ sem' = sem
             \/ sem' = IF b \in registered THEN [sem EXCEPT ![b] = @ + 1] ELSE sem
      BY <1>1, <1>0, <1>9 DEF Copy, WorkerGoto, StopSelf, SetSem, controlVars
    <2>2. LifePhase[b] = "shown" /\ LifePhase'[b] = "shown"
      BY <1>0, <1>4, <2>1 DEF PhaseAt, Active
    <2>3. LifePhase' = LifePhase
      BY <1>2, <1>3, <2>2
    <2>4. b \in registered
      BY <1>1, <1>0, <2>1 DEF ServiceInv, WorkerInv, Active
    <2>5. Told' = Told \/ Told' = Told \cup {b}
      BY <1>0, <2>1, <2>4 DEF Told
    <2>6. CASE Told' = Told
      BY <2>3, <2>6, LifeStutters
    <2>7. CASE Told' = Told \cup {b}
      <3>1. Life!Inside(b)
        BY <2>2 DEF Life!Inside
      <3>2. Life!Tell({b})
        BY <2>3, <2>7, <3>1 DEF Life!Tell, Told
      <3> QED
        BY <1>0, <3>2 DEF Life!LifeNext
    <2> QED
      BY <2>5, <2>6, <2>7
  <1>10. ASSUME \/ Prepare(t) \/ Window(t) \/ SleepEnds(t) \/ Filter(t) \/ FilterAgain(t)
         PROVE  UNCHANGED Life!lifeVars
    <2> DEFINE shown == {"prepare", "loop", "sleep", "filter", "filter2", "copy", "post_stop"}
    <2>1. wpc[t] \in shown /\ wpc'[t] \in shown
      BY <1>0, <1>10 DEF Prepare, Window, SleepEnds, Filter, FilterAgain, WorkerGoto, ProcOrder
    <2>2. registered' = registered /\ sem' = sem
      <3>1. ASSUME Signalled(b) PROVE registered' = registered /\ sem' = sem
        BY <1>0, <3>1 DEF Signalled, TakenAndGivenBack
      <3> QED
        BY <1>1, <1>10, <3>1 DEF Prepare, Window, SleepEnds, Filter, FilterAgain, NotSignalled,
             controlVars
    <2>3. LifePhase[b] = "shown" /\ LifePhase'[b] = "shown"
      BY <1>0, <1>4, <2>1 DEF PhaseAt, Active
    <2>4. LifePhase' = LifePhase
      BY <1>2, <1>3, <2>3
    <2> QED
      BY <2>2, <2>4, LifeStutters DEF Told
  <1> QED
    BY <1>5, <1>6, <1>7, <1>8, <1>9, <1>10 DEF Proc

(* The service starts as BrickLife does. *)
LEMMA LifeStarts == ServiceInit => Life!LifeInit
  BY DEF ServiceInit, ControlInit, Life!LifeInit, LifePhase, WorkerAt

(* The pool, the stop register, the workers and any number of callers      *)
(* together implement the life of a brick. *)
THEOREM ServiceImplementsLife == ServiceSpec => ImplementsLife
  <1>1. ServiceInv /\ ServiceInv' /\ [ServiceNext]_serviceVars
            => [Life!LifeNext]_(Life!lifeVars)
    <2> SUFFICES ASSUME ServiceInv, ServiceInv', [ServiceNext]_serviceVars
                 PROVE  [Life!LifeNext]_(Life!lifeVars)
      OBVIOUS
    <2>1. CASE UNCHANGED serviceVars
      <3>1. /\ UNCHANGED <<registered, sem, wpc, status, tpc, brick_id, m_ptask>>
        BY <2>1 DEF serviceVars, controlVars, workerVars, masterVars, vars, threadVars
      <3>2. WorkersLeftAlone
        BY <3>1 DEF WorkersLeftAlone, Brick
      <3> QED
        BY <3>1, <3>2, SamePhases, LifeStutters DEF Told
    <2>2. ASSUME ~crashed, NEW t \in Threads, Poller(t) PROVE UNCHANGED Life!lifeVars
      <3>1. LifePhase' = LifePhase
        BY <2>2, PollerLeavesAlone, SamePhases
      <3> QED
        BY <2>2, <3>1, LifeStutters DEF Poller, controlVars, Told
    <2> QED
      BY <2>1, <2>2, LifeCaller, LifeProc DEF ServiceNext, ThreadStep
  <1> QED
    BY <1>1, LifeStarts, ServiceInvariant, PTL DEF ServiceSpec, ImplementsLife, Life!LifeSpec

-----------------------------------------------------------------------------

(* The start/stop status of a brick tells whether its worker is between    *)
(* its two messages.                                                       *)
StatusTrue == \A b \in Bricks : status[b] = "START" <=> LifePhase[b] = "shown"

(* A worker posts its messages where its brick's phase changes. *)
LEMMA StatusProc ==
    ASSUME ServiceInv, ServiceInv', StatusTrue, NEW t \in Threads, Proc(t)
    PROVE  StatusTrue'
  <1>0. /\ wpc \in [Threads -> {"none", "init", "prepare", "loop", "sleep", "filter",
                                "filter2", "copy", "post_stop", "unreg", "return"}]
        /\ status \in [Bricks -> {"START", "STOP"}]
    BY DEF ServiceInv, ServiceTypeOK
  <1>1. PICK b \in Bricks : b = Brick(t)
    BY ProcLeavesOthers
  <1>2. /\ LifePhase' = [LifePhase EXCEPT ![b] = LifePhase'[b]]
        /\ Active(t) => LifePhase[b] = PhaseAt(wpc[t])
        /\ Active(t)' => LifePhase'[b] = PhaseAt(wpc'[t])
        /\ b \notin registered => LifePhase[b] = "idle"
        /\ b \notin registered' => LifePhase'[b] = "idle"
        /\ RegisterRefused(t) \/ ProcReturns(t) => LifePhase' = LifePhase
    BY <1>1, ProcPhase
  <1>3. \A a \in Bricks : a # b => LifePhase'[a] = LifePhase[a]
    BY <1>2 DEF LifePhase
  <1>4. CASE PostStart(t)
    <2>1. status' = [status EXCEPT ![b] = "START"] /\ wpc' = [wpc EXCEPT ![t] = "prepare"]
      BY <1>1, <1>4 DEF PostStart, WorkerGoto
    <2> QED
      BY <1>0, <1>2, <1>3, <2>1 DEF StatusTrue, PhaseAt, Active
  <1>5. CASE PostStop(t)
    <2>1. status' = [status EXCEPT ![b] = "STOP"] /\ wpc' = [wpc EXCEPT ![t] = "unreg"]
      BY <1>1, <1>5 DEF PostStop, WorkerGoto, ProcOrder
    <2> QED
      BY <1>0, <1>2, <1>3, <2>1 DEF StatusTrue, PhaseAt, Active
  <1>6. CASE RegisterRefused(t) \/ ProcReturns(t)
    BY <1>2, <1>6 DEF StatusTrue, RegisterRefused, ProcReturns
  <1>7. CASE Register(t)
    <2>1. /\ wpc' = [wpc EXCEPT ![t] = "init"] /\ b \notin registered /\ status' = status
      BY <1>1, <1>7 DEF Register, WorkerGoto, Reg, Found
    <2>2. LifePhase[b] = "idle" /\ LifePhase'[b] = "entered"
      BY <1>0, <1>2, <2>1 DEF PhaseAt, Active
    <2> QED
      BY <1>3, <2>1, <2>2 DEF StatusTrue
  <1>8. CASE Unregister(t)
    <2>1. /\ wpc[t] = "unreg" /\ b \notin registered' /\ status' = status
      BY <1>1, <1>8 DEF Unregister, WorkerGoto, Unreg
    <2>2. LifePhase[b] = "leaving" /\ LifePhase'[b] = "idle"
      BY <1>0, <1>2, <2>1 DEF PhaseAt, Active
    <2> QED
      BY <1>3, <2>1, <2>2 DEF StatusTrue
  <1>9. CASE InitFails(t)
    <2>1. /\ wpc[t] = "init" /\ wpc' = [wpc EXCEPT ![t] = "unreg"] /\ status' = status
      BY <1>9 DEF InitFails, WorkerGoto
    <2>2. LifePhase[b] = "entered" /\ LifePhase'[b] = "leaving"
      BY <1>0, <1>2, <2>1 DEF PhaseAt, Active
    <2> QED
      BY <1>3, <2>1, <2>2 DEF StatusTrue
  <1>10. CASE Prepare(t) \/ Window(t) \/ SleepEnds(t) \/ Filter(t) \/ FilterAgain(t) \/ Copy(t)
    <2> DEFINE shown == {"prepare", "loop", "sleep", "filter", "filter2", "copy", "post_stop"}
    <2>1. wpc[t] \in shown /\ wpc'[t] \in shown /\ status' = status
      BY <1>0, <1>10 DEF Prepare, Window, SleepEnds, Filter, FilterAgain, Copy, WorkerGoto,
           ProcOrder
    <2>2. LifePhase[b] = "shown" /\ LifePhase'[b] = "shown"
      BY <1>0, <1>2, <2>1 DEF PhaseAt, Active
    <2> QED
      BY <1>3, <2>1, <2>2 DEF StatusTrue
  <1> QED
    BY <1>4, <1>5, <1>6, <1>7, <1>8, <1>9, <1>10 DEF Proc

(* Each step of the service keeps the status true. *)
LEMMA StatusStep ==
    ServiceInv /\ ServiceInv' /\ StatusTrue /\ [ServiceNext]_serviceVars => StatusTrue'
  <1> SUFFICES ASSUME ServiceInv, ServiceInv', StatusTrue, [ServiceNext]_serviceVars
               PROVE  StatusTrue'
    OBVIOUS
  <1>1. ASSUME WorkersLeftAlone PROVE StatusTrue'
    BY <1>1, SamePhases DEF WorkersLeftAlone, StatusTrue
  <1>2. CASE UNCHANGED serviceVars
    BY <1>1, <1>2 DEF WorkersLeftAlone, Brick, serviceVars, controlVars, workerVars, masterVars,
                      vars, threadVars
  <1> QED
    BY <1>1, <1>2, CallerLeavesAlone, PollerLeavesAlone, StatusProc DEF ServiceNext, ThreadStep

(* With any number of callers, the last start or stop message of a brick   *)
(* says whether a worker is between its two messages. *)
THEOREM StatusIsTrue == ServiceSpec => []StatusTrue
  <1>1. ServiceInit => StatusTrue
    BY DEF ServiceInit, StatusTrue, LifePhase, WorkerAt
  <1> QED
    BY <1>1, StatusStep, ServiceInvariant, PTL DEF ServiceSpec

-----------------------------------------------------------------------------

(* Where a caller is in the service, and where it is in the pool; after    *)
(* shut_down the pool is empty.                                            *)
MasterInv ==
    \A c \in Callers :
        /\ mpc[c] \in {"init", "idle", "process", "set_all"} => cpc[c] = "client"
        /\ mpc[c] = "start_add" => cpc[c] \in {"client", "initialize", "begin"}
        /\ mpc[c] = "return" =>
             cpc[c] \in {"client", "scan", "assign", "lock", "set_task", "resume"}
        /\ mpc[c] = "shut_down" =>
             /\ cpc[c] \in {"client", "drain", "pop_thread", "end", "join", "destroy"}
             /\ cpc[c] = "client" => m_vthreads = << >>

(* A caller inside the pool stays in the function it called. *)
LEMMA MasterInPool ==
    ASSUME OneCaller, IInv, MasterInv, NEW c \in Callers, Continue(c), UNCHANGED mpc
    PROVE  MasterInv'
  <1> USE DEF Goto
  <1>0. /\ \A d \in Callers : d = c
        /\ cpc \in [Callers -> {"client", "initialize", "begin", "scan", "assign",
                                "lock", "set_task", "resume", "drain", "pop_thread",
                                "end", "join", "destroy"}]
    BY DEF OneCaller, IInv, TypeOK
  <1>1. CASE CreateThread(c) \/ SetRunning(c) \/ InitializeReturns(c)
    <2>1. /\ cpc[c] \in {"initialize", "begin"}
          /\ cpc'[c] \in {"client", "initialize", "begin"}
      BY <1>0, <1>1 DEF CreateThread, SetRunning, InitializeReturns
    <2> QED
      BY <1>0, <2>1 DEF MasterInv
  <1>2. CASE \/ Scan(c) \/ ScanEnds(c) \/ PopTask(c) \/ LockThread(c) \/ SetTask(c)
             \/ ResumeUnlock(c) \/ ProcessReturns(c)
    <2>1. /\ cpc[c] \in {"scan", "assign", "lock", "set_task", "resume"}
          /\ cpc'[c] \in {"client", "scan", "assign", "lock", "set_task", "resume"}
      BY <1>0, <1>2 DEF Scan, ScanEnds, PopTask, LockThread, SetTask, ResumeUnlock,
                        ProcessReturns
    <2> QED
      BY <1>0, <2>1 DEF MasterInv
  <1>3. CASE \/ DrainTask(c) \/ DrainEnds(c) \/ PopThread(c) \/ End(c) \/ Join(c) \/ Destroy(c)
             \/ ShutDownReturns(c)
    <2>1. /\ cpc[c] \in {"drain", "pop_thread", "end", "join", "destroy"}
          /\ cpc'[c] \in {"client", "drain", "pop_thread", "end", "join", "destroy"}
          /\ cpc'[c] = "client" => m_vthreads' = << >>
      BY <1>0, <1>3 DEF DrainTask, DrainEnds, PopThread, End, Join, Destroy, ShutDownReturns,
                        callerVars, poolVars
    <2> QED
      BY <1>0, <2>1 DEF MasterInv
  <1> QED
    BY <1>1, <1>2, <1>3 DEF Continue

(* Each step of the service keeps its caller where it is. *)
LEMMA MasterStep ==
    OneCaller /\ ServiceInv /\ MasterInv /\ [ServiceNext]_serviceVars => MasterInv'
  <1> SUFFICES ASSUME OneCaller, ServiceInv, MasterInv, [ServiceNext]_serviceVars
               PROVE  MasterInv'
    OBVIOUS
  <1> USE DEF MasterGoto, Goto
  <1>0. /\ mpc \in [Callers -> {"init", "idle", "start_add", "process", "return",
                                "set_all", "shut_down"}]
        /\ cpc \in [Callers -> {"client", "initialize", "begin", "scan", "assign",
                                "lock", "set_task", "resume", "drain", "pop_thread",
                                "end", "join", "destroy"}]
    BY DEF ServiceInv, ServiceTypeOK, TypeOK
  <1>1. ASSUME UNCHANGED <<mpc, cpc, m_vthreads>> PROVE MasterInv'
    BY <1>1 DEF MasterInv
  <1>2. ASSUME ~crashed, NEW c \in Callers, Call(c) \/ Finish(c) PROVE MasterInv'
    <2>0. \A d \in Callers : d = c
      BY DEF OneCaller
    <2>1. CASE InPool(c)
      BY <2>1, MasterInPool DEF InPool, masterVars, ServiceInv
    <2>2. CASE Start(c)
      BY <1>0, <2>0, <2>2 DEF Start, Initialize, MasterInv
    <2>3. ASSUME NEW b \in Bricks, StartByBrick(c, b) PROVE MasterInv'
      BY <1>0, <2>0, <2>3 DEF StartByBrick, AddTask, callerVars, MasterInv
    <2>4. CASE StartProcess(c) \/ CallProcess(c)
      BY <1>0, <2>0, <2>4 DEF StartProcess, CallProcess, Process, MasterInv
    <2>5. CASE Stop(c)
      BY <1>0, <2>0, <2>5 DEF Stop, vars, callerVars, MasterInv
    <2>6. CASE CallShutDown(c)
      BY <1>0, <2>0, <2>6 DEF CallShutDown, ShutDown, MasterInv
    <2>7. CASE Return(c)
      BY <1>0, <2>0, <2>7 DEF Return, vars, callerVars, MasterInv
    <2>8. ASSUME StartAdd(c) \/ \E b \in Bricks : StopByBrick(c, b) PROVE MasterInv'
      BY <1>1, <2>8 DEF StartAdd, AddTask, StopByBrick, vars, callerVars, poolVars
    <2> QED
      BY <1>2, <2>1, <2>2, <2>3, <2>4, <2>5, <2>6, <2>7, <2>8 DEF Call, Finish
  <1>3. ASSUME ~crashed, NEW t \in Threads, ThreadStep(t) PROVE MasterInv'
    <2>1. UNCHANGED <<cpc, m_vthreads>>
      BY <1>3 DEF ThreadStep, Poller, ThreadProc, While, Exit, Poll, TakeTask, ClearTask, Proc,
           Register, RegisterRefused, InitFails, PostStart, Prepare, Window, SleepEnds, Filter,
           FilterAgain, Copy, PostStop, Unregister, ProcReturns, TaskReturns, vars, callerVars,
           poolVars
    <2>2. UNCHANGED mpc
      BY <1>3 DEF ThreadStep, Poller, Proc, Register, RegisterRefused, InitFails, PostStart,
           Prepare, Window, SleepEnds, Filter, FilterAgain, Copy, PostStop, Unregister,
           ProcReturns, masterVars
    <2> QED
      BY <1>1, <2>1, <2>2
  <1>4. CASE UNCHANGED serviceVars
    BY <1>1, <1>4 DEF serviceVars, vars, masterVars, callerVars, poolVars
  <1> QED
    BY <1>2, <1>3, <1>4 DEF ServiceNext

(* With one caller, nothing of the service is at work when backup_stop     *)
(* comes back: it has joined every thread, no brick is registered, and     *)
(* every status says STOP. *)
THEOREM StopLeavesQuiet == ASSUME OneCaller PROVE ServiceSpec => []StoppedMeansQuiet
  <1>1. ServiceInit => MasterInv /\ SoleInv /\ LiveInv
    BY SoleInit DEF ServiceInit, MasterInv, Init, LiveInv, Live
  <1>2. ServiceInv /\ MasterInv /\ [ServiceNext]_serviceVars => MasterInv'
    BY MasterStep
  <1>3. IInv /\ SoleInv /\ [Next]_vars => SoleInv'
    BY SoleStep
  <1>4. IInv /\ SoleInv /\ LiveInv /\ [Next]_vars => LiveInv'
    BY LiveStep
  <1>5. ServiceInv /\ MasterInv /\ LiveInv /\ StatusTrue => StoppedMeansQuiet
    <2> SUFFICES ASSUME ServiceInv, MasterInv, LiveInv, StatusTrue, NEW c \in Callers,
                        mpc[c] = "shut_down", cpc[c] = "client"
                 PROVE  /\ \A t \in Threads : ~Live(t)
                        /\ registered = {}
                        /\ \A b \in Bricks : status[b] = "STOP"
      BY DEF StoppedMeansQuiet, Live
    <2>1. m_vthreads = << >> /\ \A d \in Callers : d = c
      BY DEF MasterInv, OneCaller
    <2>2. \A t \in Threads : ~Live(t)
      BY <2>1 DEF LiveInv
    <2>3. registered = {}
      BY <2>2 DEF ServiceInv, WorkerInv, Active, Live
    <2>4. \A b \in Bricks : LifePhase[b] = "idle"
      BY <2>3, PhaseIsWorkers DEF PhaseInv
    <2>5. \A b \in Bricks : status[b] = "STOP"
      BY <2>4 DEF StatusTrue, ServiceInv, ServiceTypeOK
    <2> QED
      BY <2>2, <2>3, <2>5
  <1> QED
    BY <1>1, <1>2, <1>3, <1>4, <1>5, ServiceInvariant, StatusIsTrue, ServiceUsesPool, PTL
       DEF ServiceSpec, ServiceInv

(* With one caller, no task of the service gets lost: a brick that was     *)
(* started is backed up, or its task waits in the queue, or a shut-down    *)
(* deleted it. *)
THEOREM ServiceLosesNone == ASSUME OneCaller PROVE ServiceSpec => []NoTaskLost
  BY ServiceIsPool, TaskNeverLost, PTL

(* With one caller, process() gives a task only to a thread that has none: *)
(* it takes the daemon's second caller to break this. *)
THEOREM OneCallerAssignsToDormant == ASSUME OneCaller PROVE ServiceSpec => []AssignsToDormant
  <1>1. Init => SoleInv
    BY SoleInit
  <1>2. IInv /\ SoleInv /\ [Next]_vars => SoleInv'
    BY SoleStep
  <1>3. IInv /\ HeldInv /\ SoleInv => AssignsToDormant
    <2> SUFFICES ASSUME IInv, HeldInv, SoleInv, NEW c \in Callers, cpc[c] = "set_task"
                 PROVE  m_ptask[Slot(c)] = NoTask
      BY DEF AssignsToDormant, Slot
    <2>1. idx[c] \in 1..Len(dormant[c]) /\ Slot(c) \in Threads
      BY DEF IInv, IndexInv, TypeOK, Slot
    <2>2. m_bpaused[Slot(c)] /\ m_lock[Slot(c)] = c
      BY <2>1 DEF SoleInv, DormantInv, Slot, IInv, PointerInv, LockInv
    <2>3. tpc[Slot(c)] # "paused"
      BY <2>1, <2>2, OwnersAssumption DEF IInv, PointerInv, LockInv
    <2>4. m_ptask[Slot(c)] \in done \cup {NoTask}
      BY <2>1, <2>2 DEF SoleInv, IdleInv, OneCaller
    <2> QED
      BY <2>1, <2>3, <2>4 DEF HeldInv, HeldInUse
  <1> QED
    BY <1>1, <1>2, <1>3, Invariant, ServiceIsPool, HeldInit, HeldStep, PTL DEF Spec

=============================================================================
