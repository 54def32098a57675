-------------------------- MODULE PoolDriverProofs --------------------------
(***************************************************************************)
(* Proofs about the test programs of the thread pool, for any number of    *)
(* threads and tasks: what is proved of the pool holds of them, and the    *)
(* check that ends their loop is right.                                    *)
(***************************************************************************)
EXTENDS PoolDriver, ThreadPoolProofs

(* Where main() is, and where it is inside the pool.                       *)
ControlInv ==
    /\ mainpc \in {"initialize", "add", "loop", "check", "fin", "finished"}
    /\ mainpc \in {"initialize", "loop", "fin"} => cpc[main] = "client"
    /\ mainpc = "add" => cpc[main] \in {"client", "initialize", "begin"}
    /\ mainpc = "check" =>
         cpc[main] \in {"client", "scan", "assign", "lock", "set_task", "resume"}
    /\ mainpc = "finished" =>
         cpc[main] \in {"client", "drain", "pop_thread", "end", "join", "destroy"}

(* What initialize has done: it counts the threads that it puts into the   *)
(* vector.                                                                 *)
CountInv ==
    /\ mainpc = "initialize" => m_vthreads = << >> /\ m_nactive = 0
    /\ cpc[main] \in {"initialize", "begin"} =>
         m_nactive = idx[main] - 1 /\ idx[main] <= MaxThreads + 1
    /\ mainpc \in {"loop", "check"} \/ (mainpc = "add" /\ cpc[main] = "client") =>
         m_nactive = MaxThreads /\ Len(m_vthreads) = MaxThreads

(* Until the shut-down, a thread that has a task, or is about to get one,  *)
(* keeps running, so that no task is deleted.                              *)
RunningInv ==
    mainpc # "finished" =>
        /\ dropped = {}
        /\ \A t \in Threads : m_ptask[t] # NoTask => m_brunning[t]
        /\ mainpc = "check" =>
             \A i \in 1..Len(dormant[main]) : m_brunning[dormant[main][i]]

(* The scan finds as many threads as there are only if it finds each.      *)
ScanInv ==
    mainpc = "check" =>
        LET n == Len(dormant[main]) IN
        /\ cpc[main] = "scan" =>
             /\ n <= idx[main] - 1 /\ idx[main] <= MaxThreads + 1
             /\ n = idx[main] - 1 => \A i \in 1..n : dormant[main][i] = i
        /\ cpc[main] \in {"assign", "lock", "set_task", "resume"} =>
             /\ n <= MaxThreads
             /\ n = MaxThreads => \A i \in 1..n : dormant[main][i] = i

(* The check of completion, from when process() returns.                   *)
DoneInv ==
    /\ mainpc \in {"loop", "check", "fin", "finished"} => added = Tasks
    /\ mainpc = "check" /\ cpc[main] = "client" /\ AllCompleted => done = Tasks
    /\ mainpc \in {"fin", "finished"} => done = Tasks

DriverInv == ControlInv /\ CountInv /\ RunningInv /\ ScanInv /\ DoneInv

-----------------------------------------------------------------------------

(* main() is the only caller. *)
LEMMA OnlyMain == main \in Callers /\ OneCaller /\ \A c \in Callers : c = main
  BY MainAssumption DEF OneCaller

(* A step of the program is a step of the pool, or moves main() alone. *)
LEMMA DriverUsesPool == [DriverNext]_driverVars => [Next]_vars
  <1> SUFFICES ASSUME [DriverNext]_driverVars PROVE [Next]_vars
    OBVIOUS
  <1>1. CASE UNCHANGED driverVars
    BY <1>1 DEF driverVars
  <1>2. CASE ~crashed /\ Main
    BY <1>2, OnlyMain DEF Main, CallInitialize, CallAddTask, AllAdded, CallProcess, Check,
                          CallShutDown, Next
  <1>3. ASSUME NEW t \in Threads, ~crashed, PoolThread(t) PROVE Next
    BY <1>3 DEF PoolThread, TaskEnds, Next
  <1> QED
    BY <1>1, <1>2, <1>3 DEF DriverNext

(* The programs are uses of the pool by one caller. *)
LEMMA DriverIsPool == DriverSpec => Spec
  <1>1. DriverInit => Init
    BY DEF DriverInit
  <1> QED
    BY <1>1, DriverUsesPool, PTL DEF DriverSpec, Spec

(* Nothing has begun at the start. *)
LEMMA DriverStarts == DriverInit => DriverInv
  BY OnlyMain, ThreadsAssumption
     DEF DriverInit, Init, DriverInv, ControlInv, CountInv, RunningInv, ScanInv, DoneInv

(* The invariant is kept when main() calls the pool or leaves its loop. *)
LEMMA DriverCalls ==
    ASSUME IInv, IInv', SoleInv, DriverInv, ~crashed,
           \/ CallInitialize \/ CallAddTask \/ AllAdded \/ CallProcess \/ Check \/ CallShutDown
    PROVE  DriverInv'
  <1> USE OnlyMain DEF MainGoto, Goto
  <1>0. /\ cpc \in [Callers -> {"client", "initialize", "begin", "scan", "assign",
                            "lock", "set_task", "resume", "drain", "pop_thread",
                            "end", "join", "destroy"}]
        /\ idx \in [Callers -> Nat \ {0}]
        /\ dormant \in [Callers -> Seq(Threads)]
        /\ m_vthreads \in Seq(Threads \cup {NoThread})
        /\ MaxThreads \in Nat /\ MinThreads \in Nat
        /\ added \subseteq Tasks /\ added' \subseteq Tasks
    BY ThreadsAssumption DEF IInv, TypeOK
  <1>1. CASE CallInitialize
    <2>1. /\ mainpc = "initialize" /\ mainpc' = "add"
          /\ cpc' = [cpc EXCEPT ![main] = "initialize"]
          /\ idx' = [idx EXCEPT ![main] = 1]
          /\ UNCHANGED <<m_nactive, m_ndormant, m_ptask, m_brunning, added, done, dropped>>
      BY <1>1 DEF CallInitialize, Initialize, threadVars, flagVars, historyVars
    <2> QED
      BY <1>0, <2>1 DEF DriverInv, ControlInv, CountInv, RunningInv, ScanInv, DoneInv
  <1>2. CASE CallAddTask
    <2>1. /\ mainpc = "add" /\ mainpc' = "add" /\ cpc[main] = "client" /\ cpc' = cpc
          /\ UNCHANGED <<m_nactive, m_ndormant, m_vthreads, m_ptask, m_brunning, done, dropped>>
      BY <1>2 DEF CallAddTask, AddTask, threadVars, flagVars, callerVars
    <2> QED
      BY <1>0, <2>1 DEF DriverInv, ControlInv, CountInv, RunningInv, ScanInv, DoneInv
  <1>3. CASE AllAdded
    <2>1. /\ mainpc = "add" /\ mainpc' = "loop" /\ cpc[main] = "client" /\ cpc' = cpc
          /\ added = Tasks
          /\ UNCHANGED <<m_nactive, m_ndormant, m_vthreads, m_ptask, m_brunning, added, done,
                         dropped>>
      BY <1>3 DEF AllAdded, vars, poolVars, threadVars, flagVars, callerVars, historyVars
    <2> QED
      BY <1>0, <2>1 DEF DriverInv, ControlInv, CountInv, RunningInv, ScanInv, DoneInv
  <1>4. CASE CallProcess
    <2>1. /\ mainpc = "loop" /\ mainpc' = "check"
          /\ cpc[main] = "client" /\ cpc' = [cpc EXCEPT ![main] = "scan"]
          /\ idx' = [idx EXCEPT ![main] = 1]
          /\ dormant' = [dormant EXCEPT ![main] = << >>]
          /\ UNCHANGED <<m_nactive, m_ndormant, m_vthreads, m_ptask, m_brunning, added, done,
                         dropped>>
      BY <1>4 DEF CallProcess, Process, poolVars, threadVars, flagVars, historyVars
    <2>2. Len(dormant'[main]) = 0
      BY <1>0, <2>1
    <2> QED
      BY <1>0, <2>1, <2>2 DEF DriverInv, ControlInv, CountInv, RunningInv, ScanInv, DoneInv
  <1>5. CASE Check
    <2>1. /\ mainpc = "check" /\ cpc[main] = "client" /\ cpc' = cpc
          /\ mainpc' = IF AllCompleted THEN "fin" ELSE "loop"
          /\ UNCHANGED <<m_nactive, m_ndormant, m_vthreads, m_ptask, m_brunning, added, done,
                         dropped>>
      BY <1>5 DEF Check, vars, poolVars, threadVars, flagVars, callerVars, historyVars
    <2> QED
      BY <1>0, <2>1 DEF DriverInv, ControlInv, CountInv, RunningInv, ScanInv, DoneInv
  <1>6. CASE CallShutDown
    <2>1. /\ mainpc = "fin" /\ mainpc' = "finished"
          /\ cpc[main] = "client" /\ cpc' = [cpc EXCEPT ![main] = "drain"]
          /\ UNCHANGED <<added, done>>
      BY <1>6 DEF CallShutDown, ShutDown, historyVars
    <2> QED
      BY <1>0, <2>1 DEF DriverInv, ControlInv, CountInv, RunningInv, ScanInv, DoneInv
  <1> QED
    BY <1>1, <1>2, <1>3, <1>4, <1>5, <1>6

(* It is kept while initialize counts its threads. *)
LEMMA DriverInitializes ==
    ASSUME IInv, IInv', SoleInv, DriverInv, ~crashed, UNCHANGED mainpc,
           CreateThread(main) \/ SetRunning(main) \/ InitializeReturns(main)
    PROVE  DriverInv'
  <1> USE OnlyMain DEF Goto
  <1>0. /\ cpc \in [Callers -> {"client", "initialize", "begin", "scan", "assign",
                            "lock", "set_task", "resume", "drain", "pop_thread",
                            "end", "join", "destroy"}]
        /\ idx \in [Callers -> Nat \ {0}]
        /\ m_nactive \in Nat
        /\ m_brunning \in [Threads -> BOOLEAN]
        /\ m_vthreads \in Seq(Threads \cup {NoThread}) /\ Len(m_vthreads) \in Nat
        /\ MaxThreads \in Nat /\ MinThreads \in Nat /\ MinThreads <= MaxThreads
    BY ThreadsAssumption DEF IInv, TypeOK
  <1>1. mainpc = "add" /\ mainpc' = "add" /\ UNCHANGED <<added, done, dropped, m_ptask>>
    BY DEF DriverInv, ControlInv, CreateThread, SetRunning, InitializeReturns, historyVars,
           threadVars
  <1>2. CASE CreateThread(main)
    <2>1. /\ cpc[main] = "initialize" /\ cpc' = [cpc EXCEPT ![main] = "begin"]
          /\ UNCHANGED <<idx, m_nactive, m_brunning>>
      BY <1>2 DEF CreateThread, flagVars
    <2> QED
      BY <1>0, <1>1, <2>1 DEF DriverInv, ControlInv, CountInv, RunningInv, ScanInv, DoneInv
  <1>3. CASE SetRunning(main)
    <2>1. /\ cpc[main] = "begin" /\ cpc' = [cpc EXCEPT ![main] = "initialize"]
          /\ idx' = [idx EXCEPT ![main] = @ + 1]
          /\ m_nactive' = m_nactive + 1
          /\ m_brunning' = [m_brunning EXCEPT ![idx[main]] = TRUE]
      BY <1>3 DEF SetRunning
    <2>2. idx[main] <= MaxThreads
      BY <2>1 DEF IInv, IndexInv, Threads
    <2> QED
      BY <1>0, <1>1, <2>1, <2>2 DEF DriverInv, ControlInv, CountInv, RunningInv, ScanInv, DoneInv
  <1>4. CASE InitializeReturns(main)
    <2>1. /\ cpc[main] = "initialize" /\ cpc' = [cpc EXCEPT ![main] = "client"]
          /\ idx[main] > MaxThreads
          /\ UNCHANGED <<m_nactive, m_brunning, m_vthreads>>
      BY <1>4 DEF InitializeReturns, poolVars, threadVars, flagVars
    <2>2. idx[main] = MaxThreads + 1 /\ m_nactive = MaxThreads
      BY <1>0, <2>1 DEF DriverInv, CountInv
    <2>3. Len(m_vthreads) = MaxThreads
      BY <1>0, <2>1, <2>2 DEF SoleInv, VectorInv
    <2> QED
      BY <1>0, <1>1, <2>1, <2>2, <2>3
         DEF DriverInv, ControlInv, CountInv, RunningInv, ScanInv, DoneInv
  <1> QED
    BY <1>2, <1>3, <1>4

(* It is kept by shut_down, which comes after every task has run. *)
LEMMA DriverShutsDown ==
    ASSUME DriverInv, UNCHANGED <<mainpc, added, done>>, IInv,
           \/ DrainTask(main) \/ DrainEnds(main) \/ PopThread(main) \/ End(main) \/ Join(main)
           \/ Destroy(main) \/ ShutDownReturns(main)
    PROVE  DriverInv'
  <1> USE OnlyMain DEF Goto
  <1>0. cpc \in [Callers -> {"client", "initialize", "begin", "scan", "assign",
                            "lock", "set_task", "resume", "drain", "pop_thread",
                            "end", "join", "destroy"}]
    BY DEF IInv, TypeOK
  <1>1. /\ cpc[main] \in {"drain", "pop_thread", "end", "join", "destroy"}
        /\ cpc'[main] \in {"client", "drain", "pop_thread", "end", "join", "destroy"}
    BY <1>0 DEF DrainTask, DrainEnds, PopThread, End, Join, Destroy, ShutDownReturns, callerVars
  <1>2. mainpc = "finished"
    BY <1>1 DEF DriverInv, ControlInv
  <1> QED
    BY <1>1, <1>2 DEF DriverInv, ControlInv, CountInv, RunningInv, ScanInv, DoneInv

(* A process() that finds every thread waiting, and returns with all of    *)
(* them still waiting, has found no task: each one that was added has run. *)
LEMMA AllDormantAllDone ==
    ASSUME MaxThreads > 0, IInv, SoleInv, Kept, DriverInv, mainpc = "check",
           cpc[main] = "assign", idx[main] > Len(dormant[main]) \/ m_qtaskList = << >>,
           DormantLeft(main) = m_nactive
    PROVE  done = Tasks
  <1> USE OnlyMain
  <1>0. /\ idx[main] \in Nat \ {0} /\ Len(dormant[main]) \in Nat /\ MaxThreads \in Nat
        /\ added \subseteq Tasks /\ done \subseteq Tasks
    BY ThreadsAssumption DEF IInv, TypeOK
  <1>1. Len(dormant[main]) <= MaxThreads /\ m_nactive = MaxThreads
    BY DEF DriverInv, ScanInv, CountInv
  <1>2. Len(dormant[main]) = MaxThreads /\ idx[main] = 1
    BY <1>0, <1>1 DEF DormantLeft
  <1>3. m_qtaskList = << >>
    BY <1>0, <1>2
  <1>4. \A t \in Threads : dormant[main][t] = t /\ m_bpaused[t]
    BY <1>2 DEF DriverInv, ScanInv, SoleInv, DormantInv, Threads
  <1>5. \A t \in Threads : m_ptask[t] \in done \cup {NoTask}
    BY <1>4 DEF SoleInv, IdleInv
  <1>6. \A c \in Callers : nextTask[c] = NoTask
    BY DEF SoleInv, NextTaskInv
  <1>7. dropped = {} /\ added = Tasks
    BY DEF DriverInv, RunningInv, DoneInv
  <1>8. \A i \in 1..Len(m_qtaskList) : FALSE
    BY <1>3
  <1> QED
    BY <1>0, <1>5, <1>6, <1>7, <1>8, NoTaskAssumption DEF Kept

(* The invariant is kept by process(). *)
LEMMA DriverProcesses ==
    ASSUME MaxThreads > 0, IInv, IInv', SoleInv, Kept, DriverInv, ~crashed, UNCHANGED mainpc,
           \/ Scan(main) \/ ScanEnds(main) \/ PopTask(main) \/ LockThread(main) \/ SetTask(main)
           \/ ResumeUnlock(main) \/ ProcessReturns(main)
    PROVE  DriverInv'
  <1> USE OnlyMain DEF Goto
  <1>0. /\ cpc \in [Callers -> {"client", "initialize", "begin", "scan", "assign",
                            "lock", "set_task", "resume", "drain", "pop_thread",
                            "end", "join", "destroy"}]
        /\ idx \in [Callers -> Nat \ {0}]
        /\ dormant \in [Callers -> Seq(Threads)]
        /\ Len(dormant[main]) \in Nat
        /\ m_ptask \in [Threads -> Tasks \cup {NoTask}]
        /\ m_brunning \in [Threads -> BOOLEAN]
        /\ m_vthreads \in Seq(Threads \cup {NoThread}) /\ Len(m_vthreads) \in Nat
        /\ MaxThreads \in Nat
    BY ThreadsAssumption DEF IInv, TypeOK
  <1>1. /\ cpc[main] \in {"scan", "assign", "lock", "set_task", "resume"}
        /\ cpc'[main] \in {"client", "scan", "assign", "lock", "set_task", "resume"}
        /\ UNCHANGED <<m_nactive, m_vthreads, m_brunning, added, done, dropped>>
    BY <1>0 DEF Scan, ScanEnds, PopTask, LockThread, SetTask, ResumeUnlock, ProcessReturns,
                poolVars, threadVars, flagVars, historyVars
  <1>2. mainpc = "check" /\ mainpc' = "check"
    BY <1>1 DEF DriverInv, ControlInv
  <1>3. ControlInv' /\ CountInv'
    BY <1>1, <1>2 DEF DriverInv, ControlInv, CountInv
  <1>4. /\ m_nactive = MaxThreads /\ Len(m_vthreads) = MaxThreads /\ dropped = {} /\ added = Tasks
        /\ \A t \in Threads : m_ptask[t] # NoTask => m_brunning[t]
        /\ \A i \in 1..Len(dormant[main]) : m_brunning[dormant[main][i]]
    BY <1>2 DEF DriverInv, CountInv, RunningInv, DoneInv
  <1>5. ASSUME cpc'[main] # "client" \/ (AllCompleted' => done = Tasks),
               UNCHANGED dormant, UNCHANGED m_ptask,
               \/ cpc[main] = "scan" /\ idx[main] > MaxThreads /\ cpc'[main] # "scan"
               \/ cpc[main] # "scan" /\ cpc'[main] # "scan"
        PROVE  DriverInv'
    <2>1. RunningInv'
      BY <1>1, <1>2, <1>4, <1>5 DEF RunningInv
    <2>2. ScanInv'
      BY <1>0, <1>1, <1>2, <1>5 DEF DriverInv, ScanInv
    <2>3. DoneInv'
      BY <1>1, <1>2, <1>4, <1>5 DEF DoneInv
    <2> QED
      BY <1>3, <2>1, <2>2, <2>3 DEF DriverInv
  <1>6. CASE Scan(main)
    <2> DEFINE t == m_vthreads[idx[main]]
    <2>1. /\ cpc[main] = "scan" /\ UNCHANGED <<cpc, m_ptask>>
          /\ idx[main] \in 1..Len(m_vthreads)
          /\ IF t = NoThread
               THEN UNCHANGED <<idx, dormant>>
               ELSE /\ dormant' = IF Dormant(t)
                                    THEN [dormant EXCEPT ![main] = Append(@, t)]
                                    ELSE dormant
                    /\ idx' = [idx EXCEPT ![main] = @ + 1]
      BY <1>0, <1>6 DEF Scan, threadVars, flagVars
    <2>2. t = idx[main]
      BY <1>1, <2>1 DEF SoleInv, VectorInv
    <2> HIDE DEF t
    <2>3. /\ Len(dormant[main]) <= idx[main] - 1
          /\ Len(dormant[main]) = idx[main] - 1 =>
               \A i \in 1..Len(dormant[main]) : dormant[main][i] = i
      BY <1>2, <2>1 DEF DriverInv, ScanInv
    <2>4. t # NoThread /\ idx'[main] = idx[main] + 1
      BY <1>0, <2>1, <2>2 DEF NoThread
    <2>5. CASE ~Dormant(t)
      <3>1. dormant' = dormant
        BY <2>1, <2>4, <2>5
      <3>2. RunningInv'
        BY <1>1, <1>2, <1>4, <2>1, <3>1 DEF RunningInv
      <3>3. ScanInv'
        BY <1>0, <1>1, <1>2, <1>4, <2>1, <2>3, <2>4, <3>1 DEF ScanInv
      <3>4. DoneInv'
        BY <1>1, <1>2, <1>4, <2>1 DEF DoneInv
      <3> QED
        BY <1>3, <3>2, <3>3, <3>4 DEF DriverInv
    <2>6. CASE Dormant(t)
      <3>1. dormant'[main] = Append(dormant[main], t) /\ t \in Threads /\ m_brunning[t]
        BY <1>0, <1>4, <2>1, <2>2, <2>4, <2>6 DEF Threads, Dormant
      <3>2. /\ Len(dormant'[main]) = Len(dormant[main]) + 1
            /\ \A i \in 1..Len(dormant[main]) : dormant'[main][i] = dormant[main][i]
            /\ dormant'[main][Len(dormant[main]) + 1] = t
        BY <1>0, <3>1, AppendProperties
      <3>3. RunningInv'
        <4>1. \A i \in 1..Len(dormant'[main]) : m_brunning[dormant'[main][i]]
          BY <1>0, <1>4, <3>1, <3>2
        <4> QED
          BY <1>1, <1>2, <1>4, <2>1, <4>1 DEF RunningInv
      <3>4. ScanInv'
        BY <1>0, <1>1, <1>2, <1>4, <2>1, <2>2, <2>3, <2>4, <3>2 DEF ScanInv
      <3>5. DoneInv'
        BY <1>1, <1>2, <1>4, <2>1 DEF DoneInv
      <3> QED
        BY <1>3, <3>3, <3>4, <3>5 DEF DriverInv
    <2> QED
      BY <2>5, <2>6
  <1>7. CASE ScanEnds(main)
    <2>1. /\ UNCHANGED <<dormant, m_ptask>> /\ cpc[main] = "scan"
          /\ cpc' = [cpc EXCEPT ![main] = "assign"] /\ idx[main] > MaxThreads
      BY <1>4, <1>7 DEF ScanEnds, threadVars
    <2> QED
      BY <1>0, <1>5, <2>1
  <1>8. CASE PopTask(main) \/ LockThread(main) \/ ResumeUnlock(main)
    <2>1. /\ UNCHANGED <<dormant, m_ptask>> /\ cpc[main] # "scan"
          /\ cpc'[main] \notin {"scan", "client"}
      BY <1>0, <1>8 DEF PopTask, LockThread, ResumeUnlock, threadVars
    <2> QED
      BY <1>5, <2>1
  <1>9. CASE SetTask(main)
    <2>1. /\ cpc[main] = "set_task" /\ cpc' = [cpc EXCEPT ![main] = "resume"]
          /\ UNCHANGED <<dormant, idx>>
          /\ m_ptask' = [m_ptask EXCEPT ![Slot(main)] = nextTask[main]]
      BY <1>9 DEF SetTask, Slot
    <2>2. m_brunning[Slot(main)]
      BY <1>4, <2>1 DEF IInv, IndexInv, Slot
    <2>3. RunningInv'
      BY <1>0, <1>1, <1>2, <1>4, <2>1, <2>2 DEF RunningInv
    <2>4. ScanInv' /\ DoneInv'
      BY <1>0, <1>1, <1>2, <1>4, <2>1 DEF DriverInv, ScanInv, DoneInv
    <2> QED
      BY <1>3, <2>3, <2>4 DEF DriverInv
  <1>10. CASE ProcessReturns(main)
    <2>1. /\ cpc[main] = "assign" /\ cpc' = [cpc EXCEPT ![main] = "client"]
          /\ idx[main] > Len(dormant[main]) \/ m_qtaskList = << >>
          /\ m_ndormant' = DormantLeft(main)
          /\ UNCHANGED <<dormant, m_ptask>>
      BY <1>10 DEF ProcessReturns, threadVars
    <2>2. AllCompleted' => done = Tasks
      BY <1>1, <1>2, <2>1, AllDormantAllDone DEF AllCompleted
    <2> QED
      BY <1>0, <1>5, <2>1, <2>2
  <1> QED
    BY <1>6, <1>7, <1>8, <1>9, <1>10

(* It is kept by the threads: before the shut-down none of them is told to *)
(* end while it has a task. *)
LEMMA DriverThread ==
    ASSUME IInv, IInv', DriverInv, ~crashed, UNCHANGED mainpc,
           NEW t \in Threads, ThreadProc(t) \/ TaskReturns(t)
    PROVE  DriverInv'
  <1> USE DEF Step
  <1>0. /\ m_ptask \in [Threads -> Tasks \cup {NoTask}]
        /\ done' \subseteq Tasks
    BY DEF IInv, TypeOK
  <1>1. UNCHANGED <<m_vthreads, m_nactive, m_ndormant, m_brunning, cpc, idx, dormant, added>>
    BY DEF ThreadProc, While, Exit, Poll, TakeTask, ClearTask, TaskReturns, poolVars, flagVars,
           callerVars, historyVars
  <1>2. ControlInv' /\ CountInv' /\ ScanInv'
    BY <1>1 DEF DriverInv, ControlInv, CountInv, ScanInv
  <1>3. DoneInv'
    <2>1. done \subseteq done'
      BY DEF ThreadProc, While, Exit, Poll, TakeTask, ClearTask, TaskReturns, historyVars
    <2> QED
      BY <1>0, <1>1, <2>1 DEF DriverInv, DoneInv, AllCompleted
  <1>4. RunningInv'
    <2>1. \A s \in Threads : m_ptask'[s] # NoTask => m_ptask'[s] = m_ptask[s]
      BY <1>0 DEF ThreadProc, While, Exit, Poll, TakeTask, ClearTask, ClearedTask, TaskReturns
    <2>2. mainpc # "finished" => dropped' = dropped
      BY DEF ThreadProc, While, Exit, Poll, TakeTask, ClearTask, TaskReturns, historyVars,
             DriverInv, RunningInv
    <2> QED
      BY <1>1, <2>1, <2>2 DEF DriverInv, RunningInv
  <1> QED
    BY <1>2, <1>3, <1>4 DEF DriverInv

(* Every step of the programs keeps the invariant. *)
LEMMA DriverStep ==
    ASSUME MaxThreads > 0, IInv, IInv', SoleInv, Kept, DriverInv, [DriverNext]_driverVars
    PROVE  DriverInv'
  <1>1. CASE UNCHANGED driverVars
    BY <1>1 DEF DriverInv, ControlInv, CountInv, RunningInv, ScanInv, DoneInv, AllCompleted,
                driverVars, vars, poolVars, threadVars, flagVars, callerVars, historyVars
  <1>2. ASSUME ~crashed, Continue(main), UNCHANGED mainpc PROVE DriverInv'
    <2>1. UNCHANGED <<added, done>> \/ ~(\/ DrainTask(main) \/ DrainEnds(main) \/ PopThread(main)
              \/ End(main) \/ Join(main) \/ Destroy(main) \/ ShutDownReturns(main))
      BY DEF DrainTask, DrainEnds, PopThread, End, Join, Destroy, ShutDownReturns, historyVars
    <2> QED
      BY <1>2, <2>1, DriverInitializes, DriverShutsDown, DriverProcesses DEF Continue
  <1>3. ASSUME NEW t \in Threads, ~crashed, PoolThread(t) PROVE DriverInv'
    BY <1>3, DriverThread DEF PoolThread, TaskEnds
  <1> QED
    BY <1>1, <1>2, <1>3, DriverCalls DEF DriverNext, Main

-----------------------------------------------------------------------------

(* No task of the test programs is run twice, shared, or used after its    *)
(* deletion. *)
THEOREM DriverHandsOver == DriverSpec => []TaskHeldOnce
  BY DriverIsPool, TaskHandedOver, PTL

(* No task of the test programs gets lost. *)
THEOREM DriverLosesNone == DriverSpec => []NoTaskLost
  BY DriverIsPool, TaskNeverLost, OnlyMain, PTL

(* The check that ends the loop of the test programs is right, for any     *)
(* number of threads but none: when as many are dormant as are active,     *)
(* every task has run. *)
THEOREM CompletionCheckIsRight ==
    ASSUME MaxThreads > 0
    PROVE  DriverSpec => []AllDoneAtBreak
  <1>1. DriverInit => SoleInv /\ Kept /\ DriverInv
    BY SoleInit, DriverStarts DEF DriverInit, Init, Kept
  <1>2. IInv /\ IInv' /\ SoleInv /\ Kept /\ DriverInv /\ [DriverNext]_driverVars => DriverInv'
    BY DriverStep
  <1>3. IInv /\ SoleInv /\ [Next]_vars => SoleInv'
    BY SoleStep, OnlyMain
  <1>4. IInv /\ SoleInv /\ Kept /\ [Next]_vars => Kept'
    BY KeptStep, OnlyMain
  <1>5. DriverInv => AllDoneAtBreak
    BY DEF DriverInv, DoneInv, AllDoneAtBreak
  <1> QED
    BY <1>1, <1>2, <1>3, <1>4, <1>5, Invariant, DriverIsPool, DriverUsesPool, PTL
       DEF DriverSpec

=============================================================================
