-------------------------- MODULE ThreadPoolProofs --------------------------
(***************************************************************************)
(* Proofs about the thread pool, for any number of callers, threads and    *)
(* tasks, and any mixture of calls.                                        *)
(***************************************************************************)
EXTENDS ThreadPool, SequenceTheorems, FiniteSetTheorems, TLAPS

(* Where a caller is in a loop, its index points into what it iterates on. *)
IndexInv ==
    \A c \in Callers :
        /\ cpc[c] = "begin" => idx[c] \in Threads
        /\ cpc[c] = "assign" => idx[c] <= Len(dormant[c]) + 1
        /\ cpc[c] \in {"lock", "set_task", "resume"} => idx[c] \in 1..Len(dormant[c])
        /\ cpc[c] \in {"join", "destroy"} => crashed \/ delthread[c] # NoThread

(* The thread that caller c is giving a task to.                           *)
Slot(c) == dormant[c][idx[c]]

(* m_lock of a thread is held by the caller that sets its task, or by the  *)
(* thread itself from before its task to after it.                         *)
LockInv ==
    /\ \A t \in Threads, c \in Callers :
         m_lock[t] = c <=> cpc[c] \in {"set_task", "resume"} /\ Slot(c) = t
    /\ \A t \in Threads : m_lock[t] = "self" <=> tpc[t] \in {"run", "paused"}

(* A thread is deleted after it has ended.                                 *)
DestroyInv ==
    \A c \in Callers :
        cpc[c] = "destroy" /\ ~crashed =>
            tpc[delthread[c]] \in {"exited", "failed", "freed"}

(* A caller is about to set, or has set, a task that exists.               *)
AssignInv ==
    \A c \in Callers :
        /\ cpc[c] \in {"lock", "set_task"} => nextTask[c] # NoTask
        /\ cpc[c] = "resume" =>
             m_ptask[Slot(c)] # NoTask \/ tpc[Slot(c)] \in {"exited", "freed"}

(* m_bpaused = false means that there is a task; only the thread itself    *)
(* sets it to true again, and it clears the pointer after that.            *)
PausedInv ==
    \A t \in Threads :
        /\ ~m_bpaused[t] => m_ptask[t] # NoTask \/ tpc[t] \in {"exited", "freed"}
        /\ tpc[t] \in {"lock", "run"} => ~m_bpaused[t]
        /\ tpc[t] = "paused" => m_bpaused[t]

PointerInv == LockInv /\ DestroyInv /\ AssignInv /\ PausedInv

IInv == TypeOK /\ IndexInv /\ PointerInv

-----------------------------------------------------------------------------

(* The types hold at the start. *)
LEMMA TypeInit == Init => TypeOK /\ IndexInv
  <1> SUFFICES ASSUME Init PROVE TypeOK /\ IndexInv
    OBVIOUS
  <1>1. IndexInv
    BY DEF Init, IndexInv
  <1>2. dormant \in [Callers -> Seq(Threads)] /\ m_vthreads \in Seq(Threads \cup {NoThread})
        /\ m_qtaskList \in Seq(Tasks)
    BY EmptySeq DEF Init
  <1>3. TypeOK
    <2>1. m_brunning \in [Threads -> BOOLEAN] /\ m_bpaused \in [Threads -> BOOLEAN]
      BY DEF Init
    <2>2. /\ m_ptask \in [Threads -> Tasks \cup {NoTask}]
          /\ m_lock \in [Threads -> Callers \cup {"self", "free"}]
          /\ tpc \in [Threads -> {"unborn", "failed", "while", "poll", "lock", "run",
                                  "paused", "exited", "freed"}]
      BY DEF Init
    <2>3. /\ cpc \in [Callers -> {"client", "initialize", "begin", "scan", "assign",
                                  "lock", "set_task", "resume", "drain", "pop_thread",
                                  "end", "join", "destroy"}]
          /\ idx \in [Callers -> Nat \ {0}]
          /\ nextTask \in [Callers -> Tasks \cup {NoTask}]
          /\ delthread \in [Callers -> Threads \cup {NoThread}]
      BY DEF Init
    <2>4. /\ m_nactive \in Nat /\ m_ndormant \in Nat
          /\ added \subseteq Tasks /\ done \subseteq Tasks /\ dropped \subseteq Tasks
          /\ crashed \in BOOLEAN
      BY DEF Init
    <2> QED
      BY <1>2, <2>1, <2>2, <2>3, <2>4 DEF TypeOK
  <1> QED
    BY <1>1, <1>3

(* Each step of a caller keeps the types and the indices. *)
LEMMA TypeCaller ==
    ASSUME TypeOK, IndexInv, ~crashed, NEW c \in Callers,
           \/ Initialize(c)
           \/ \E k \in Tasks : AddTask(c, k)
           \/ Process(c)
           \/ ShutDown(c)
           \/ Continue(c)
    PROVE  TypeOK' /\ IndexInv'
  <1> USE ThreadsAssumption
          DEF TypeOK, IndexInv, Goto, Threads, NoThread, vars, poolVars, flagVars, threadVars, historyVars
  <1>1. CASE Initialize(c)
    BY <1>1 DEF Initialize
  <1>2. ASSUME NEW k \in Tasks, AddTask(c, k) PROVE TypeOK' /\ IndexInv'
    BY <1>2, AppendProperties DEF AddTask, callerVars
  <1>3. CASE Process(c)
    BY <1>3 DEF Process
  <1>4. CASE ShutDown(c)
    BY <1>4 DEF ShutDown
  <1>5. CASE CreateThread(c)
    <2>1. crashed' \in BOOLEAN /\ idx[c] \in Threads
      BY <1>5 DEF CreateThread
    <2>2. m_vthreads' \in Seq(Threads \cup {NoThread})
      <3>1. CASE idx[c] <= MinThreads /\ idx[c] <= Len(m_vthreads)
        <4>1. m_vthreads' = [m_vthreads EXCEPT ![idx[c]] = idx[c]]
          BY <1>5, <3>1 DEF CreateThread
        <4>2. idx[c] \in 1..Len(m_vthreads) /\ idx[c] \in Threads \cup {NoThread}
          BY <2>1, <3>1
        <4> QED
          BY <4>1, <4>2, ExceptSeq
      <3>2. CASE ~(idx[c] <= MinThreads /\ idx[c] <= Len(m_vthreads))
        BY <1>5, <3>2 DEF CreateThread
      <3> QED
        BY <3>1, <3>2
    <2>3. /\ tpc' \in [Threads -> {"unborn", "failed", "while", "poll", "lock", "run",
                                   "paused", "exited", "freed"}]
          /\ cpc' = [cpc EXCEPT ![c] = "begin"]
      BY <1>5, <2>1 DEF CreateThread
    <2>4. UNCHANGED <<m_qtaskList, m_nactive, m_ndormant, flagVars, m_ptask, m_lock,
                      idx, dormant, nextTask, delthread, historyVars>>
      BY <1>5 DEF CreateThread
    <2>5. IndexInv'
      BY <2>1, <2>3, <2>4
    <2> QED
      BY <2>1, <2>2, <2>3, <2>4, <2>5
  <1>6. CASE SetRunning(c)
    BY <1>6, AppendProperties DEF SetRunning
  <1>7. CASE InitializeReturns(c)
    BY <1>7 DEF InitializeReturns
  <1>8. CASE Scan(c)
    <2>1. crashed' \in BOOLEAN
      BY <1>8 DEF Scan
    <2>2. m_vthreads[idx[c]] \in Threads \cup {NoThread}
      BY <1>8, ElementOfSeq DEF Scan
    <2>3. dormant' \in [Callers -> Seq(Threads)] /\ idx' \in [Callers -> Nat \ {0}]
      <3>1. CASE m_vthreads[idx[c]] = NoThread
        BY <1>8, <3>1 DEF Scan
      <3>2. CASE m_vthreads[idx[c]] # NoThread
        <4>1. m_vthreads[idx[c]] \in Threads
          BY <2>2, <3>2
        <4>2. Append(dormant[c], m_vthreads[idx[c]]) \in Seq(Threads)
          BY <4>1, AppendProperties
        <4>3. idx' = [idx EXCEPT ![c] = @ + 1]
          BY <1>8, <3>2 DEF Scan
        <4>4. \/ dormant' = dormant
              \/ dormant' = [dormant EXCEPT ![c] = Append(dormant[c], m_vthreads[idx[c]])]
          BY <1>8, <3>2 DEF Scan
        <4>5. dormant' \in [Callers -> Seq(Threads)]
          BY <4>2, <4>4
        <4>6. idx[c] + 1 \in Nat \ {0}
          OBVIOUS
        <4>7. idx' \in [Callers -> Nat \ {0}]
          BY <4>3, <4>6
        <4> QED
          BY <4>5, <4>7
      <3> QED
        BY <3>1, <3>2
    <2>4. /\ UNCHANGED <<poolVars, threadVars, cpc, nextTask, delthread, historyVars>>
          /\ cpc[c] = "scan"
          /\ \A d \in Callers \ {c} : idx'[d] = idx[d] /\ dormant'[d] = dormant[d]
      BY <1>8 DEF Scan
    <2>5. IndexInv'
      BY <2>3, <2>4
    <2> QED
      BY <2>1, <2>3, <2>4, <2>5
  <1>9. CASE ScanEnds(c)
    BY <1>9 DEF ScanEnds
  <1>10. CASE PopTask(c)
    BY <1>10 DEF PopTask, Popped
  <1>11. CASE LockThread(c)
    BY <1>11 DEF LockThread
  <1>12. CASE SetTask(c)
    BY <1>12 DEF SetTask
  <1>13. CASE ResumeUnlock(c)
    BY <1>13 DEF ResumeUnlock
  <1>14. CASE ProcessReturns(c)
    BY <1>14 DEF ProcessReturns, DormantLeft
  <1>15. CASE DrainTask(c)
    BY <1>15 DEF DrainTask, callerVars
  <1>16. CASE DrainEnds(c)
    BY <1>16 DEF DrainEnds
  <1>17. CASE PopThread(c)
    BY <1>17 DEF PopThread
  <1>18. CASE End(c)
    BY <1>18 DEF End, Ended
  <1>19. CASE Join(c)
    BY <1>19 DEF Join
  <1>20. CASE Destroy(c)
    BY <1>20 DEF Destroy
  <1>21. CASE ShutDownReturns(c)
    BY <1>21 DEF ShutDownReturns
  <1> QED
    BY <1>1, <1>2, <1>3, <1>4, <1>5, <1>6, <1>7, <1>8, <1>9, <1>10, <1>11, <1>12, <1>13,
       <1>14, <1>15, <1>16, <1>17, <1>18, <1>19, <1>20, <1>21
       DEF Continue

(* Each step of a pool thread keeps the types and the indices. *)
LEMMA TypeThread ==
    ASSUME TypeOK, IndexInv, TaskPointerNotNull, ~crashed,
           NEW t \in Threads, ThreadProc(t) \/ TaskReturns(t)
    PROVE  TypeOK' /\ IndexInv'
  <1> USE DEF TypeOK, IndexInv, Step, poolVars, flagVars, callerVars, historyVars
  <1>1. CASE While(t)
    BY <1>1 DEF While
  <1>2. CASE Exit(t)
    BY <1>2 DEF Exit
  <1>3. CASE Poll(t)
    BY <1>3 DEF Poll
  <1>4. CASE TakeTask(t)
    <2>1. crashed' \in BOOLEAN /\ UNCHANGED <<poolVars, flagVars, m_ptask, callerVars, historyVars>>
      BY <1>4 DEF TakeTask
    <2>2. /\ m_lock' = [m_lock EXCEPT ![t] = "self"]
          /\ tpc' = [tpc EXCEPT ![t] = "run"]
      BY <1>4 DEF TakeTask
    <2> QED
      BY <2>1, <2>2
  <1>5. CASE TaskReturns(t)
    BY <1>5 DEF TaskReturns, TaskPointerNotNull
  <1>6. CASE ClearTask(t)
    BY <1>6 DEF ClearTask, ClearedTask
  <1> QED
    BY <1>1, <1>2, <1>3, <1>4, <1>5, <1>6 DEF ThreadProc

-----------------------------------------------------------------------------

(* So does what is said of locks and pointers. *)
LEMMA PointerInit == Init => PointerInv
  BY OwnersAssumption
     DEF Init, PointerInv, LockInv, DestroyInv, AssignInv, PausedInv

(* What the thread is about to dereference follows from the flags. *)
LEMMA PointerSafe == IInv => TaskPointerNotNull
  BY DEF IInv, PointerInv, PausedInv, TaskPointerNotNull

(* A step that leaves locks, flags and pointers alone, moves no caller      *)
(* into or out of an assignment, and moves threads only while they have no *)
(* task. *)
LEMMA Undisturbed ==
    ASSUME IInv, ~crashed,
           UNCHANGED <<m_bpaused, m_ptask, m_lock, nextTask, delthread>>,
           \A t \in Threads :
               \/ tpc'[t] = tpc[t]
               \/ tpc[t] \in {"unborn", "while", "poll"} /\ tpc'[t] \in {"while", "poll", "failed"},
           \A d \in Callers :
               \/ cpc'[d] = cpc[d]
               \/ /\ cpc[d] \notin {"lock", "set_task", "resume", "destroy"}
                  /\ cpc'[d] \notin {"lock", "set_task", "resume", "destroy"},
           \A d \in Callers : cpc[d] \in {"lock", "set_task", "resume"} => Slot(d)' = Slot(d)
    PROVE  PointerInv'
  <1> USE DEF IInv, PointerInv
  <1>1. LockInv'
    BY DEF LockInv
  <1>2. DestroyInv'
    <2> SUFFICES ASSUME NEW d \in Callers, cpc'[d] = "destroy"
                 PROVE  tpc'[delthread[d]] \in {"exited", "failed", "freed"}
      BY DEF DestroyInv
    <2>1. cpc[d] = "destroy"
      OBVIOUS
    <2>2. delthread[d] \in Threads
      BY <2>1 DEF IndexInv, TypeOK
    <2>3. tpc[delthread[d]] \in {"exited", "failed", "freed"}
      BY <2>1 DEF DestroyInv
    <2> QED
      BY <2>2, <2>3
  <1>3. AssignInv'
    <2> SUFFICES ASSUME NEW d \in Callers
                 PROVE  /\ cpc'[d] \in {"lock", "set_task"} => nextTask[d] # NoTask
                        /\ cpc'[d] = "resume" =>
                             m_ptask[Slot(d)'] # NoTask \/ tpc'[Slot(d)'] \in {"exited", "freed"}
      BY DEF AssignInv
    <2>1. cpc'[d] \in {"lock", "set_task"} => nextTask[d] # NoTask
      BY DEF AssignInv
    <2>2. ASSUME cpc'[d] = "resume"
          PROVE  m_ptask[Slot(d)'] # NoTask \/ tpc'[Slot(d)'] \in {"exited", "freed"}
      <3>1. cpc[d] = "resume" /\ Slot(d)' = Slot(d)
        BY <2>2
      <3>2. Slot(d) \in Threads
        BY <3>1 DEF IndexInv, TypeOK, Slot
      <3> QED
        BY <3>1, <3>2 DEF AssignInv
    <2> QED
      BY <2>1, <2>2
  <1>4. PausedInv'
    BY DEF PausedInv
  <1> QED
    BY <1>1, <1>2, <1>3, <1>4

(* Each step of a caller keeps the locks and the pointers. *)
LEMMA PointerCaller ==
    ASSUME IInv, ~crashed, NEW c \in Callers,
           \/ Initialize(c)
           \/ \E k \in Tasks : AddTask(c, k)
           \/ Process(c)
           \/ ShutDown(c)
           \/ Continue(c)
    PROVE  PointerInv'
  <1> USE OwnersAssumption, NoTaskAssumption
          DEF IInv, PointerInv, LockInv, DestroyInv, AssignInv, PausedInv, Slot, TypeOK,
              IndexInv, Goto, NoThread, poolVars, flagVars, threadVars, historyVars
  <1>1. CASE Initialize(c)
    BY <1>1 DEF Initialize
  <1>2. ASSUME NEW k \in Tasks, AddTask(c, k) PROVE PointerInv'
    BY <1>2 DEF AddTask, callerVars
  <1>3. CASE Process(c)
    BY <1>3 DEF Process
  <1>4. CASE ShutDown(c)
    BY <1>4 DEF ShutDown
  <1>5. CASE CreateThread(c)
    <2>1. /\ UNCHANGED <<m_bpaused, m_ptask, m_lock, idx, dormant, nextTask, delthread>>
          /\ cpc[c] = "initialize" /\ cpc' = [cpc EXCEPT ![c] = "begin"]
      BY <1>5 DEF CreateThread
    <2>2. /\ tpc[idx[c]] = "unborn"
          /\ \/ tpc' = [tpc EXCEPT ![idx[c]] = "while"]
             \/ tpc' = [tpc EXCEPT ![idx[c]] = "failed"]
      BY <1>5 DEF CreateThread
    <2> QED
      BY <2>1, <2>2, Undisturbed
  <1>6. CASE SetRunning(c)
    BY <1>6 DEF SetRunning
  <1>7. CASE InitializeReturns(c)
    BY <1>7 DEF InitializeReturns
  <1>8. CASE Scan(c)
    <2>1. /\ UNCHANGED <<m_bpaused, m_ptask, m_lock, tpc, cpc, nextTask, delthread>>
          /\ cpc[c] = "scan"
          /\ \A d \in Callers \ {c} : Slot(d)' = Slot(d)
      BY <1>8 DEF Scan
    <2> QED
      BY <2>1, Undisturbed
  <1>9. CASE ScanEnds(c)
    BY <1>9 DEF ScanEnds
  <1>10. CASE PopTask(c)
    BY <1>10 DEF PopTask, Popped
  <1>11. CASE LockThread(c)
    BY <1>11 DEF LockThread, LockIsFree
  <1>12. CASE SetTask(c)
    BY <1>12 DEF SetTask
  <1>13. CASE ResumeUnlock(c)
    BY <1>13 DEF ResumeUnlock
  <1>14. CASE ProcessReturns(c)
    BY <1>14 DEF ProcessReturns
  <1>15. CASE DrainTask(c)
    BY <1>15 DEF DrainTask, callerVars
  <1>16. CASE DrainEnds(c)
    BY <1>16 DEF DrainEnds
  <1>17. CASE PopThread(c)
    BY <1>17 DEF PopThread
  <1>18. CASE End(c)
    BY <1>18 DEF End
  <1>19. CASE Join(c)
    BY <1>19 DEF Join, Joinable
  <1>20. CASE Destroy(c)
    BY <1>20 DEF Destroy
  <1>21. CASE ShutDownReturns(c)
    BY <1>21 DEF ShutDownReturns
  <1> QED
    BY <1>1, <1>2, <1>3, <1>4, <1>5, <1>6, <1>7, <1>8, <1>9, <1>10, <1>11, <1>12, <1>13,
       <1>14, <1>15, <1>16, <1>17, <1>18, <1>19, <1>20, <1>21
       DEF Continue

(* Each step of a pool thread keeps the locks and the pointers. *)
LEMMA PointerThread ==
    ASSUME IInv, ~crashed, NEW t \in Threads, ThreadProc(t) \/ TaskReturns(t)
    PROVE  PointerInv'
  <1> USE OwnersAssumption, NoTaskAssumption
          DEF IInv, PointerInv, LockInv, DestroyInv, AssignInv, PausedInv, Slot, TypeOK,
              IndexInv, Step, poolVars, flagVars, callerVars, historyVars
  <1>1. CASE While(t)
    BY <1>1 DEF While
  <1>2. CASE Exit(t)
    BY <1>2 DEF Exit
  <1>3. CASE Poll(t)
    <2>1. UNCHANGED <<m_brunning, m_bpaused, m_ptask, m_lock, cpc, idx, dormant, nextTask,
                      delthread, crashed>>
      BY <1>3 DEF Poll
    <2>2. CASE m_bpaused[t] /\ Step(t, "poll", "while")
      BY <2>1, <2>2
    <2>3. CASE ~m_bpaused[t] /\ Step(t, "poll", "lock")
      BY <2>1, <2>3
    <2> QED
      BY <1>3, <2>2, <2>3 DEF Poll
  <1>4. CASE TakeTask(t)
    BY <1>4 DEF TakeTask, LockIsFree
  <1>5. CASE TaskReturns(t)
    BY <1>5 DEF TaskReturns
  <1>6. CASE ClearTask(t)
    BY <1>6 DEF ClearTask, ClearedTask
  <1> QED
    BY <1>1, <1>2, <1>3, <1>4, <1>5, <1>6 DEF ThreadProc

-----------------------------------------------------------------------------

(* Every step keeps the inductive invariant. *)
LEMMA InvStep == IInv /\ [Next]_vars => IInv'
  <1> SUFFICES ASSUME IInv, [Next]_vars PROVE IInv'
    OBVIOUS
  <1>1. CASE UNCHANGED vars
    <2>1. TypeOK' /\ IndexInv'
      BY <1>1 DEF IInv, TypeOK, IndexInv, vars, poolVars, flagVars, threadVars, callerVars,
                  historyVars
    <2>2. PointerInv'
      BY <1>1 DEF IInv, PointerInv, LockInv, DestroyInv, AssignInv, PausedInv, Slot, vars,
                  flagVars, threadVars, callerVars
    <2> QED
      BY <2>1, <2>2 DEF IInv
  <1>2. ASSUME ~crashed, NEW c \in Callers,
               \/ Initialize(c)
               \/ \E k \in Tasks : AddTask(c, k)
               \/ Process(c)
               \/ ShutDown(c)
               \/ Continue(c)
        PROVE  IInv'
    BY <1>2, TypeCaller, PointerCaller DEF IInv
  <1>3. ASSUME ~crashed, NEW t \in Threads, ThreadProc(t) \/ TaskReturns(t)
        PROVE  IInv'
    BY <1>3, TypeThread, PointerThread, PointerSafe DEF IInv
  <1> QED
    BY <1>1, <1>2, <1>3 DEF Next

(* The inductive invariant is an invariant of the pool, however it is used. *)
THEOREM Invariant == Spec => []IInv
  <1>1. Init => IInv
    BY TypeInit, PointerInit DEF IInv
  <1> QED
    BY <1>1, InvStep, PTL DEF Spec

(* Every variable of the pool stays in its type. *)
THEOREM TypeCorrect == Spec => []TypeOK
  <1>1. IInv => TypeOK
    BY DEF IInv
  <1> QED
    BY <1>1, Invariant, PTL

(* A thread that found m_bpaused false without a lock has a task to run. *)
THEOREM PointerNotNull == Spec => []TaskPointerNotNull
  BY Invariant, PointerSafe, PTL

-----------------------------------------------------------------------------

(* No two places of the pool hold the same task. *)
Distinct ==
    /\ \A i, j \in 1..Len(m_qtaskList) : m_qtaskList[i] = m_qtaskList[j] => i = j
    /\ \A c, d \in Callers : nextTask[c] = nextTask[d] => nextTask[c] = NoTask \/ c = d
    /\ \A s, t \in Threads : m_ptask[s] = m_ptask[t] => m_ptask[s] = NoTask \/ s = t
    /\ \A i \in 1..Len(m_qtaskList), c \in Callers : m_qtaskList[i] # nextTask[c]
    /\ \A i \in 1..Len(m_qtaskList), t \in Threads : m_qtaskList[i] # m_ptask[t]
    /\ \A c \in Callers, t \in Threads : nextTask[c] = m_ptask[t] => nextTask[c] = NoTask

(* A task that is held was added, was not deleted, and has not run, but for *)
(* the one of a thread that is about to clear its pointer. *)
HeldInUse ==
    /\ dropped \cup done \subseteq added
    /\ \A i \in 1..Len(m_qtaskList) : m_qtaskList[i] \in added \ (dropped \cup done)
    /\ \A c \in Callers : nextTask[c] # NoTask => nextTask[c] \in added \ (dropped \cup done)
    /\ \A t \in Threads :
         m_ptask[t] # NoTask =>
            /\ m_ptask[t] \in added \ dropped
            /\ m_ptask[t] \in done => tpc[t] = "paused"

HeldInv == Distinct /\ HeldInUse

(* Nothing is held at the start. *)
LEMMA HeldInit == Init => HeldInv
  BY DEF Init, HeldInv, Distinct, HeldInUse

(* A step that moves no task keeps HeldInv, unless it moves a thread that   *)
(* is about to clear its pointer. *)
LEMMA NothingMoved ==
    ASSUME HeldInv,
           UNCHANGED <<m_qtaskList, nextTask, m_ptask, added, done, dropped>>,
           \A t \in Threads : tpc[t] = "paused" => tpc'[t] = "paused"
    PROVE  HeldInv'
  BY DEF HeldInv, Distinct, HeldInUse

(* Each step of a caller moves a task from one place to the next. *)
LEMMA HeldCaller ==
    ASSUME IInv, HeldInv, ~crashed, NEW c \in Callers,
           \/ Initialize(c)
           \/ \E k \in Tasks : AddTask(c, k)
           \/ Process(c)
           \/ ShutDown(c)
           \/ Continue(c)
    PROVE  HeldInv'
  <1> USE DEF Goto, poolVars, flagVars, threadVars, callerVars, historyVars
  <1>1. ASSUME \/ Initialize(c) \/ Process(c) \/ ShutDown(c) \/ SetRunning(c)
               \/ InitializeReturns(c) \/ Scan(c) \/ ScanEnds(c) \/ LockThread(c)
               \/ ResumeUnlock(c) \/ ProcessReturns(c) \/ DrainEnds(c) \/ PopThread(c)
               \/ End(c) \/ Join(c) \/ ShutDownReturns(c)
        PROVE  HeldInv'
    <2>1. UNCHANGED <<m_qtaskList, nextTask, m_ptask, added, done, dropped, tpc>>
      BY <1>1 DEF Initialize, Process, ShutDown, SetRunning, InitializeReturns, Scan, ScanEnds,
                  LockThread, ResumeUnlock, ProcessReturns, DrainEnds, PopThread, End, Join,
                  ShutDownReturns
    <2> QED
      BY <2>1, NothingMoved
  <1>2. ASSUME NEW k \in Tasks, AddTask(c, k) PROVE HeldInv'
    <2>1. /\ m_qtaskList' = Append(m_qtaskList, k)
          /\ k \notin added
          /\ added' = added \cup {k}
          /\ UNCHANGED <<nextTask, m_ptask, done, dropped, tpc>>
      BY <1>2 DEF AddTask
    <2>2. m_qtaskList \in Seq(Tasks) /\ done \subseteq Tasks
      BY DEF IInv, TypeOK
    <2>3. /\ Len(m_qtaskList') = Len(m_qtaskList) + 1
          /\ \A i \in 1..Len(m_qtaskList) : m_qtaskList'[i] = m_qtaskList[i]
          /\ m_qtaskList'[Len(m_qtaskList) + 1] = k
      BY <2>1, <2>2, AppendProperties
    <2>4. k \notin dropped /\ k \notin done
      BY <2>1 DEF HeldInv, HeldInUse
    <2> QED
      BY <2>1, <2>2, <2>3, <2>4, NoTaskAssumption DEF HeldInv, Distinct, HeldInUse
  <1>3. CASE CreateThread(c)
    <2>1. /\ UNCHANGED <<m_qtaskList, nextTask, m_ptask, added, done, dropped>>
          /\ tpc[idx[c]] = "unborn"
          /\ \A t \in Threads : tpc'[t] = tpc[t] \/ t = idx[c]
      BY <1>3 DEF CreateThread, IInv, TypeOK
    <2> QED
      BY <2>1, NothingMoved
  <1>4. CASE PopTask(c)
    <2>1. /\ m_qtaskList # << >>
          /\ nextTask' = [nextTask EXCEPT ![c] = Head(m_qtaskList)]
          /\ m_qtaskList' = Tail(m_qtaskList)
          /\ UNCHANGED <<m_ptask, added, done, dropped, tpc>>
      BY <1>4 DEF PopTask, Popped
    <2>2. m_qtaskList \in Seq(Tasks) /\ nextTask \in [Callers -> Tasks \cup {NoTask}]
      BY DEF IInv, TypeOK
    <2>3. /\ Len(m_qtaskList) > 0 /\ Head(m_qtaskList) = m_qtaskList[1]
          /\ Len(m_qtaskList') = Len(m_qtaskList) - 1
          /\ \A i \in 1..Len(m_qtaskList') : m_qtaskList'[i] = m_qtaskList[i + 1]
      BY <2>1, <2>2, HeadTailProperties
    <2> QED
      BY <2>1, <2>2, <2>3, NoTaskAssumption DEF HeldInv, Distinct, HeldInUse
  <1>5. CASE SetTask(c)
    <2>1. /\ m_ptask' = [m_ptask EXCEPT ![Slot(c)] = nextTask[c]]
          /\ nextTask' = [nextTask EXCEPT ![c] = NoTask]
          /\ UNCHANGED <<m_qtaskList, added, done, dropped, tpc>>
      BY <1>5 DEF SetTask, Slot
    <2>2. /\ nextTask \in [Callers -> Tasks \cup {NoTask}]
          /\ m_ptask \in [Threads -> Tasks \cup {NoTask}]
          /\ m_qtaskList \in Seq(Tasks)
      BY DEF IInv, TypeOK
    <2> QED
      BY <2>1, <2>2, NoTaskAssumption DEF HeldInv, Distinct, HeldInUse
  <1>6. CASE DrainTask(c)
    <2>1. /\ m_qtaskList # << >>
          /\ dropped' = dropped \cup {Head(m_qtaskList)}
          /\ m_qtaskList' = Tail(m_qtaskList)
          /\ UNCHANGED <<m_ptask, nextTask, added, done, tpc>>
      BY <1>6 DEF DrainTask
    <2>2. m_qtaskList \in Seq(Tasks)
      BY DEF IInv, TypeOK
    <2>3. /\ Len(m_qtaskList) > 0 /\ Head(m_qtaskList) = m_qtaskList[1]
          /\ Len(m_qtaskList') = Len(m_qtaskList) - 1
          /\ \A i \in 1..Len(m_qtaskList') : m_qtaskList'[i] = m_qtaskList[i + 1]
      BY <2>1, <2>2, HeadTailProperties
    <2> QED
      BY <2>1, <2>2, <2>3, NoTaskAssumption DEF HeldInv, Distinct, HeldInUse
  <1>7. CASE Destroy(c)
    <2>1. UNCHANGED <<m_qtaskList, nextTask, m_ptask, added, done, dropped>>
      BY <1>7 DEF Destroy
    <2>2. /\ \A t \in Threads : tpc'[t] = tpc[t] \/ t = delthread[c]
          /\ tpc[delthread[c]] # "paused"
      BY <1>7 DEF Destroy, IInv, TypeOK, PointerInv, DestroyInv
    <2> QED
      BY <2>1, <2>2, NothingMoved
  <1> QED
    BY <1>1, <1>2, <1>3, <1>4, <1>5, <1>6, <1>7 DEF Continue

(* Each step of a pool thread runs, clears or deletes its own task. *)
LEMMA HeldThread ==
    ASSUME IInv, HeldInv, ~crashed, NEW t \in Threads, ThreadProc(t) \/ TaskReturns(t)
    PROVE  HeldInv'
  <1> USE DEF Step, poolVars, flagVars, callerVars, historyVars
  <1>1. /\ m_ptask \in [Threads -> Tasks \cup {NoTask}]
        /\ tpc \in [Threads -> {"unborn", "failed", "while", "poll", "lock", "run",
                                "paused", "exited", "freed"}]
        /\ m_qtaskList \in Seq(Tasks)
    BY DEF IInv, TypeOK
  <1>2. CASE While(t) \/ Poll(t) \/ TakeTask(t)
    <2>1. /\ UNCHANGED <<m_qtaskList, nextTask, m_ptask, added, done, dropped>>
          /\ \A s \in Threads : tpc[s] = "paused" => tpc'[s] = "paused"
      BY <1>1, <1>2 DEF While, Poll, TakeTask
    <2> QED
      BY <2>1, NothingMoved
  <1>3. CASE Exit(t)
    BY <1>1, <1>3, NoTaskAssumption DEF Exit, HeldInv, Distinct, HeldInUse
  <1>4. CASE TaskReturns(t)
    <2>1. m_ptask[t] # NoTask
      BY <1>4, PointerSafe DEF TaskReturns, TaskPointerNotNull
    <2> QED
      BY <1>1, <1>4, <2>1 DEF TaskReturns, HeldInv, Distinct, HeldInUse
  <1>5. CASE ClearTask(t)
    BY <1>1, <1>5, NoTaskAssumption DEF ClearTask, ClearedTask, HeldInv, Distinct, HeldInUse
  <1> QED
    BY <1>2, <1>3, <1>4, <1>5 DEF ThreadProc

(* Distinct places and tasks in use are what TaskHeldOnce counts. *)
LEMMA HeldOnce == IInv /\ HeldInv => TaskHeldOnce
  <1> SUFFICES ASSUME IInv, HeldInv, NEW k \in added
               PROVE  /\ Cardinality(Holders(k)) <= 1
                      /\ k \in dropped => Holders(k) = {}
                      /\ k \in done =>
                           Holders(k) \subseteq
                             {<<"thread", t>> : t \in {s \in Threads : tpc[s] = "paused"}}
    BY DEF TaskHeldOnce
  <1>1. k # NoTask
    BY NoTaskAssumption DEF IInv, TypeOK
  <1>2. \A g, h \in Holders(k) : g = h
    BY <1>1 DEF HeldInv, Distinct, Holders
  <1>3. Cardinality(Holders(k)) <= 1
    <2>1. CASE Holders(k) = {}
      BY <2>1, FS_EmptySet
    <2>2. CASE Holders(k) # {}
      <3>1. PICK h \in Holders(k) : TRUE
        BY <2>2
      <3>2. Holders(k) = {h}
        BY <1>2, <3>1
      <3> QED
        BY <3>2, FS_Singleton
    <2> QED
      BY <2>1, <2>2
  <1>4. k \in dropped => Holders(k) = {}
    BY <1>1 DEF HeldInv, HeldInUse, Holders
  <1>5. k \in done =>
          Holders(k) \subseteq {<<"thread", t>> : t \in {s \in Threads : tpc[s] = "paused"}}
    BY <1>1 DEF HeldInv, HeldInUse, Holders
  <1> QED
    BY <1>3, <1>4, <1>5

(* Each step of the pool keeps a task in one place at most. *)
LEMMA HeldStep == IInv /\ HeldInv /\ [Next]_vars => HeldInv'
  <1> SUFFICES ASSUME IInv, HeldInv, [Next]_vars PROVE HeldInv'
    OBVIOUS
  <1>1. CASE UNCHANGED vars
    BY <1>1, NothingMoved DEF vars, poolVars, threadVars, callerVars, historyVars
  <1> QED
    BY <1>1, HeldCaller, HeldThread DEF Next

(* A task is handed over, never shared, run twice or used after its         *)
(* deletion, with any number of callers inside the pool at once and with   *)
(* pthread_create failing at will. *)
THEOREM TaskHandedOver == Spec => []TaskHeldOnce
  BY HeldInit, HeldStep, HeldOnce, Invariant, PTL DEF Spec

-----------------------------------------------------------------------------
(***************************************************************************)
(* One caller at a time.  With several, a task can be lost: two of them    *)
(* find the same thread dormant, and the second overwrites its m_ptask     *)
(* (the run two_assigners).  With one it cannot.                           *)
(***************************************************************************)

OneCaller == \A c, d \in Callers : c = d

(* The slots that initialize has filled so far.                            *)
Filled(c) == IF cpc[c] = "begin" THEN idx[c] ELSE idx[c] - 1

(* The vector holds the threads in the order of their creation, and a null *)
(* pointer only where initialize has not come to.                          *)
VectorInv ==
    /\ \A i \in 1..Len(m_vthreads) : m_vthreads[i] \in {i, NoThread}
    /\ \A c \in Callers :
         IF cpc[c] \in {"initialize", "begin"}
           THEN /\ Len(m_vthreads) = IF idx[c] > MinThreads THEN idx[c] - 1 ELSE MinThreads
                /\ \A i \in 1..Len(m_vthreads) : i <= Filled(c) => m_vthreads[i] = i
           ELSE \A i \in 1..Len(m_vthreads) : m_vthreads[i] = i

(* The threads that process() has found dormant are different threads, and *)
(* those it has not reached yet are still waiting: the caller alone could  *)
(* have set them going.                                                    *)
DormantInv ==
    \A c \in Callers :
        cpc[c] \in {"scan", "assign", "lock", "set_task", "resume"} =>
            /\ \A i, j \in 1..Len(dormant[c]) : i < j => dormant[c][i] < dormant[c][j]
            /\ cpc[c] = "scan" => \A i \in 1..Len(dormant[c]) : dormant[c][i] < idx[c]
            /\ \A i \in 1..Len(dormant[c]) :
                 cpc[c] = "scan" \/ i >= idx[c] => m_bpaused[dormant[c][i]]

(* A thread that waits has no task, or one that has run and that it is     *)
(* about to clear, but for the one that is just being set.                 *)
IdleInv ==
    \A t \in Threads :
        /\ tpc[t] = "paused" => m_ptask[t] \in done
        /\ m_bpaused[t] => \/ m_ptask[t] \in done \cup {NoTask}
                           \/ \E c \in Callers : cpc[c] = "resume" /\ Slot(c) = t

(* The local nextTask is read no more once its task is set.                *)
NextTaskInv ==
    \A c \in Callers : nextTask[c] # NoTask => cpc[c] \in {"lock", "set_task"}

SoleInv == VectorInv /\ DormantInv /\ IdleInv /\ NextTaskInv

(* Nothing is waiting for a caller at the start. *)
LEMMA SoleInit == Init => SoleInv
  BY DEF Init, SoleInv, VectorInv, DormantInv, IdleInv, NextTaskInv

(* pop_back leaves the other elements where they are. *)
LEMMA ButLast ==
    ASSUME NEW S, NEW s \in Seq(S), Len(s) \in Nat \ {0}
    PROVE  /\ Len(SubSeq(s, 1, Len(s) - 1)) = Len(s) - 1
           /\ \A i \in 1..(Len(s) - 1) : SubSeq(s, 1, Len(s) - 1)[i] = s[i]
  <1> DEFINE n == Len(s) - 1
  <1>1. 1 \in Int /\ n \in Int /\ n >= 0 /\ \A i \in 1..n : s[i] \in S
    OBVIOUS
  <1>2. /\ Len(SubSeq(s, 1, n)) = IF 1 <= n THEN n - 1 + 1 ELSE 0
        /\ \A i \in 1..(n - 1 + 1) : SubSeq(s, 1, n)[i] = s[1 + i - 1]
    BY <1>1, SubSeqProperties
  <1> HIDE DEF n
  <1>3. Len(SubSeq(s, 1, n)) = n /\ \A i \in 1..n : SubSeq(s, 1, n)[i] = s[i]
    BY <1>1, <1>2
  <1> QED
    BY <1>3 DEF n

(* The vector is filled in order, and emptied from its end. *)
LEMMA VectorCaller ==
    ASSUME OneCaller, IInv, VectorInv, ~crashed, NEW c \in Callers,
           \/ Initialize(c)
           \/ \E k \in Tasks : AddTask(c, k)
           \/ Process(c)
           \/ ShutDown(c)
           \/ Continue(c)
    PROVE  VectorInv'
  <1> USE ThreadsAssumption DEF Goto, Threads, NoThread
  <1>0. /\ \A d \in Callers : d = c
        /\ m_vthreads \in Seq(Threads \cup {NoThread})
        /\ idx \in [Callers -> Nat \ {0}]
        /\ Len(m_vthreads) \in Nat
        /\ cpc \in [Callers -> {"client", "initialize", "begin", "scan", "assign",
                            "lock", "set_task", "resume", "drain", "pop_thread",
                            "end", "join", "destroy"}]
    BY DEF OneCaller, IInv, TypeOK
  <1>1. CASE Initialize(c)
    <2>1. /\ m_vthreads' = [k \in 1..MinThreads |-> NoThread]
          /\ idx' = [idx EXCEPT ![c] = 1]
          /\ cpc' = [cpc EXCEPT ![c] = "initialize"]
      BY <1>1 DEF Initialize
    <2>2. Len(m_vthreads') = MinThreads
      BY <2>1
    <2> QED
      BY <1>0, <2>1, <2>2 DEF VectorInv, Filled
  <1>2. CASE CreateThread(c)
    <2>1. /\ idx' = idx /\ cpc[c] = "initialize" /\ cpc' = [cpc EXCEPT ![c] = "begin"]
          /\ idx[c] <= MaxThreads
      BY <1>2 DEF CreateThread
    <2>2. CASE idx[c] <= MinThreads /\ idx[c] <= Len(m_vthreads)
      <3>1. m_vthreads' = [m_vthreads EXCEPT ![idx[c]] = idx[c]]
        BY <1>2, <2>2 DEF CreateThread
      <3>2. Len(m_vthreads') = Len(m_vthreads)
            /\ \A i \in 1..Len(m_vthreads) : m_vthreads'[i] = IF i = idx[c] THEN i ELSE m_vthreads[i]
        BY <3>1, <1>0, ExceptSeq
      <3> QED
        BY <1>0, <2>1, <2>2, <3>2 DEF VectorInv, Filled
    <2>3. CASE ~(idx[c] <= MinThreads /\ idx[c] <= Len(m_vthreads))
      <3>1. m_vthreads' = m_vthreads
        BY <1>2, <2>3 DEF CreateThread
      <3> QED
        BY <1>0, <2>1, <2>3, <3>1 DEF VectorInv, Filled
    <2> QED
      BY <2>2, <2>3
  <1>3. CASE SetRunning(c)
    <2>1. /\ idx' = [idx EXCEPT ![c] = @ + 1] /\ cpc[c] = "begin"
          /\ cpc' = [cpc EXCEPT ![c] = "initialize"]
          /\ m_vthreads' = IF idx[c] <= MinThreads THEN m_vthreads ELSE Append(m_vthreads, idx[c])
      BY <1>3 DEF SetRunning
    <2>2. CASE idx[c] <= MinThreads
      BY <1>0, <2>1, <2>2 DEF VectorInv, Filled
    <2>3. CASE idx[c] > MinThreads
      <3>1. m_vthreads' = Append(m_vthreads, idx[c])
        BY <1>0, <2>1, <2>3
      <3>2. /\ Len(m_vthreads') = Len(m_vthreads) + 1
            /\ \A i \in 1..Len(m_vthreads) : m_vthreads'[i] = m_vthreads[i]
            /\ m_vthreads'[Len(m_vthreads) + 1] = idx[c]
        BY <3>1, <1>0, AppendProperties
      <3> QED
        BY <1>0, <2>1, <2>3, <3>2 DEF VectorInv, Filled
    <2> QED
      BY <1>0, <2>2, <2>3
  <1>4. CASE InitializeReturns(c)
    <2>1. /\ m_vthreads' = m_vthreads /\ cpc[c] = "initialize"
          /\ cpc' = [cpc EXCEPT ![c] = "client"] /\ idx[c] > MaxThreads
      BY <1>4 DEF InitializeReturns, poolVars
    <2> QED
      BY <1>0, <2>1 DEF VectorInv, Filled
  <1>5. CASE PopThread(c)
    <2>1. /\ m_vthreads # << >> /\ m_vthreads' = SubSeq(m_vthreads, 1, Len(m_vthreads) - 1)
          /\ cpc[c] = "pop_thread" /\ cpc' = [cpc EXCEPT ![c] = "end"]
      BY <1>5 DEF PopThread
    <2>2. Len(m_vthreads) \in Nat \ {0}
      BY <1>0, <2>1, EmptySeq
    <2>3. /\ Len(m_vthreads') = Len(m_vthreads) - 1
          /\ \A i \in 1..(Len(m_vthreads) - 1) : m_vthreads'[i] = m_vthreads[i]
      BY <1>0, <2>1, <2>2, ButLast
    <2> QED
      BY <1>0, <2>1, <2>2, <2>3 DEF VectorInv
  <1>6. ASSUME UNCHANGED m_vthreads,
               cpc'[c] \notin {"initialize", "begin"},
               cpc[c] \notin {"initialize", "begin"}
        PROVE  VectorInv'
    BY <1>0, <1>6 DEF VectorInv
  <1>7. ASSUME \/ \E k \in Tasks : AddTask(c, k)
               \/ Process(c) \/ ShutDown(c) \/ Scan(c) \/ ScanEnds(c) \/ PopTask(c)
               \/ LockThread(c) \/ SetTask(c) \/ ResumeUnlock(c) \/ ProcessReturns(c)
               \/ DrainTask(c) \/ DrainEnds(c) \/ End(c) \/ Join(c) \/ Destroy(c)
               \/ ShutDownReturns(c)
        PROVE  VectorInv'
    <2>1. /\ UNCHANGED m_vthreads
          /\ cpc'[c] \notin {"initialize", "begin"} /\ cpc[c] \notin {"initialize", "begin"}
      BY <1>0, <1>7 DEF AddTask, Process, ShutDown, Scan, ScanEnds, PopTask, LockThread, SetTask,
           ResumeUnlock, ProcessReturns, DrainTask, DrainEnds, End, Join, Destroy,
           ShutDownReturns, poolVars, callerVars
    <2> QED
      BY <1>6, <2>1
  <1> QED
    BY <1>1, <1>2, <1>3, <1>4, <1>5, <1>7 DEF Continue

(* process() lists each thread once, and reaches it while it still waits. *)
LEMMA DormantCaller ==
    ASSUME OneCaller, IInv, VectorInv, DormantInv, ~crashed, NEW c \in Callers,
           \/ Initialize(c)
           \/ \E k \in Tasks : AddTask(c, k)
           \/ Process(c)
           \/ ShutDown(c)
           \/ Continue(c)
    PROVE  DormantInv'
  <1> USE DEF Goto
  <1>0. /\ \A d \in Callers : d = c
        /\ m_vthreads \in Seq(Threads \cup {NoThread})
        /\ idx \in [Callers -> Nat \ {0}]
        /\ dormant \in [Callers -> Seq(Threads)]
        /\ m_bpaused \in [Threads -> BOOLEAN]
        /\ cpc \in [Callers -> {"client", "initialize", "begin", "scan", "assign",
                            "lock", "set_task", "resume", "drain", "pop_thread",
                            "end", "join", "destroy"}]
    BY DEF OneCaller, IInv, TypeOK
  <1>1. CASE Process(c)
    <2>1. /\ dormant' = [dormant EXCEPT ![c] = << >>] /\ cpc' = [cpc EXCEPT ![c] = "scan"]
          /\ m_bpaused' = m_bpaused
      BY <1>1 DEF Process, threadVars, flagVars
    <2>2. Len(dormant'[c]) = 0
      BY <1>0, <2>1
    <2> QED
      BY <1>0, <2>1, <2>2 DEF DormantInv
  <1>2. CASE Scan(c)
    <2> DEFINE t == m_vthreads[idx[c]]
    <2>1. /\ cpc[c] = "scan" /\ UNCHANGED <<cpc, m_bpaused>> /\ idx[c] \in 1..Len(m_vthreads)
          /\ IF t = NoThread
               THEN UNCHANGED <<idx, dormant>>
               ELSE /\ dormant' = IF Dormant(t)
                                    THEN [dormant EXCEPT ![c] = Append(@, t)]
                                    ELSE dormant
                    /\ idx' = [idx EXCEPT ![c] = @ + 1]
      BY <1>0, <1>2 DEF Scan, threadVars, flagVars
    <2>2. CASE UNCHANGED <<idx, dormant>>
      BY <2>1, <2>2 DEF DormantInv
    <2>3. CASE t # NoThread /\ ~Dormant(t)
      BY <1>0, <2>1, <2>3, ThreadsAssumption DEF DormantInv, Threads
    <2>4. CASE t # NoThread /\ Dormant(t)
      <3>1. t = idx[c] /\ t \in Threads /\ m_bpaused[t]
        BY <1>0, <2>1, <2>4 DEF VectorInv, Dormant
      <3> HIDE DEF t
      <3>2. /\ dormant'[c] = Append(dormant[c], t)
            /\ idx'[c] = idx[c] + 1
        BY <1>0, <2>1, <2>4
      <3>3. /\ Len(dormant'[c]) = Len(dormant[c]) + 1
            /\ \A i \in 1..Len(dormant[c]) : dormant'[c][i] = dormant[c][i]
            /\ dormant'[c][Len(dormant[c]) + 1] = t
        BY <1>0, <3>1, <3>2, AppendProperties
      <3>4. \A i \in 1..Len(dormant[c]) : dormant[c][i] \in Threads
        BY <1>0
      <3>5. \A i \in 1..Len(dormant[c]) :
               dormant[c][i] < t /\ dormant[c][i] \in Int /\ m_bpaused[dormant[c][i]]
        BY <1>0, <2>1, <3>1, <3>4 DEF DormantInv, Threads
      <3>6. /\ \A i, j \in 1..Len(dormant'[c]) : i < j => dormant'[c][i] < dormant'[c][j]
            /\ \A i \in 1..Len(dormant'[c]) :
                 dormant'[c][i] < idx'[c] /\ m_bpaused'[dormant'[c][i]]
        BY <1>0, <2>1, <3>1, <3>2, <3>3, <3>5 DEF DormantInv, Threads
      <3> QED
        BY <1>0, <2>1, <3>6 DEF DormantInv
    <2> QED
      BY <2>1, <2>2, <2>3, <2>4
  <1>3. CASE ScanEnds(c)
    <2>1. /\ cpc[c] = "scan" /\ cpc' = [cpc EXCEPT ![c] = "assign"]
          /\ UNCHANGED <<m_bpaused, dormant>>
      BY <1>3 DEF ScanEnds, threadVars, flagVars
    <2> QED
      BY <1>0, <2>1 DEF DormantInv
  <1>4. CASE ResumeUnlock(c)
    <2>1. /\ cpc[c] = "resume" /\ cpc' = [cpc EXCEPT ![c] = "assign"]
          /\ m_bpaused' = [m_bpaused EXCEPT ![dormant[c][idx[c]]] = FALSE]
          /\ idx' = [idx EXCEPT ![c] = @ + 1] /\ dormant' = dormant
      BY <1>4 DEF ResumeUnlock
    <2>2. idx[c] \in 1..Len(dormant[c])
      BY <2>1 DEF IInv, IndexInv
    <2>3. \A i \in 1..Len(dormant[c]) : dormant[c][i] \in Threads
      BY <1>0
    <2>4. \A i \in 1..Len(dormant[c]) : i >= idx[c] + 1 =>
             m_bpaused[dormant[c][i]] /\ dormant[c][i] # dormant[c][idx[c]]
      BY <1>0, <2>1, <2>2, <2>3 DEF DormantInv, Threads
    <2> QED
      BY <1>0, <2>1, <2>2, <2>3, <2>4 DEF DormantInv
  <1>5. ASSUME UNCHANGED <<m_bpaused, dormant, idx>>,
               \/ cpc'[c] \notin {"scan", "assign", "lock", "set_task", "resume"}
               \/ /\ cpc[c] \in {"assign", "lock", "set_task"}
                  /\ cpc'[c] \in {"assign", "lock", "set_task", "resume"}
        PROVE  DormantInv'
    BY <1>0, <1>5 DEF DormantInv
  <1>6. CASE Initialize(c) \/ SetRunning(c) \/ CreateThread(c)
    <2>1. /\ cpc'[c] \in {"initialize", "begin"}
          /\ \A d \in Callers : cpc'[d] \in {"initialize", "begin"}
      BY <1>0, <1>6 DEF Initialize, SetRunning, CreateThread
    <2> QED
      BY <2>1 DEF DormantInv
  <1>7. ASSUME \/ \E k \in Tasks : AddTask(c, k)
               \/ ShutDown(c) \/ InitializeReturns(c) \/ PopTask(c) \/ LockThread(c)
               \/ SetTask(c) \/ ProcessReturns(c) \/ DrainTask(c) \/ DrainEnds(c)
               \/ PopThread(c) \/ End(c) \/ Join(c) \/ Destroy(c) \/ ShutDownReturns(c)
        PROVE  DormantInv'
    <2>1. /\ UNCHANGED <<m_bpaused, dormant, idx>>
          /\ \/ cpc'[c] \notin {"scan", "assign", "lock", "set_task", "resume"}
             \/ /\ cpc[c] \in {"assign", "lock", "set_task"}
                /\ cpc'[c] \in {"assign", "lock", "set_task", "resume"}
      BY <1>0, <1>7 DEF AddTask, ShutDown, InitializeReturns, PopTask, LockThread, SetTask,
           ProcessReturns, DrainTask, DrainEnds, PopThread, End, Join, Destroy, ShutDownReturns,
           threadVars, flagVars, callerVars
    <2> QED
      BY <1>5, <2>1
  <1> QED
    BY <1>1, <1>2, <1>3, <1>4, <1>6, <1>7 DEF Continue

(* A task is set only in a thread that has none. *)
LEMMA IdleCaller ==
    ASSUME OneCaller, IInv, DormantInv, IdleInv, NextTaskInv, ~crashed, NEW c \in Callers,
           \/ Initialize(c)
           \/ \E k \in Tasks : AddTask(c, k)
           \/ Process(c)
           \/ ShutDown(c)
           \/ Continue(c)
    PROVE  IdleInv' /\ NextTaskInv'
  <1> USE DEF Goto
  <1>0. /\ \A d \in Callers : d = c
        /\ m_ptask \in [Threads -> Tasks \cup {NoTask}]
        /\ m_bpaused \in [Threads -> BOOLEAN]
        /\ idx \in [Callers -> Nat \ {0}]
        /\ dormant \in [Callers -> Seq(Threads)]
        /\ nextTask \in [Callers -> Tasks \cup {NoTask}]
        /\ tpc \in [Threads -> {"unborn", "failed", "while", "poll", "lock", "run",
                            "paused", "exited", "freed"}]
        /\ cpc \in [Callers -> {"client", "initialize", "begin", "scan", "assign",
                            "lock", "set_task", "resume", "drain", "pop_thread",
                            "end", "join", "destroy"}]
    BY DEF OneCaller, IInv, TypeOK
  <1>1. ASSUME UNCHANGED <<m_ptask, m_bpaused, done>>,
               cpc[c] # "resume",
               \A t \in Threads : tpc'[t] = "paused" => tpc[t] = "paused",
               nextTask' = nextTask /\ (cpc'[c] = cpc[c] \/ cpc[c] \notin {"lock", "set_task"}
                                        \/ cpc'[c] \in {"lock", "set_task"})
        PROVE  IdleInv' /\ NextTaskInv'
    BY <1>0, <1>1 DEF IdleInv, NextTaskInv
  <1>2. CASE PopTask(c)
    <2>1. /\ cpc[c] = "assign" /\ cpc' = [cpc EXCEPT ![c] = "lock"]
          /\ UNCHANGED <<m_ptask, m_bpaused, done, tpc>>
      BY <1>2 DEF PopTask, threadVars, flagVars, historyVars
    <2> QED
      BY <1>0, <2>1 DEF IdleInv, NextTaskInv
  <1>3. CASE SetTask(c)
    <2>1. /\ cpc[c] = "set_task" /\ cpc' = [cpc EXCEPT ![c] = "resume"]
          /\ m_ptask' = [m_ptask EXCEPT ![Slot(c)] = nextTask[c]]
          /\ nextTask' = [nextTask EXCEPT ![c] = NoTask]
          /\ UNCHANGED <<m_bpaused, done, tpc, dormant, idx>>
      BY <1>3 DEF SetTask, Slot, flagVars, historyVars
    <2>2. /\ Slot(c) \in Threads /\ tpc[Slot(c)] # "paused"
      <3>1. idx[c] \in 1..Len(dormant[c])
        BY <2>1 DEF IInv, IndexInv
      <3>2. Slot(c) \in Threads
        BY <1>0, <3>1 DEF Slot
      <3>3. m_lock[Slot(c)] = c
        BY <2>1, <3>2 DEF IInv, PointerInv, LockInv
      <3> QED
        BY <3>2, <3>3, OwnersAssumption DEF IInv, PointerInv, LockInv
    <2>3. Slot(c)' = Slot(c)
      BY <2>1 DEF Slot
    <2> QED
      BY <1>0, <2>1, <2>2, <2>3 DEF IdleInv, NextTaskInv
  <1>4. CASE ResumeUnlock(c)
    <2>1. /\ cpc[c] = "resume" /\ cpc' = [cpc EXCEPT ![c] = "assign"]
          /\ m_bpaused' = [m_bpaused EXCEPT ![Slot(c)] = FALSE]
          /\ UNCHANGED <<m_ptask, nextTask, done, tpc>>
      BY <1>4 DEF ResumeUnlock, Slot, historyVars
    <2> QED
      BY <1>0, <2>1 DEF IdleInv, NextTaskInv
  <1>5. CASE CreateThread(c)
    <2>1. /\ UNCHANGED <<m_ptask, m_bpaused, done, nextTask>>
          /\ cpc[c] = "initialize"
          /\ \/ tpc' = [tpc EXCEPT ![idx[c]] = "while"]
             \/ tpc' = [tpc EXCEPT ![idx[c]] = "failed"]
      BY <1>5 DEF CreateThread, flagVars, historyVars
    <2>2. \A t \in Threads : tpc'[t] = "paused" => tpc[t] = "paused"
      BY <1>0, <2>1
    <2> QED
      BY <1>1, <2>1, <2>2
  <1>6. CASE Destroy(c)
    <2>1. /\ UNCHANGED <<m_ptask, m_bpaused, done, nextTask>>
          /\ cpc[c] = "destroy"
          /\ tpc' = [tpc EXCEPT ![delthread[c]] = "freed"]
      BY <1>6 DEF Destroy, flagVars, historyVars
    <2>2. \A t \in Threads : tpc'[t] = "paused" => tpc[t] = "paused"
      BY <1>0, <2>1
    <2> QED
      BY <1>1, <2>1, <2>2
  <1>7. ASSUME \/ \E k \in Tasks : AddTask(c, k)
               \/ Initialize(c) \/ Process(c) \/ ShutDown(c) \/ SetRunning(c)
               \/ InitializeReturns(c) \/ Scan(c) \/ ScanEnds(c) \/ LockThread(c)
               \/ ProcessReturns(c) \/ DrainTask(c) \/ DrainEnds(c)
               \/ PopThread(c) \/ End(c) \/ Join(c) \/ ShutDownReturns(c)
        PROVE  IdleInv' /\ NextTaskInv'
    <2>1. /\ UNCHANGED <<m_ptask, m_bpaused, done, nextTask, tpc>>
          /\ cpc[c] # "resume"
          /\ \/ cpc[c] \notin {"lock", "set_task"}
             \/ cpc'[c] \in {"lock", "set_task"}
      BY <1>0, <1>7 DEF AddTask, Initialize, Process, ShutDown, SetRunning, InitializeReturns,
           Scan, ScanEnds, LockThread, ProcessReturns, DrainTask, DrainEnds, PopThread, End, Join,
           ShutDownReturns, threadVars, flagVars, callerVars, historyVars
    <2> QED
      BY <1>1, <2>1
  <1> QED
    BY <1>2, <1>3, <1>4, <1>5, <1>6, <1>7 DEF Continue

(* A thread only ever declares itself idle, once its task has run. *)
LEMMA SoleThread ==
    ASSUME IInv, SoleInv, ~crashed, NEW t \in Threads, ThreadProc(t) \/ TaskReturns(t)
    PROVE  SoleInv'
  <1> USE DEF Step
  <1>0. /\ m_ptask \in [Threads -> Tasks \cup {NoTask}]
        /\ m_bpaused \in [Threads -> BOOLEAN]
        /\ tpc \in [Threads -> {"unborn", "failed", "while", "poll", "lock", "run",
                            "paused", "exited", "freed"}]
        /\ dormant \in [Callers -> Seq(Threads)]
    BY DEF IInv, TypeOK
  <1>1. /\ UNCHANGED <<m_vthreads, cpc, idx, dormant, nextTask>>
        /\ \A s \in Threads : m_bpaused[s] => m_bpaused'[s]
        /\ done \subseteq done'
    BY <1>0 DEF ThreadProc, While, Exit, Poll, TakeTask, ClearTask, TaskReturns, poolVars,
                flagVars, callerVars, historyVars
  <1>2. VectorInv' /\ NextTaskInv'
    BY <1>1 DEF SoleInv, VectorInv, NextTaskInv, Filled
  <1>3. DormantInv'
    BY <1>0, <1>1 DEF SoleInv, DormantInv
  <1>4. \A c \in Callers : Slot(c)' = Slot(c)
    BY <1>1 DEF Slot
  <1>5. CASE While(t) \/ Poll(t) \/ TakeTask(t)
    <2>1. /\ UNCHANGED <<m_ptask, m_bpaused, done>>
          /\ \A s \in Threads : tpc'[s] = "paused" => tpc[s] = "paused"
      BY <1>0, <1>5 DEF While, Poll, TakeTask, flagVars, historyVars
    <2> QED
      BY <1>1, <1>2, <1>3, <1>4, <2>1 DEF SoleInv, IdleInv
  <1>6. CASE TaskReturns(t)
    <2>1. /\ m_bpaused' = [m_bpaused EXCEPT ![t] = TRUE]
          /\ done' = done \cup {m_ptask[t]} /\ m_ptask' = m_ptask
          /\ tpc' = [tpc EXCEPT ![t] = "paused"]
      BY <1>6 DEF TaskReturns
    <2> QED
      BY <1>0, <1>1, <1>2, <1>3, <1>4, <2>1 DEF SoleInv, IdleInv
  <1>7. CASE Exit(t) \/ ClearTask(t)
    <2>1. /\ UNCHANGED <<m_bpaused, done>>
          /\ m_ptask' = [m_ptask EXCEPT ![t] = NoTask]
          /\ \A s \in Threads : tpc'[s] = "paused" => tpc[s] = "paused" /\ s # t
      BY <1>0, <1>7 DEF Exit, ClearTask, ClearedTask, flagVars, historyVars
    <2> QED
      BY <1>0, <1>1, <1>2, <1>3, <1>4, <2>1 DEF SoleInv, IdleInv
  <1> QED
    BY <1>5, <1>6, <1>7 DEF ThreadProc

(* What NoTaskLost says, without sets of holders. *)
Kept ==
    \A k \in added :
        \/ k \in done \cup dropped
        \/ \E i \in 1..Len(m_qtaskList) : m_qtaskList[i] = k
        \/ \E c \in Callers : nextTask[c] = k
        \/ \E t \in Threads : m_ptask[t] = k

(* A step that moves no task keeps Kept. *)
LEMMA NothingForgotten ==
    ASSUME Kept, UNCHANGED <<m_qtaskList, nextTask, m_ptask, added>>,
           done \subseteq done', dropped \subseteq dropped'
    PROVE  Kept'
  BY DEF Kept

(* No step of a caller leaves a task behind: what it overwrites was run. *)
LEMMA KeptCaller ==
    ASSUME OneCaller, IInv, SoleInv, Kept, ~crashed, NEW c \in Callers,
           \/ Initialize(c)
           \/ \E k \in Tasks : AddTask(c, k)
           \/ Process(c)
           \/ ShutDown(c)
           \/ Continue(c)
    PROVE  Kept'
  <1> USE DEF Goto
  <1>0. /\ m_qtaskList \in Seq(Tasks)
        /\ m_ptask \in [Threads -> Tasks \cup {NoTask}]
        /\ nextTask \in [Callers -> Tasks \cup {NoTask}]
        /\ added \subseteq Tasks
    BY DEF IInv, TypeOK
  <1>1. ASSUME NEW k \in Tasks, AddTask(c, k) PROVE Kept'
    <2>1. /\ m_qtaskList' = Append(m_qtaskList, k)
          /\ added' = added \cup {k}
          /\ UNCHANGED <<nextTask, m_ptask, done, dropped>>
      BY <1>1 DEF AddTask, threadVars, callerVars
    <2>2. /\ Len(m_qtaskList') = Len(m_qtaskList) + 1 /\ Len(m_qtaskList) \in Nat
          /\ \A i \in 1..Len(m_qtaskList) : m_qtaskList'[i] = m_qtaskList[i]
          /\ m_qtaskList'[Len(m_qtaskList) + 1] = k
      BY <1>0, <2>1, AppendProperties
    <2> QED
      BY <2>1, <2>2 DEF Kept
  <1>2. CASE PopTask(c)
    <2>1. /\ m_qtaskList # << >> /\ cpc[c] = "assign"
          /\ nextTask' = [nextTask EXCEPT ![c] = Head(m_qtaskList)]
          /\ m_qtaskList' = Tail(m_qtaskList)
          /\ UNCHANGED <<m_ptask, added, done, dropped>>
      BY <1>2 DEF PopTask, Popped, threadVars, historyVars
    <2>2. /\ Len(m_qtaskList) \in Nat /\ Len(m_qtaskList) > 0
          /\ Head(m_qtaskList) = m_qtaskList[1]
          /\ Len(m_qtaskList') = Len(m_qtaskList) - 1
          /\ \A i \in 1..Len(m_qtaskList') : m_qtaskList'[i] = m_qtaskList[i + 1]
      BY <1>0, <2>1, HeadTailProperties
    <2>3. nextTask[c] = NoTask
      BY <2>1 DEF SoleInv, NextTaskInv
    <2> SUFFICES ASSUME NEW k \in added, k \notin done \cup dropped
                 PROVE  \/ \E i \in 1..Len(m_qtaskList') : m_qtaskList'[i] = k
                        \/ \E d \in Callers : nextTask'[d] = k
                        \/ \E t \in Threads : m_ptask[t] = k
      BY <2>1 DEF Kept
    <2>4. CASE \E i \in 1..Len(m_qtaskList) : m_qtaskList[i] = k
      <3>1. PICK i \in 1..Len(m_qtaskList) : m_qtaskList[i] = k
        BY <2>4
      <3>2. CASE i = 1
        BY <1>0, <2>1, <2>2, <3>1, <3>2
      <3>3. CASE i # 1
        <4>1. i - 1 \in 1..Len(m_qtaskList') /\ m_qtaskList'[i - 1] = k
          BY <2>2, <3>1, <3>3
        <4> QED
          BY <4>1
      <3> QED
        BY <3>2, <3>3
    <2>5. CASE \E d \in Callers : nextTask[d] = k
      BY <1>0, <2>1, <2>3, <2>5, NoTaskAssumption
    <2> QED
      BY <2>4, <2>5 DEF Kept
  <1>3. CASE SetTask(c)
    <2>1. /\ cpc[c] = "set_task"
          /\ m_ptask' = [m_ptask EXCEPT ![Slot(c)] = nextTask[c]]
          /\ nextTask' = [nextTask EXCEPT ![c] = NoTask]
          /\ UNCHANGED <<m_qtaskList, added, done, dropped>>
      BY <1>3 DEF SetTask, Slot, poolVars, historyVars
    <2>2. idx[c] \in 1..Len(dormant[c]) /\ Slot(c) \in Threads
      BY <2>1 DEF IInv, IndexInv, TypeOK, Slot
    <2>3. m_bpaused[Slot(c)]
      BY <2>1, <2>2 DEF SoleInv, DormantInv, Slot
    <2>4. m_ptask[Slot(c)] \in done \cup {NoTask}
      BY <2>1, <2>2, <2>3 DEF SoleInv, IdleInv, OneCaller
    <2> QED
      BY <1>0, <2>1, <2>2, <2>4, NoTaskAssumption DEF Kept
  <1>4. CASE DrainTask(c)
    <2>1. /\ m_qtaskList # << >>
          /\ dropped' = dropped \cup {Head(m_qtaskList)}
          /\ m_qtaskList' = Tail(m_qtaskList)
          /\ UNCHANGED <<m_ptask, nextTask, added, done>>
      BY <1>4 DEF DrainTask, threadVars, callerVars
    <2>2. /\ Len(m_qtaskList) \in Nat /\ Len(m_qtaskList) > 0
          /\ Head(m_qtaskList) = m_qtaskList[1]
          /\ Len(m_qtaskList') = Len(m_qtaskList) - 1
          /\ \A i \in 1..Len(m_qtaskList') : m_qtaskList'[i] = m_qtaskList[i + 1]
      BY <1>0, <2>1, HeadTailProperties
    <2>3. ASSUME NEW i \in 1..Len(m_qtaskList)
          PROVE  m_qtaskList[i] \in dropped'
                 \/ \E j \in 1..Len(m_qtaskList') : m_qtaskList'[j] = m_qtaskList[i]
      <3>1. CASE i = 1
        BY <2>1, <2>2, <3>1
      <3>2. CASE i # 1
        <4>1. i - 1 \in 1..Len(m_qtaskList') /\ m_qtaskList'[i - 1] = m_qtaskList[i]
          BY <2>2, <3>2
        <4> QED
          BY <4>1
      <3> QED
        BY <3>1, <3>2
    <2> QED
      BY <2>1, <2>3 DEF Kept
  <1>5. ASSUME \/ Initialize(c) \/ Process(c) \/ ShutDown(c) \/ CreateThread(c) \/ SetRunning(c)
               \/ InitializeReturns(c) \/ Scan(c) \/ ScanEnds(c) \/ LockThread(c)
               \/ ResumeUnlock(c) \/ ProcessReturns(c) \/ DrainEnds(c) \/ PopThread(c)
               \/ End(c) \/ Join(c) \/ Destroy(c) \/ ShutDownReturns(c)
        PROVE  Kept'
    <2>1. UNCHANGED <<m_qtaskList, nextTask, m_ptask, added, done, dropped>>
      BY <1>5 DEF Initialize, Process, ShutDown, CreateThread, SetRunning, InitializeReturns,
           Scan, ScanEnds, LockThread, ResumeUnlock, ProcessReturns, DrainEnds, PopThread, End,
           Join, Destroy, ShutDownReturns, poolVars, threadVars, flagVars, historyVars
    <2> QED
      BY <2>1, NothingForgotten
  <1> QED
    BY <1>1, <1>2, <1>3, <1>4, <1>5 DEF Continue

(* A pool thread clears its pointer when the task has run, or deletes the task. *)
LEMMA KeptThread ==
    ASSUME IInv, SoleInv, Kept, ~crashed, NEW t \in Threads, ThreadProc(t) \/ TaskReturns(t)
    PROVE  Kept'
  <1> USE DEF Step, poolVars, flagVars, callerVars, historyVars
  <1>0. m_ptask \in [Threads -> Tasks \cup {NoTask}] /\ added \subseteq Tasks
    BY DEF IInv, TypeOK
  <1>1. CASE While(t) \/ Poll(t) \/ TakeTask(t) \/ TaskReturns(t)
    <2>1. /\ UNCHANGED <<m_qtaskList, nextTask, m_ptask, added, dropped>>
          /\ done \subseteq done'
      BY <1>1 DEF While, Poll, TakeTask, TaskReturns
    <2> QED
      BY <2>1, NothingForgotten
  <1>2. CASE Exit(t)
    BY <1>0, <1>2, NoTaskAssumption DEF Exit, Kept
  <1>3. CASE ClearTask(t)
    <2>1. m_ptask[t] \in done
      BY <1>3 DEF ClearTask, SoleInv, IdleInv
    <2> QED
      BY <1>0, <1>3, <2>1, NoTaskAssumption DEF ClearTask, ClearedTask, Kept
  <1> QED
    BY <1>1, <1>2, <1>3 DEF ThreadProc

(* Each step of the pool keeps what one caller can rely on. *)
LEMMA SoleStep == OneCaller /\ IInv /\ SoleInv /\ [Next]_vars => SoleInv'
  <1> SUFFICES ASSUME OneCaller, IInv, SoleInv, [Next]_vars PROVE SoleInv'
    OBVIOUS
  <1>1. CASE UNCHANGED vars
    <2>1. \A c \in Callers : Slot(c)' = Slot(c)
      BY <1>1 DEF Slot, vars, callerVars
    <2> QED
      BY <1>1, <2>1 DEF SoleInv, VectorInv, DormantInv, IdleInv, NextTaskInv, Filled, vars,
                        poolVars, flagVars, threadVars, callerVars, historyVars
  <1> QED
    BY <1>1, VectorCaller, DormantCaller, IdleCaller, SoleThread DEF SoleInv, Next

(* Each step of the pool keeps every task. *)
LEMMA KeptStep == OneCaller /\ IInv /\ SoleInv /\ Kept /\ [Next]_vars => Kept'
  <1> SUFFICES ASSUME OneCaller, IInv, SoleInv, Kept, [Next]_vars PROVE Kept'
    OBVIOUS
  <1>1. CASE UNCHANGED vars
    BY <1>1, NothingForgotten DEF vars, poolVars, threadVars, callerVars, historyVars
  <1> QED
    BY <1>1, KeptCaller, KeptThread DEF Next

(* What is kept has a holder. *)
LEMMA KeptHasHolder == Kept => NoTaskLost
  <1> SUFFICES ASSUME Kept, NEW k \in added, k \notin done \cup dropped
               PROVE  Holders(k) # {}
    BY DEF NoTaskLost
  <1>1. ASSUME NEW i \in 1..Len(m_qtaskList), m_qtaskList[i] = k PROVE Holders(k) # {}
    <2>1. <<"queue", i>> \in Holders(k)
      BY <1>1 DEF Holders
    <2> QED
      BY <2>1
  <1>2. ASSUME NEW c \in Callers, nextTask[c] = k PROVE Holders(k) # {}
    <2>1. <<"caller", c>> \in Holders(k)
      BY <1>2 DEF Holders
    <2> QED
      BY <2>1
  <1>3. ASSUME NEW t \in Threads, m_ptask[t] = k PROVE Holders(k) # {}
    <2>1. <<"thread", t>> \in Holders(k)
      BY <1>3 DEF Holders
    <2> QED
      BY <2>1
  <1> QED
    BY <1>1, <1>2, <1>3 DEF Kept

(* With one caller, no task gets lost between add_task and its run or its  *)
(* deletion, whatever pthread_create returns. *)
THEOREM TaskNeverLost == ASSUME OneCaller PROVE Spec => []NoTaskLost
  <1>1. Init => SoleInv /\ Kept
    BY SoleInit DEF Init, Kept
  <1>2. IInv /\ SoleInv /\ [Next]_vars => SoleInv'
    BY SoleStep
  <1>3. IInv /\ SoleInv /\ Kept /\ [Next]_vars => Kept'
    BY KeptStep
  <1> QED
    BY <1>1, <1>2, <1>3, KeptHasHolder, Invariant, PTL DEF Spec

(* With one caller, process() meets no slot that initialize has not filled: *)
(* the null pointers of the vector are never followed. *)
THEOREM NoNullSlot ==
    ASSUME OneCaller
    PROVE  Spec => [](\A c \in Callers : cpc[c] = "scan" /\ idx[c] <= Len(m_vthreads)
                                            => m_vthreads[idx[c]] # NoThread)
  <1>1. Init => SoleInv
    BY SoleInit
  <1>2. IInv /\ SoleInv /\ [Next]_vars => SoleInv'
    BY SoleStep
  <1>3. IInv /\ SoleInv =>
          \A c \in Callers : cpc[c] = "scan" /\ idx[c] <= Len(m_vthreads)
                                => m_vthreads[idx[c]] # NoThread
    <2> SUFFICES ASSUME IInv, SoleInv, NEW c \in Callers, cpc[c] = "scan",
                        idx[c] <= Len(m_vthreads)
                 PROVE  m_vthreads[idx[c]] # NoThread
      OBVIOUS
    <2>1. idx[c] \in 1..Len(m_vthreads) /\ idx[c] # 0
      BY DEF IInv, TypeOK
    <2>2. \A i \in 1..Len(m_vthreads) : m_vthreads[i] = i
      BY DEF SoleInv, VectorInv
    <2> QED
      BY <2>1, <2>2 DEF NoThread
  <1> QED
    BY <1>1, <1>2, <1>3, Invariant, PTL DEF Spec

-----------------------------------------------------------------------------

(* A thread that was created and has not ended.                            *)
Live(t) == tpc[t] \in {"while", "poll", "lock", "run", "paused"}

(* A live thread is in the vector, or in the hands of initialize or of     *)
(* shut_down.                                                              *)
LiveInv ==
    \A t \in Threads :
        Live(t) => \/ t \in 1..Len(m_vthreads) /\ m_vthreads[t] = t
                   \/ \E c \in Callers : cpc[c] = "begin" /\ idx[c] = t
                   \/ \E c \in Callers : cpc[c] \in {"end", "join"} /\ delthread[c] = t

(* initialize puts each thread into the vector, and shut_down joins each   *)
(* that it takes out. *)
LEMMA LiveCaller ==
    ASSUME OneCaller, IInv, VectorInv, LiveInv, ~crashed, NEW c \in Callers,
           \/ Initialize(c)
           \/ \E k \in Tasks : AddTask(c, k)
           \/ Process(c)
           \/ ShutDown(c)
           \/ Continue(c)
    PROVE  LiveInv'
  <1> USE DEF Goto, Threads
  <1>0. /\ \A d \in Callers : d = c
        /\ m_vthreads \in Seq(Threads \cup {NoThread}) /\ Len(m_vthreads) \in Nat
        /\ idx \in [Callers -> Nat \ {0}]
        /\ delthread \in [Callers -> Threads \cup {NoThread}]
        /\ tpc \in [Threads -> {"unborn", "failed", "while", "poll", "lock", "run",
                            "paused", "exited", "freed"}]
        /\ cpc \in [Callers -> {"client", "initialize", "begin", "scan", "assign",
                            "lock", "set_task", "resume", "drain", "pop_thread",
                            "end", "join", "destroy"}]
        /\ MinThreads \in Nat /\ MaxThreads \in Nat
    BY ThreadsAssumption DEF OneCaller, IInv, TypeOK
  <1>1. CASE Initialize(c)
    BY <1>1 DEF Initialize, LiveInv, Live, threadVars
  <1>2. CASE CreateThread(c)
    <2>1. /\ cpc[c] = "initialize" /\ cpc' = [cpc EXCEPT ![c] = "begin"]
          /\ UNCHANGED <<idx, delthread>>
          /\ tpc' \in {[tpc EXCEPT ![idx[c]] = "while"], [tpc EXCEPT ![idx[c]] = "failed"]}
          /\ m_vthreads' \in {m_vthreads, [m_vthreads EXCEPT ![idx[c]] = idx[c]]}
      BY <1>2 DEF CreateThread
    <2>2. \A t \in Threads : t # idx[c] =>
             /\ tpc'[t] = tpc[t]
             /\ t \in 1..Len(m_vthreads) => t \in 1..Len(m_vthreads') /\ m_vthreads'[t] = m_vthreads[t]
      BY <1>0, <2>1
    <2>3. \A t \in Threads : Live(t) =>
             t \in 1..Len(m_vthreads) /\ m_vthreads[t] = t
      BY <1>0, <2>1 DEF LiveInv
    <2> QED
      BY <1>0, <2>1, <2>2, <2>3 DEF LiveInv, Live
  <1>3. CASE SetRunning(c)
    <2>1. /\ idx' = [idx EXCEPT ![c] = @ + 1] /\ cpc[c] = "begin"
          /\ cpc' = [cpc EXCEPT ![c] = "initialize"] /\ UNCHANGED <<tpc, delthread>>
          /\ m_vthreads' = IF idx[c] <= MinThreads THEN m_vthreads ELSE Append(m_vthreads, idx[c])
      BY <1>3 DEF SetRunning
    <2>2. CASE idx[c] <= MinThreads
      <3>1. idx[c] \in 1..Len(m_vthreads) /\ m_vthreads[idx[c]] = idx[c]
        BY <1>0, <2>1, <2>2 DEF VectorInv, Filled
      <3> QED
        BY <1>0, <2>1, <2>2, <3>1 DEF LiveInv, Live
    <2>3. CASE idx[c] > MinThreads
      <3>1. m_vthreads' = Append(m_vthreads, idx[c]) /\ Len(m_vthreads) = idx[c] - 1
        BY <1>0, <2>1, <2>3 DEF VectorInv
      <3>2. /\ Len(m_vthreads') = Len(m_vthreads) + 1
            /\ \A i \in 1..Len(m_vthreads) : m_vthreads'[i] = m_vthreads[i]
            /\ m_vthreads'[Len(m_vthreads) + 1] = idx[c]
        BY <3>1, <1>0, AppendProperties
      <3>3. idx[c] \in 1..Len(m_vthreads') /\ m_vthreads'[idx[c]] = idx[c]
        BY <1>0, <3>1, <3>2
      <3> QED
        BY <1>0, <2>1, <3>2, <3>3 DEF LiveInv, Live
    <2> QED
      BY <1>0, <2>2, <2>3
  <1>4. CASE PopThread(c)
    <2> DEFINE n == Len(m_vthreads)
    <2>1. /\ m_vthreads # << >> /\ m_vthreads' = SubSeq(m_vthreads, 1, n - 1)
          /\ cpc[c] = "pop_thread" /\ cpc' = [cpc EXCEPT ![c] = "end"]
          /\ delthread' = [delthread EXCEPT ![c] = m_vthreads[n]]
          /\ UNCHANGED <<tpc, idx>>
      BY <1>4 DEF PopThread, threadVars
    <2>2. n \in Nat \ {0}
      BY <1>0, <2>1, EmptySeq
    <2>3. Len(m_vthreads') = n - 1 /\ \A i \in 1..(n - 1) : m_vthreads'[i] = m_vthreads[i]
      BY <2>1, <1>0, <2>2, ButLast
    <2>4. delthread'[c] = n
      BY <1>0, <2>1, <2>2 DEF VectorInv
    <2> HIDE DEF n
    <2> SUFFICES ASSUME NEW t \in Threads, Live(t)'
                 PROVE  \/ t \in 1..Len(m_vthreads') /\ m_vthreads'[t] = t
                        \/ cpc'[c] \in {"end", "join"} /\ delthread'[c] = t
      BY DEF LiveInv
    <2>5. t \in 1..n /\ m_vthreads[t] = t
      BY <1>0, <2>1 DEF LiveInv, Live, n
    <2> QED
      BY <1>0, <2>1, <2>2, <2>3, <2>4, <2>5
  <1>5. CASE Join(c)
    <2>1. /\ cpc[c] = "join" /\ tpc[delthread[c]] \in {"exited", "failed"}
          /\ cpc' = [cpc EXCEPT ![c] = "destroy"]
          /\ UNCHANGED <<m_vthreads, tpc, idx, delthread>>
      BY <1>5 DEF Join, Joinable, poolVars, threadVars
    <2> QED
      BY <1>0, <2>1 DEF LiveInv, Live
  <1>6. CASE Destroy(c)
    <2>1. /\ cpc[c] = "destroy" /\ tpc' = [tpc EXCEPT ![delthread[c]] = "freed"]
          /\ cpc' = [cpc EXCEPT ![c] = "pop_thread"]
          /\ UNCHANGED <<m_vthreads, idx>>
      BY <1>6 DEF Destroy, poolVars
    <2> QED
      BY <1>0, <2>1 DEF LiveInv, Live
  <1>7. CASE End(c)
    <2>1. /\ cpc[c] = "end" /\ cpc' = [cpc EXCEPT ![c] = "join"]
          /\ UNCHANGED <<m_vthreads, tpc, idx, delthread>>
      BY <1>7 DEF End, poolVars
    <2> QED
      BY <1>0, <2>1 DEF LiveInv, Live
  <1>8. ASSUME \/ \E k \in Tasks : AddTask(c, k)
               \/ Process(c) \/ ShutDown(c) \/ InitializeReturns(c) \/ Scan(c) \/ ScanEnds(c)
               \/ PopTask(c) \/ LockThread(c) \/ SetTask(c) \/ ResumeUnlock(c)
               \/ ProcessReturns(c) \/ DrainTask(c) \/ DrainEnds(c) \/ ShutDownReturns(c)
        PROVE  LiveInv'
    <2>1. UNCHANGED <<m_vthreads, tpc>> /\ cpc[c] \notin {"begin", "end", "join"}
      BY <1>0, <1>8 DEF AddTask, Process, ShutDown, InitializeReturns, Scan, ScanEnds, PopTask,
           LockThread, SetTask, ResumeUnlock, ProcessReturns, DrainTask, DrainEnds,
           ShutDownReturns, poolVars, threadVars, callerVars
    <2> QED
      BY <1>0, <2>1 DEF LiveInv, Live
  <1> QED
    BY <1>1, <1>2, <1>3, <1>4, <1>5, <1>6, <1>7, <1>8 DEF Continue

(* Each step of the pool keeps the live threads where shut_down finds them. *)
LEMMA LiveStep == OneCaller /\ IInv /\ SoleInv /\ LiveInv /\ [Next]_vars => LiveInv'
  <1> SUFFICES ASSUME OneCaller, IInv, SoleInv, LiveInv, [Next]_vars PROVE LiveInv'
    OBVIOUS
  <1>1. CASE UNCHANGED vars
    BY <1>1 DEF LiveInv, Live, vars, poolVars, threadVars, callerVars
  <1>2. ASSUME NEW t \in Threads, ThreadProc(t) \/ TaskReturns(t) PROVE LiveInv'
    <2>1. /\ UNCHANGED <<m_vthreads, cpc, idx, delthread>>
          /\ \A s \in Threads : Live(s)' => Live(s)
      BY <1>2 DEF ThreadProc, While, Exit, Poll, TakeTask, ClearTask, TaskReturns, Step, Live,
           poolVars, callerVars, IInv, TypeOK
    <2> QED
      BY <2>1 DEF LiveInv
  <1> QED
    BY <1>1, <1>2, LiveCaller DEF SoleInv, Next

=============================================================================
