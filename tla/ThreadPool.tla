----------------------------- MODULE ThreadPool -----------------------------
(***************************************************************************)
(* The pool of worker threads (src/backup/thread_pool.cpp) and one thread  *)
(* of it (src/backup/sys_thread.cpp), Linux build.                         *)
(*                                                                         *)
(* The pool has no scheduler of its own.  A task that was queued with      *)
(* add_task is handed to a thread only inside a call of process(), by the  *)
(* thread that calls it; the pool thread polls its m_bpaused flag.  The    *)
(* flags m_brunning and m_bpaused are read and written without a lock,     *)
(* and m_lock protects m_ptask.                                            *)
(*                                                                         *)
(* A sys_thread object is named by its rank of creation.  The callers are  *)
(* the threads of the program that use the pool; Spec lets them call it in *)
(* any way, the modules that extend this one say how they really do.       *)
(***************************************************************************)
EXTENDS Naturals, Sequences, FiniteSets

CONSTANTS
    Callers,            \* the program's threads that call the pool
    Tasks,              \* the task_t objects that are ever allocated
    NoTask,             \* the null task_t pointer
    MinThreads,         \* arguments of initialize
    MaxThreads,
    CreateMayFail       \* may pthread_create return an error?

ASSUME ThreadsAssumption ==
    MinThreads \in Nat /\ MaxThreads \in Nat /\ MinThreads <= MaxThreads
ASSUME NoTaskAssumption == NoTask \notin Tasks
ASSUME OwnersAssumption == Callers \cap {"self", "free"} = {}
ASSUME CreateAssumption == CreateMayFail \in BOOLEAN

Threads == 1..MaxThreads
NoThread == 0           \* the null sys_thread pointer

VARIABLES
    (* the pool *)
    m_qtaskList,        \* queue of tasks not yet handed out
    m_vthreads,         \* vector of threads, null where not yet created
    m_nactive,          \* threads counted by initialize
    m_ndormant,         \* idle threads counted by the last process()
    (* each thread object *)
    m_brunning,
    m_bpaused,
    m_ptask,
    m_lock,             \* "free", "self" (the thread itself) or a caller
    tpc,                \* control point of the thread
    (* each caller *)
    cpc,                \* control point, "client" outside the pool
    idx,                \* local i
    dormant,            \* local pDormantThreads, filled part
    nextTask,           \* local nextTask
    delthread,          \* local delthread
    (* history *)
    added,              \* tasks given to add_task
    done,               \* tasks whose function has returned
    dropped,            \* tasks deleted without being run
    crashed             \* undefined behaviour ended the process

poolVars == <<m_qtaskList, m_vthreads, m_nactive, m_ndormant>>
flagVars == <<m_brunning, m_bpaused>>
threadVars == <<flagVars, m_ptask, m_lock, tpc>>
callerVars == <<cpc, idx, dormant, nextTask, delthread>>
historyVars == <<added, done, dropped>>
vars == <<poolVars, threadVars, callerVars, historyVars, crashed>>

Init ==
    /\ m_qtaskList = << >>
    /\ m_vthreads = << >>
    /\ m_nactive = 0
    /\ m_ndormant = 0
    /\ m_brunning = [t \in Threads |-> FALSE]
    /\ m_bpaused = [t \in Threads |-> TRUE]
    /\ m_ptask = [t \in Threads |-> NoTask]
    /\ m_lock = [t \in Threads |-> "free"]
    /\ tpc = [t \in Threads |-> "unborn"]
    /\ cpc = [c \in Callers |-> "client"]
    /\ idx = [c \in Callers |-> 1]
    /\ dormant = [c \in Callers |-> << >>]
    /\ nextTask = [c \in Callers |-> NoTask]
    /\ delthread = [c \in Callers |-> NoThread]
    /\ added = {}
    /\ done = {}
    /\ dropped = {}
    /\ crashed = FALSE

-----------------------------------------------------------------------------
(* Seeded faults.                                                          *)

RunningOnly(t) == m_brunning[t]
FrontNotPopped(q) == q
LeavesTaskPointer(t) == m_ptask[t]
StillRunning(b) == b
NotJoined(t) == TRUE

-----------------------------------------------------------------------------
(* Helpers.                                                                *)

(* The scan of process(): "runnable, and waiting for a task".              *)
Dormant(t) == m_brunning[t] /\ m_bpaused[t]

LockIsFree(t) == m_lock[t] = "free"

(* m_qtaskList.pop() *)
Popped(q) == Tail(q)

(* The pointer a thread keeps after it deleted its task.                   *)
ClearedTask(t) == NoTask

(* The local d: decremented once for each task handed out.                 *)
DormantLeft(c) == Len(dormant[c]) - (idx[c] - 1)

(* m_brunning as end() leaves it.                                          *)
Ended(b) == FALSE

(* pthread_join can return.                                                *)
Joinable(t) == tpc[t] = "exited"

Goto(c, here, there) ==
    /\ cpc[c] = here
    /\ cpc' = [cpc EXCEPT ![c] = there]

Step(t, here, there) ==
    /\ tpc[t] = here
    /\ tpc' = [tpc EXCEPT ![t] = there]

-----------------------------------------------------------------------------
(* initialize: one thread after the other.  The first MinThreads slots of  *)
(* the vector exist, null, before any thread does.                         *)

Initialize(c) ==
    /\ Goto(c, "client", "initialize")
    /\ \A t \in Threads : tpc[t] = "unborn"
    /\ m_vthreads = << >>
    /\ m_vthreads' = [k \in 1..MinThreads |-> NoThread]
    /\ idx' = [idx EXCEPT ![c] = 1]
    /\ UNCHANGED <<m_qtaskList, m_nactive, m_ndormant, threadVars, dormant,
                   nextTask, delthread, historyVars, crashed>>

(* new sys_thread, and begin() up to the return of pthread_create: the new *)
(* thread may run from here on.  An error of pthread_create is a positive  *)
(* number, which the test against -1 does not see.  (A shut_down of another *)
(* caller may have taken the slot away.)                                   *)
CreateThread(c) ==
    /\ idx[c] <= MaxThreads
    /\ Goto(c, "initialize", "begin")
    /\ tpc[idx[c]] = "unborn"
    /\ \/ tpc' = [tpc EXCEPT ![idx[c]] = "while"]
       \/ CreateMayFail /\ tpc' = [tpc EXCEPT ![idx[c]] = "failed"]
    /\ m_vthreads' = IF idx[c] <= MinThreads /\ idx[c] <= Len(m_vthreads)
                       THEN [m_vthreads EXCEPT ![idx[c]] = idx[c]]
                       ELSE m_vthreads
    /\ crashed' = (idx[c] <= MinThreads /\ idx[c] > Len(m_vthreads))
    /\ UNCHANGED <<m_qtaskList, m_nactive, m_ndormant, flagVars, m_ptask, m_lock,
                   idx, dormant, nextTask, delthread, historyVars>>

(* The rest of begin(), and the counting in initialize.                    *)
SetRunning(c) ==
    /\ Goto(c, "begin", "initialize")
    /\ m_brunning' = [m_brunning EXCEPT ![idx[c]] = TRUE]
    /\ m_nactive' = m_nactive + 1
    /\ m_vthreads' = IF idx[c] <= MinThreads
                       THEN m_vthreads
                       ELSE Append(m_vthreads, idx[c])
    /\ idx' = [idx EXCEPT ![c] = @ + 1]
    /\ UNCHANGED <<m_qtaskList, m_ndormant, m_bpaused, m_ptask, m_lock, tpc,
                   dormant, nextTask, delthread, historyVars, crashed>>

InitializeReturns(c) ==
    /\ idx[c] > MaxThreads
    /\ Goto(c, "initialize", "client")
    /\ UNCHANGED <<poolVars, threadVars, idx, dormant, nextTask, delthread,
                   historyVars, crashed>>

-----------------------------------------------------------------------------

AddTask(c, k) ==
    /\ cpc[c] = "client"
    /\ k \notin added
    /\ added' = added \cup {k}
    /\ m_qtaskList' = Append(m_qtaskList, k)
    /\ UNCHANGED <<m_vthreads, m_nactive, m_ndormant, threadVars, callerVars,
                   done, dropped, crashed>>

-----------------------------------------------------------------------------
(* process                                                                 *)

Process(c) ==
    /\ Goto(c, "client", "scan")
    /\ idx' = [idx EXCEPT ![c] = 1]
    /\ dormant' = [dormant EXCEPT ![c] = << >>]
    /\ UNCHANGED <<poolVars, threadVars, nextTask, delthread, historyVars, crashed>>

(* One round of the scan; a slot that initialize has not filled yet is a   *)
(* null pointer.                                                           *)
Scan(c) ==
    /\ cpc[c] = "scan"
    /\ idx[c] <= Len(m_vthreads)
    /\ LET t == m_vthreads[idx[c]] IN
         IF t = NoThread
           THEN crashed' = TRUE /\ UNCHANGED <<idx, dormant>>
           ELSE /\ dormant' = IF Dormant(t)
                                THEN [dormant EXCEPT ![c] = Append(@, t)]
                                ELSE dormant
                /\ idx' = [idx EXCEPT ![c] = @ + 1]
                /\ UNCHANGED crashed
    /\ UNCHANGED <<poolVars, threadVars, cpc, nextTask, delthread, historyVars>>

ScanEnds(c) ==
    /\ idx[c] > Len(m_vthreads)
    /\ Goto(c, "scan", "assign")
    /\ idx' = [idx EXCEPT ![c] = 1]
    /\ UNCHANGED <<poolVars, threadVars, dormant, nextTask, delthread,
                   historyVars, crashed>>

PopTask(c) ==
    /\ Goto(c, "assign", "lock")
    /\ idx[c] <= Len(dormant[c])
    /\ m_qtaskList # << >>
    /\ nextTask' = [nextTask EXCEPT ![c] = Head(m_qtaskList)]
    /\ m_qtaskList' = Popped(m_qtaskList)
    /\ UNCHANGED <<m_vthreads, m_nactive, m_ndormant, threadVars, idx, dormant,
                   delthread, historyVars, crashed>>

LockThread(c) ==
    LET t == dormant[c][idx[c]] IN
    /\ Goto(c, "lock", "set_task")
    /\ LockIsFree(t)
    /\ m_lock' = [m_lock EXCEPT ![t] = c]
    /\ crashed' = (tpc[t] = "freed")
    /\ UNCHANGED <<poolVars, flagVars, m_ptask, tpc, idx, dormant, nextTask,
                   delthread, historyVars>>

SetTask(c) ==
    LET t == dormant[c][idx[c]] IN
    /\ Goto(c, "set_task", "resume")
    /\ m_ptask' = [m_ptask EXCEPT ![t] = nextTask[c]]
    /\ nextTask' = [nextTask EXCEPT ![c] = NoTask]
    /\ UNCHANGED <<poolVars, flagVars, m_lock, tpc, idx, dormant, delthread,
                   historyVars, crashed>>

ResumeUnlock(c) ==
    LET t == dormant[c][idx[c]] IN
    /\ Goto(c, "resume", "assign")
    /\ m_bpaused' = [m_bpaused EXCEPT ![t] = FALSE]
    /\ m_lock' = [m_lock EXCEPT ![t] = "free"]
    /\ idx' = [idx EXCEPT ![c] = @ + 1]
    /\ UNCHANGED <<poolVars, m_brunning, m_ptask, tpc, dormant, nextTask,
                   delthread, historyVars, crashed>>

ProcessReturns(c) ==
    /\ Goto(c, "assign", "client")
    /\ idx[c] > Len(dormant[c]) \/ m_qtaskList = << >>
    /\ m_ndormant' = DormantLeft(c)
    /\ UNCHANGED <<m_qtaskList, m_vthreads, m_nactive, threadVars, idx, dormant,
                   nextTask, delthread, historyVars, crashed>>

-----------------------------------------------------------------------------
(* shut_down                                                               *)

ShutDown(c) ==
    /\ Goto(c, "client", "drain")
    /\ UNCHANGED <<poolVars, threadVars, idx, dormant, nextTask, delthread,
                   historyVars, crashed>>

DrainTask(c) ==
    /\ cpc[c] = "drain"
    /\ m_qtaskList # << >>
    /\ m_qtaskList' = Tail(m_qtaskList)
    /\ dropped' = dropped \cup {Head(m_qtaskList)}
    /\ UNCHANGED <<m_vthreads, m_nactive, m_ndormant, threadVars, callerVars,
                   added, done, crashed>>

DrainEnds(c) ==
    /\ m_qtaskList = << >>
    /\ Goto(c, "drain", "pop_thread")
    /\ UNCHANGED <<poolVars, threadVars, idx, dormant, nextTask, delthread,
                   historyVars, crashed>>

PopThread(c) ==
    LET n == Len(m_vthreads) IN
    /\ m_vthreads # << >>
    /\ Goto(c, "pop_thread", "end")
    /\ delthread' = [delthread EXCEPT ![c] = m_vthreads[n]]
    /\ m_vthreads' = SubSeq(m_vthreads, 1, n - 1)
    /\ UNCHANGED <<m_qtaskList, m_nactive, m_ndormant, threadVars, idx, dormant,
                   nextTask, historyVars, crashed>>

(* end(): m_brunning = false; pthread_join.                                *)
End(c) ==
    LET t == delthread[c] IN
    /\ Goto(c, "end", "join")
    /\ IF t = NoThread
         THEN crashed' = TRUE /\ UNCHANGED m_brunning
         ELSE /\ m_brunning' = [m_brunning EXCEPT ![t] = Ended(@)]
              /\ UNCHANGED crashed
    /\ UNCHANGED <<poolVars, m_bpaused, m_ptask, m_lock, tpc, idx, dormant,
                   nextTask, delthread, historyVars>>

(* Joining a handle that pthread_create never filled in is undefined: the  *)
(* call returns an error or faults.                                        *)
Join(c) ==
    LET t == delthread[c] IN
    /\ Goto(c, "join", "destroy")
    /\ \/ Joinable(t) /\ UNCHANGED crashed
       \/ tpc[t] = "failed" /\ crashed' \in BOOLEAN
    /\ UNCHANGED <<poolVars, threadVars, idx, dormant, nextTask, delthread,
                   historyVars>>

(* delete: the destructor calls end() once more, and pthread_join of a     *)
(* joined thread is undefined too.                                         *)
Destroy(c) ==
    LET t == delthread[c] IN
    /\ Goto(c, "destroy", "pop_thread")
    /\ tpc' = [tpc EXCEPT ![t] = "freed"]
    /\ crashed' \in BOOLEAN
    /\ delthread' = [delthread EXCEPT ![c] = NoThread]
    /\ UNCHANGED <<poolVars, flagVars, m_ptask, m_lock, idx, dormant, nextTask,
                   historyVars>>

ShutDownReturns(c) ==
    /\ m_vthreads = << >>
    /\ Goto(c, "pop_thread", "client")
    /\ UNCHANGED <<poolVars, threadVars, idx, dormant, nextTask, delthread,
                   historyVars, crashed>>

-----------------------------------------------------------------------------
(* ThreadProc                                                              *)

While(t) ==
    /\ m_brunning[t]
    /\ Step(t, "while", "poll")
    /\ UNCHANGED <<poolVars, flagVars, m_ptask, m_lock, callerVars, historyVars,
                   crashed>>

(* The loop ends: a task that was set and not begun is deleted, without    *)
(* the lock.                                                               *)
Exit(t) ==
    /\ ~m_brunning[t]
    /\ Step(t, "while", "exited")
    /\ dropped' = dropped \cup ({m_ptask[t]} \ {NoTask})
    /\ m_ptask' = [m_ptask EXCEPT ![t] = NoTask]
    /\ UNCHANGED <<poolVars, flagVars, m_lock, callerVars, added, done, crashed>>

(* After the sleep: if(!m_bpaused).                                        *)
Poll(t) ==
    /\ \/ m_bpaused[t] /\ Step(t, "poll", "while")
       \/ ~m_bpaused[t] /\ Step(t, "poll", "lock")
    /\ UNCHANGED <<poolVars, flagVars, m_ptask, m_lock, callerVars, historyVars,
                   crashed>>

TakeTask(t) ==
    /\ Step(t, "lock", "run")
    /\ LockIsFree(t)
    /\ m_lock' = [m_lock EXCEPT ![t] = "self"]
    /\ crashed' = (m_ptask[t] = NoTask)
    /\ UNCHANGED <<poolVars, flagVars, m_ptask, callerVars, historyVars>>

(* The task function returns, and the thread declares itself idle while it *)
(* still holds its lock.                                                   *)
TaskReturns(t) ==
    /\ Step(t, "run", "paused")
    /\ m_bpaused' = [m_bpaused EXCEPT ![t] = TRUE]
    /\ done' = done \cup {m_ptask[t]}
    /\ UNCHANGED <<poolVars, m_brunning, m_ptask, m_lock, callerVars, added,
                   dropped, crashed>>

ClearTask(t) ==
    /\ Step(t, "paused", "while")
    /\ m_ptask' = [m_ptask EXCEPT ![t] = ClearedTask(t)]
    /\ m_lock' = [m_lock EXCEPT ![t] = "free"]
    /\ UNCHANGED <<poolVars, flagVars, callerVars, historyVars, crashed>>

-----------------------------------------------------------------------------

(* Steps of a caller inside the pool, after the call.                      *)
Continue(c) ==
    \/ CreateThread(c)
    \/ SetRunning(c)
    \/ InitializeReturns(c)
    \/ Scan(c)
    \/ ScanEnds(c)
    \/ PopTask(c)
    \/ LockThread(c)
    \/ SetTask(c)
    \/ ResumeUnlock(c)
    \/ ProcessReturns(c)
    \/ DrainTask(c)
    \/ DrainEnds(c)
    \/ PopThread(c)
    \/ End(c)
    \/ Join(c)
    \/ Destroy(c)
    \/ ShutDownReturns(c)

(* Steps of a thread outside its task.                                     *)
ThreadProc(t) ==
    \/ While(t)
    \/ Exit(t)
    \/ Poll(t)
    \/ TakeTask(t)
    \/ ClearTask(t)

Next ==
    /\ ~crashed
    /\ \/ \E c \in Callers :
            \/ Initialize(c)
            \/ \E k \in Tasks : AddTask(c, k)
            \/ Process(c)
            \/ ShutDown(c)
            \/ Continue(c)
       \/ \E t \in Threads : ThreadProc(t) \/ TaskReturns(t)

Spec == Init /\ [][Next]_vars

-----------------------------------------------------------------------------

(* Every variable stays in its type. *)
TypeOK ==
    /\ m_qtaskList \in Seq(Tasks)
    /\ m_vthreads \in Seq(Threads \cup {NoThread})
    /\ m_nactive \in Nat
    /\ m_ndormant \in Nat
    /\ m_brunning \in [Threads -> BOOLEAN]
    /\ m_bpaused \in [Threads -> BOOLEAN]
    /\ m_ptask \in [Threads -> Tasks \cup {NoTask}]
    /\ m_lock \in [Threads -> Callers \cup {"self", "free"}]
    /\ tpc \in [Threads -> {"unborn", "failed", "while", "poll", "lock", "run",
                            "paused", "exited", "freed"}]
    /\ cpc \in [Callers -> {"client", "initialize", "begin", "scan", "assign",
                            "lock", "set_task", "resume", "drain", "pop_thread",
                            "end", "join", "destroy"}]
    /\ idx \in [Callers -> Nat \ {0}]
    /\ dormant \in [Callers -> Seq(Threads)]
    /\ nextTask \in [Callers -> Tasks \cup {NoTask}]
    /\ delthread \in [Callers -> Threads \cup {NoThread}]
    /\ added \subseteq Tasks
    /\ done \subseteq Tasks
    /\ dropped \subseteq Tasks
    /\ crashed \in BOOLEAN

(* A thread that saw m_bpaused = false, without a lock, finds a task: the  *)
(* pointer it is about to dereference is not null ("for bug : m_ptask =    *)
(* NULL", says the trace line of ThreadProc).                              *)
TaskPointerNotNull ==
    \A t \in Threads : tpc[t] \in {"lock", "run"} => m_ptask[t] # NoTask

(* Where a task is: in the queue, in the hands of a caller, or set in a    *)
(* thread.                                                                 *)
Holders(k) ==
    {<<"queue", i>> : i \in {j \in 1..Len(m_qtaskList) : m_qtaskList[j] = k}}
        \cup {<<"caller", c>> : c \in {d \in Callers : nextTask[d] = k}}
        \cup {<<"thread", t>> : t \in {s \in Threads : m_ptask[s] = k}}

(* A task is handed over, never shared: two places of the pool never hold  *)
(* the same task, and none holds one that was deleted unrun or, but for    *)
(* the thread that is about to delete it, one that has run.  So no task    *)
(* runs twice and none is used or deleted after its deletion.              *)
TaskHeldOnce ==
    \A k \in added :
        /\ Cardinality(Holders(k)) <= 1
        /\ k \in dropped => Holders(k) = {}
        /\ k \in done =>
             Holders(k) \subseteq {<<"thread", t>> : t \in {s \in Threads : tpc[s] = "paused"}}

(* No task gets lost: what was added has run, was deleted by a shut-down,  *)
(* or is still held by the pool.                                           *)
NoTaskLost ==
    \A k \in added : k \in done \cup dropped \/ Holders(k) # {}

=============================================================================
