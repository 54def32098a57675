----------------------------- MODULE PoolDriver -----------------------------
(***************************************************************************)
(* The programs that the repository tests its thread pool with             *)
(* (src/backup/main_thread.cpp, main_msg.cpp): queue all tasks, call       *)
(* process() until no thread is busy, shut the pool down.  In main_msg.cpp *)
(* the other tasks post messages, and one task reads them and does not     *)
(* return (MsgQueue has the messages and their reader).                    *)
(***************************************************************************)
EXTENDS ThreadPool

CONSTANTS
    main,               \* the one thread that calls the pool
    Readers             \* the tasks one of which may be the reader

ASSUME MainAssumption == Callers = {main}
ASSUME ReadersAssumption == Readers \subseteq Tasks

VARIABLES
    mainpc,             \* control point of main()
    reader              \* the task that does not return, none in main_thread.cpp

driverVars == <<vars, mainpc, reader>>

DriverInit ==
    /\ Init
    /\ mainpc = "initialize"
    /\ reader \in Readers \cup {NoTask}

MainGoto(here, there) == mainpc = here /\ mainpc' = there /\ UNCHANGED reader

-----------------------------------------------------------------------------
(* A seeded fault: the loop ends when the queue is empty.                  *)
QueueIsEmpty == m_qtaskList = << >>

(* "Check to see if all tasks are completed."                              *)
AllCompleted == m_nactive = m_ndormant

-----------------------------------------------------------------------------

CallInitialize == MainGoto("initialize", "add") /\ Initialize(main)

CallAddTask ==
    /\ mainpc = "add"
    /\ \E k \in Tasks : AddTask(main, k)
    /\ UNCHANGED <<mainpc, reader>>

AllAdded ==
    /\ cpc[main] = "client"
    /\ added = Tasks
    /\ MainGoto("add", "loop")
    /\ UNCHANGED vars

CallProcess == MainGoto("loop", "check") /\ Process(main)

Check ==
    /\ cpc[main] = "client"
    /\ IF AllCompleted THEN MainGoto("check", "fin") ELSE MainGoto("check", "loop")
    /\ UNCHANGED vars

CallShutDown == MainGoto("fin", "finished") /\ ShutDown(main)

Main ==
    \/ CallInitialize
    \/ CallAddTask
    \/ AllAdded
    \/ CallProcess
    \/ Check
    \/ CallShutDown
    \/ Continue(main) /\ UNCHANGED <<mainpc, reader>>

(* The function of the task ends, but for the reader's.                    *)
TaskEnds(t) == m_ptask[t] # reader /\ TaskReturns(t)

PoolThread(t) == (ThreadProc(t) \/ TaskEnds(t)) /\ UNCHANGED <<mainpc, reader>>

DriverNext ==
    /\ ~crashed
    /\ Main \/ \E t \in Threads : PoolThread(t)

(* The main thread and the pool's threads are scheduled by the system, and *)
(* the tasks of the test return, but for the reader.                       *)
DriverSpec ==
    /\ DriverInit
    /\ [][DriverNext]_driverVars
    /\ WF_driverVars(~crashed /\ Main)
    /\ \A t \in Threads : WF_driverVars(~crashed /\ PoolThread(t))

-----------------------------------------------------------------------------

(* The test's termination check is right: when main() leaves its loop      *)
(* because as many threads are dormant as are active, every task it queued *)
(* has been run, although m_ndormant was counted while threads were busy.  *)
AllDoneAtBreak == mainpc \in {"fin", "finished"} => done = Tasks

(* A thread whose loop ended before begin() set m_brunning, or that was    *)
(* never created.                                                          *)
Stillborn(t) == m_brunning[t] /\ tpc[t] \in {"exited", "failed"}

(* main() finishes, as its last line prints, unless a thread is stillborn, *)
(* the shut-down runs into the second join, or a task is the reader.       *)
DriverFinishes ==
    <>(\/ mainpc = "finished" /\ cpc[main] = "client"
       \/ reader # NoTask
       \/ crashed
       \/ \E t \in Threads : Stillborn(t))

=============================================================================
