------------------------------ MODULE MsgQueue ------------------------------
(***************************************************************************)
(* The process-wide message queue (src/backup/msg_queue.cpp, Linux build)  *)
(* together with its only reader, the loop around backup_getmsg            *)
(* (src/backup/backup.cpp:46-76, called by dispose_msg in                  *)
(* src/backup_ui/deamon.cpp and backup_main.cpp).                          *)
(*                                                                         *)
(* Producers are the worker threads and the control thread: they post a    *)
(* freshly allocated message, so a message object is posted only once.     *)
(* There is one reader per process, so the reader needs no identity.       *)
(*                                                                         *)
(* The semaphore m_htask is used as a level flag "there is a message": it  *)
(* counts posts, is taken and given back by wait_msg outside the mutex,    *)
(* and is drained to zero by the pop that empties the list.                *)
(***************************************************************************)
EXTENDS Naturals, Sequences

CONSTANTS
    Producers,          \* the threads that post messages
    Msg,                \* the message objects that are ever allocated
    ParaLength,         \* msg::para_length of each of them
    NoMsg,              \* the null pointer that front() may return
    Reader,             \* the thread that runs dispose_msg
    NoOwner             \* owner of a free mutex

ASSUME ParaLengthAssumption == ParaLength \in [Msg -> Nat]
ASSUME NoMsgAssumption == NoMsg \notin Msg
ASSUME ThreadsAssumption ==
    Reader \notin Producers /\ NoOwner \notin Producers /\ Reader # NoOwner

VARIABLES
    posted,             \* the message objects posted so far
    m_queue,            \* list<msg*> m_queue
    m_htask,            \* value of the semaphore m_htask
    m_mutex,            \* owner of m_mutex between two steps
    ppc,                \* control point of each producer
    cpc,                \* control point of the reader
    tmp,                \* local "msg *tmp" of backup_getmsg
    para_length,        \* the in/out argument para_length of backup_getmsg
    delivered           \* messages that dispose_msg has received

queueVars == <<m_queue, m_htask, m_mutex>>
readerVars == <<cpc, tmp, para_length, delivered>>
vars == <<posted, queueVars, ppc, readerVars>>

-----------------------------------------------------------------------------

Init ==
    /\ posted = {}
    /\ m_queue = << >>
    /\ m_htask = 0
    /\ m_mutex = NoOwner
    /\ ppc = [p \in Producers |-> "idle"]
    /\ cpc = "wait"
    /\ tmp = NoMsg
    /\ para_length = 0
    /\ delivered = << >>

-----------------------------------------------------------------------------
(* Seeded faults, each the slip of one line of the code.                   *)

QueuedAtFront(q, m) == <<m>> \o q
DrainedAlways(q) == TRUE
QueueNeverDrained(q) == FALSE
WaitWithoutRepost(n) == n

-----------------------------------------------------------------------------
(* Helpers: the list operation of push_back, the test of pop_front, the    *)
(* two halves of wait_msg and the length test of backup_getmsg.            *)

PushedBack(q, m) == Append(q, m)
EmptyAfterPop(q) == Tail(q) = << >>
Raised(n) == n > 0
Reposted(n) == n + 1
TooSmall(m, length) == length < ParaLength[m]

-----------------------------------------------------------------------------
(* push_back: take the mutex and append; then sem_post and release.        *)

PushBack(p, m) ==
    /\ ppc[p] = "idle"
    /\ m_mutex = NoOwner
    /\ m \notin posted
    /\ posted' = posted \cup {m}
    /\ m_queue' = PushedBack(m_queue, m)
    /\ m_mutex' = p
    /\ ppc' = [ppc EXCEPT ![p] = "set_task"]
    /\ UNCHANGED <<m_htask, readerVars>>

SetTask(p) ==
    /\ ppc[p] = "set_task"
    /\ m_htask' = m_htask + 1
    /\ m_mutex' = NoOwner
    /\ ppc' = [ppc EXCEPT ![p] = "idle"]
    /\ UNCHANGED <<posted, m_queue, readerVars>>

(* wait_msg: sem_wait, then sem_post, neither under the mutex.             *)

SemWait ==
    /\ cpc = "wait"
    /\ Raised(m_htask)
    /\ m_htask' = m_htask - 1
    /\ cpc' = "repost"
    /\ UNCHANGED <<posted, m_queue, m_mutex, ppc, tmp, para_length, delivered>>

SemRepost ==
    /\ cpc = "repost"
    /\ m_htask' = Reposted(m_htask)
    /\ cpc' = "front"
    /\ UNCHANGED <<posted, m_queue, m_mutex, ppc, tmp, para_length, delivered>>

Front ==
    /\ cpc = "front"
    /\ m_mutex = NoOwner
    /\ tmp' = IF m_queue # << >> THEN Head(m_queue) ELSE NoMsg
    /\ cpc' = "check"
    /\ UNCHANGED <<posted, queueVars, ppc, para_length, delivered>>

(* The caller's space is too small: return -2; dispose_msg reallocates to  *)
(* the length it was told and calls backup_getmsg again.                   *)
ReturnTooSmall ==
    /\ cpc = "check"
    /\ TooSmall(tmp, para_length)
    /\ para_length' = ParaLength[tmp]
    /\ tmp' = NoMsg
    /\ cpc' = "wait"
    /\ UNCHANGED <<posted, queueVars, ppc, delivered>>

LengthFits ==
    /\ cpc = "check"
    /\ ~TooSmall(tmp, para_length)
    /\ para_length' = ParaLength[tmp]
    /\ cpc' = "pop"
    /\ UNCHANGED <<posted, queueVars, ppc, tmp, delivered>>

(* pop_front: its own reading of the head is thrown away by backup_getmsg; *)
(* the pop that empties the list keeps the mutex to drain the semaphore.   *)
PopFront ==
    /\ cpc = "pop"
    /\ m_mutex = NoOwner
    /\ m_queue' = Tail(m_queue)
    /\ IF EmptyAfterPop(m_queue)
         THEN cpc' = "set_empty" /\ m_mutex' = Reader
         ELSE cpc' = "copy" /\ UNCHANGED m_mutex
    /\ UNCHANGED <<posted, m_htask, ppc, tmp, para_length, delivered>>

(* One round of set_empty: sem_trywait, then test sem_getvalue.            *)
SetEmpty ==
    LET sval == IF m_htask > 0 THEN m_htask - 1 ELSE 0 IN
    /\ cpc = "set_empty"
    /\ m_htask' = sval
    /\ IF sval > 0
         THEN UNCHANGED <<cpc, m_mutex>>
         ELSE cpc' = "copy" /\ m_mutex' = NoOwner
    /\ UNCHANGED <<posted, m_queue, ppc, tmp, para_length, delivered>>

(* memcpy to the caller, free, return 0; dispose_msg handles the message   *)
(* and starts over with size = 0.                                          *)
CopyOut ==
    /\ cpc = "copy"
    /\ delivered' = Append(delivered, tmp)
    /\ tmp' = NoMsg
    /\ para_length' = 0
    /\ cpc' = "wait"
    /\ UNCHANGED <<posted, queueVars, ppc>>

-----------------------------------------------------------------------------

Read ==
    \/ SemWait
    \/ SemRepost
    \/ Front
    \/ ReturnTooSmall
    \/ LengthFits
    \/ PopFront
    \/ SetEmpty
    \/ CopyOut

Produce(p) ==
    \/ \E m \in Msg : PushBack(p, m)
    \/ SetTask(p)

Next ==
    \/ \E p \in Producers : Produce(p)
    \/ Read

Spec == Init /\ [][Next]_vars

(* A thread inside push_back leaves it, and the reader thread is scheduled; *)
(* nobody is obliged to post.                                               *)
Fairness ==
    /\ \A p \in Producers : WF_vars(SetTask(p))
    /\ WF_vars(Read)

FairSpec == Spec /\ Fairness

-----------------------------------------------------------------------------

(* Every variable stays in its type. *)
TypeOK ==
    /\ posted \subseteq Msg
    /\ m_queue \in Seq(Msg)
    /\ m_htask \in Nat
    /\ m_mutex \in Producers \cup {Reader, NoOwner}
    /\ ppc \in [Producers -> {"idle", "set_task"}]
    /\ cpc \in {"wait", "repost", "front", "check", "pop", "set_empty", "copy"}
    /\ tmp \in Msg \cup {NoMsg}
    /\ para_length \in Nat
    /\ delivered \in Seq(Msg)

(* backup_getmsg dereferences the result of front() without a test: when   *)
(* it does, the pointer is not null, although the semaphore that promised  *)
(* a message is read outside the mutex.                                    *)
GetmsgNeverNull ==
    cpc \in {"check", "pop", "set_empty", "copy"} => tmp # NoMsg

(* When the loop of dispose_msg comes back with the space that the first   *)
(* call asked for, the message it finds is the one that was measured.      *)
RetryFindsSameMessage ==
    cpc = "check" /\ para_length # 0 => para_length = ParaLength[tmp]

(* No lost wake-up: whenever a message is queued and neither a poster nor  *)
(* the reader is in the middle of moving the semaphore, it is up.          *)
NoLostWakeup ==
    \/ m_queue = << >>
    \/ m_htask > 0
    \/ cpc = "repost"
    \/ \E p \in Producers : ppc[p] = "set_task"

-----------------------------------------------------------------------------
(* The queue and its reader implement the channel: a message is received   *)
(* at the moment backup_getmsg hands it over, and until then a message     *)
(* that was popped and not yet copied is still under way.                  *)

UnderWay ==
    IF cpc \in {"set_empty", "copy"} THEN <<tmp>> \o m_queue ELSE m_queue

Channel == INSTANCE MsgChannel WITH channel <- UnderWay

(* Every message is handed to the user interface once, in posting order.   *)
ImplementsChannel == Channel!Spec

(* A posted message is eventually handed to the user interface.            *)
EveryPostIsDelivered ==
    \A m \in Msg :
        m \in posted ~> \E i \in 1..Len(delivered) : delivered[i] = m

=============================================================================
