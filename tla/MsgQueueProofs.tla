--------------------------- MODULE MsgQueueProofs ---------------------------
(***************************************************************************)
(* Proofs about the message queue, for any number of posting threads and   *)
(* messages.  The argument: the semaphore is up only over a queue that is  *)
(* not empty, because the pop that empties the queue keeps the mutex until *)
(* the semaphore is drained; and only the one reader empties it, so what   *)
(* the reader learns outside the mutex stays true until its own next step. *)
(***************************************************************************)
EXTENDS MsgQueue, SequenceTheorems, TLAPS

(* Who is between two steps inside push_back, or inside pop_front, owns    *)
(* the mutex, and nobody else.                                             *)
MutexInv ==
    /\ \A p \in Producers : ppc[p] = "set_task" <=> m_mutex = p
    /\ cpc = "set_empty" <=> m_mutex = Reader

(* The semaphore is raised only over a queue that holds a message, but for *)
(* the moment in which the pop of the last message drains it.              *)
SemaphoreInv ==
    /\ m_htask > 0 /\ cpc # "set_empty" => m_queue # << >>
    /\ m_mutex \in Producers => m_queue # << >>
    /\ cpc \in {"repost", "front", "check", "pop"} => m_queue # << >>
    /\ cpc = "set_empty" => m_queue = << >>

(* What the reader knows of the queue.                                     *)
ReaderInv ==
    /\ cpc \in {"check", "pop"} => tmp = Head(m_queue)
    /\ cpc \in {"check", "pop", "set_empty", "copy"} => tmp \in Msg
    /\ cpc \in {"wait", "repost", "front", "check"} /\ para_length # 0 =>
         m_queue # << >> /\ para_length = ParaLength[Head(m_queue)]

IInv == TypeOK /\ MutexInv /\ SemaphoreInv /\ ReaderInv /\ NoLostWakeup

-----------------------------------------------------------------------------

(* push_back leaves the head of a list that has one. *)
LEMMA AppendKeepsHead ==
    ASSUME NEW S, NEW q \in Seq(S), NEW m \in S
    PROVE  /\ Append(q, m) \in Seq(S)
           /\ Append(q, m) # << >>
           /\ q # << >> => Head(Append(q, m)) = Head(q)
  <1>1. Append(q, m) \in Seq(S) /\ Append(q, m) # << >>
    BY AppendProperties
  <1>2. ASSUME q # << >> PROVE Head(Append(q, m)) = Head(q)
    <2>1. 1 \in 1..Len(q)
      BY <1>2, EmptySeq
    <2>2. Append(q, m)[1] = q[1]
      BY <2>1, AppendProperties
    <2> QED
      BY <1>1, <1>2, <2>2
  <1> QED
    BY <1>1, <1>2

(* A list that is not empty is its head before its tail. *)
LEMMA HeadAndTail ==
    ASSUME NEW S, NEW q \in Seq(S), q # << >>
    PROVE  Head(q) \in S /\ Tail(q) \in Seq(S) /\ q = <<Head(q)>> \o Tail(q)
  OBVIOUS

(* The list with one element put in front. *)
LEMMA PutInFront ==
    ASSUME NEW S, NEW q \in Seq(S), NEW x \in S
    PROVE  /\ <<x>> \o q # << >>
           /\ Head(<<x>> \o q) = x
           /\ Tail(<<x>> \o q) = q
           /\ \A m \in S : Append(<<x>> \o q, m) = <<x>> \o Append(q, m)
  OBVIOUS

-----------------------------------------------------------------------------

(* The inductive invariant holds at the start ... *)
LEMMA InvInit == Init => IInv
  BY NoMsgAssumption, ThreadsAssumption, ParaLengthAssumption
     DEF Init, IInv, TypeOK, MutexInv, SemaphoreInv, ReaderInv, NoLostWakeup

(* ... and every step keeps it. *)
LEMMA InvStep == IInv /\ [Next]_vars => IInv'
  <1> SUFFICES ASSUME IInv, [Next]_vars PROVE IInv'
    OBVIOUS
  <1> USE NoMsgAssumption, ThreadsAssumption, ParaLengthAssumption
  <1> USE DEF IInv, TypeOK, MutexInv, SemaphoreInv, ReaderInv, NoLostWakeup
  <1>1. ASSUME NEW p \in Producers, NEW m \in Msg, PushBack(p, m) PROVE IInv'
    <2>1. /\ m_queue' \in Seq(Msg)
          /\ m_queue' # << >>
          /\ m_queue # << >> => Head(m_queue') = Head(m_queue)
      BY <1>1, AppendKeepsHead DEF PushBack, PushedBack
    <2>2. ppc' = [ppc EXCEPT ![p] = "set_task"] /\ m_mutex' = p /\ m_mutex = NoOwner
      BY <1>1 DEF PushBack
    <2>3. UNCHANGED <<m_htask, cpc, tmp, para_length, delivered>>
      BY <1>1 DEF PushBack, readerVars
    <2>4. posted' \subseteq Msg
      BY <1>1 DEF PushBack
    <2>5. TypeOK'
      BY <2>1, <2>2, <2>3, <2>4
    <2>6. MutexInv'
      BY <2>2, <2>3
    <2>7. SemaphoreInv' /\ ReaderInv'
      BY <2>1, <2>2, <2>3
    <2>8. NoLostWakeup'
      BY <2>2
    <2> QED
      BY <2>5, <2>6, <2>7, <2>8
  <1>2. ASSUME NEW p \in Producers, SetTask(p) PROVE IInv'
    <2>1. /\ ppc' = [ppc EXCEPT ![p] = "idle"]
          /\ m_mutex = p /\ m_mutex' = NoOwner
          /\ m_htask' = m_htask + 1
          /\ UNCHANGED <<posted, m_queue, cpc, tmp, para_length, delivered>>
      BY <1>2 DEF SetTask, readerVars
    <2>2. TypeOK' /\ MutexInv'
      BY <2>1
    <2>3. SemaphoreInv' /\ ReaderInv' /\ NoLostWakeup'
      BY <2>1
    <2> QED
      BY <2>2, <2>3
  <1>3. CASE SemWait
    BY <1>3 DEF SemWait, Raised
  <1>4. CASE SemRepost
    BY <1>4 DEF SemRepost, Reposted
  <1>5. CASE Front
    BY <1>5, HeadAndTail DEF Front, queueVars
  <1>6. CASE ReturnTooSmall
    BY <1>6 DEF ReturnTooSmall, queueVars
  <1>7. CASE LengthFits
    BY <1>7 DEF LengthFits, queueVars
  <1>8. CASE PopFront
    BY <1>8, HeadAndTail DEF PopFront, EmptyAfterPop
  <1>9. CASE SetEmpty
    BY <1>9 DEF SetEmpty
  <1>10. CASE CopyOut
    BY <1>10, AppendKeepsHead DEF CopyOut, queueVars
  <1>11. CASE UNCHANGED vars
    BY <1>11 DEF vars, queueVars, readerVars
  <1> QED
    BY <1>1, <1>2, <1>3, <1>4, <1>5, <1>6, <1>7, <1>8, <1>9, <1>10, <1>11
       DEF Next, Produce, Read

-----------------------------------------------------------------------------
(* The safety properties, for all values of the constants.                 *)

(* The inductive invariant is an invariant of the queue. *)
THEOREM Invariant == Spec => []IInv
  BY InvInit, InvStep, PTL DEF Spec

(* Every variable of the queue stays in its type. *)
THEOREM TypeCorrect == Spec => []TypeOK
  <1>1. IInv => TypeOK
    BY DEF IInv
  <1> QED
    BY <1>1, Invariant, PTL

(* backup_getmsg never dereferences the null pointer of front(). *)
THEOREM NeverNull == Spec => []GetmsgNeverNull
  <1>1. IInv => GetmsgNeverNull
    BY NoMsgAssumption DEF IInv, ReaderInv, GetmsgNeverNull
  <1> QED
    BY <1>1, Invariant, PTL

(* The second call of backup_getmsg meets the message that the first call  *)
(* measured. *)
THEOREM RetryIsSame == Spec => []RetryFindsSameMessage
  <1>1. IInv => RetryFindsSameMessage
    BY DEF IInv, ReaderInv, RetryFindsSameMessage
  <1> QED
    BY <1>1, Invariant, PTL

(* A queued message always finds the semaphore up, or about to be. *)
THEOREM WakeupKept == Spec => []NoLostWakeup
  <1>1. IInv => NoLostWakeup
    BY DEF IInv
  <1> QED
    BY <1>1, Invariant, PTL

-----------------------------------------------------------------------------
(* The refinement: push_back is the channel's Send, the copy to the caller *)
(* is its Receive, and every other step leaves the channel as it is.       *)

(* The queue starts as an empty channel. *)
LEMMA RefinesInit == Init => Channel!Init
  BY DEF Init, UnderWay, Channel!Init

(* Every step of the queue is a step of the channel, or leaves it alone. *)
LEMMA RefinesStep == IInv /\ [Next]_vars => [Channel!Next]_Channel!vars
  <1> SUFFICES ASSUME IInv, [Next]_vars PROVE [Channel!Next]_Channel!vars
    OBVIOUS
  <1> USE NoMsgAssumption, ThreadsAssumption, ParaLengthAssumption
  <1> USE DEF IInv, TypeOK, MutexInv, SemaphoreInv, ReaderInv, UnderWay, Channel!vars
  <1>1. ASSUME NEW p \in Producers, NEW m \in Msg, PushBack(p, m)
        PROVE  Channel!Send(m)
    <2>1. /\ m \notin posted /\ posted' = posted \cup {m}
          /\ m_queue' = Append(m_queue, m)
          /\ UNCHANGED <<cpc, tmp, delivered>>
      BY <1>1 DEF PushBack, PushedBack, readerVars
    <2>2. UnderWay' = Append(UnderWay, m)
      <3>1. CASE cpc \in {"set_empty", "copy"}
        BY <2>1, <3>1, PutInFront
      <3>2. CASE cpc \notin {"set_empty", "copy"}
        BY <2>1, <3>2
      <3> QED
        BY <3>1, <3>2
    <2> QED
      BY <2>1, <2>2 DEF Channel!Send
  <1>2. ASSUME NEW p \in Producers, SetTask(p) PROVE UNCHANGED Channel!vars
    BY <1>2 DEF SetTask, readerVars
  <1>3. CASE SemWait
    BY <1>3 DEF SemWait
  <1>4. CASE SemRepost
    BY <1>4 DEF SemRepost
  <1>5. CASE Front
    BY <1>5 DEF Front, queueVars
  <1>6. CASE ReturnTooSmall
    BY <1>6 DEF ReturnTooSmall, queueVars
  <1>7. CASE LengthFits
    BY <1>7 DEF LengthFits, queueVars
  <1>8. CASE PopFront
    <2>1. m_queue = <<tmp>> \o m_queue'
      BY <1>8, HeadAndTail DEF PopFront
    <2>2. cpc' \in {"set_empty", "copy"} /\ UNCHANGED <<posted, tmp, delivered>>
      BY <1>8 DEF PopFront
    <2> QED
      BY <1>8, <2>1, <2>2 DEF PopFront
  <1>9. CASE SetEmpty
    BY <1>9 DEF SetEmpty
  <1>10. CASE CopyOut
    <2>1. /\ UnderWay # << >>
          /\ Head(UnderWay) = tmp
          /\ Tail(UnderWay) = m_queue
      BY <1>10, PutInFront DEF CopyOut
    <2>2. /\ delivered' = Append(delivered, tmp)
          /\ UnderWay' = m_queue
          /\ posted' = posted
      BY <1>10 DEF CopyOut, queueVars
    <2>3. Channel!Receive
      BY <2>1, <2>2 DEF Channel!Receive
    <2> QED
      BY <2>3 DEF Channel!Next
  <1>11. CASE UNCHANGED vars
    BY <1>11 DEF vars, queueVars, readerVars
  <1> QED
    BY <1>1, <1>2, <1>3, <1>4, <1>5, <1>6, <1>7, <1>8, <1>9, <1>10, <1>11
       DEF Next, Produce, Read, Channel!Next

(* Message delivery: the list, the mutex, the semaphore and the retry of   *)
(* backup_getmsg together are a FIFO channel. *)
THEOREM QueueImplementsChannel == Spec => ImplementsChannel
  BY RefinesInit, RefinesStep, Invariant, PTL DEF Spec, ImplementsChannel, Channel!Spec

=============================================================================
