----------------------------- MODULE MsgChannel -----------------------------
(***************************************************************************)
(* What backup.h promises the user interface of the message queue: a FIFO  *)
(* channel.  Every message object that a thread posts is handed exactly    *)
(* once, in posting order, to the one thread that calls backup_getmsg.     *)
(***************************************************************************)
EXTENDS Sequences

CONSTANT Msg            \* the message objects that are ever allocated

VARIABLES
    posted,             \* the messages that were sent so far
    channel,            \* sent and not yet received, oldest first
    delivered           \* received, in the order of reception

vars == <<posted, channel, delivered>>

-----------------------------------------------------------------------------

Init ==
    /\ posted = {}
    /\ channel = << >>
    /\ delivered = << >>

Send(m) ==
    /\ m \notin posted
    /\ posted' = posted \cup {m}
    /\ channel' = Append(channel, m)
    /\ UNCHANGED delivered

Receive ==
    /\ channel # << >>
    /\ delivered' = Append(delivered, Head(channel))
    /\ channel' = Tail(channel)
    /\ UNCHANGED posted

Next ==
    \/ \E m \in Msg : Send(m)
    \/ Receive

Spec == Init /\ [][Next]_vars

FairSpec == Spec /\ WF_vars(Receive)

=============================================================================
