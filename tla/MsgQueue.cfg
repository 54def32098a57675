SPECIFICATION FairSpec
CONSTANTS
    m1 = m1
    m2 = m2
    m3 = m3
    m4 = m4
    p1 = p1
    p2 = p2
    Msg = {m1, m2, m3, m4}
    Producers = {p1, p2}
    ParaLength <- MCParaLength
    NoMsg = NoMsg
    Reader = Reader
    NoOwner = NoOwner
INVARIANTS
    GetmsgNeverNull
    NoLostWakeup
PROPERTIES
    ImplementsChannel
    EveryPostIsDelivered
\* Nobody is obliged to post: with every message delivered the model rests.
CHECK_DEADLOCK FALSE
