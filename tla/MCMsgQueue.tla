----------------------------- MODULE MCMsgQueue -----------------------------
(* Two posting threads, four message objects: three of the daemon's brick   *)
(* messages, one of them longer, and one without data.                      *)
EXTENDS MsgQueue, TLC

CONSTANTS m1, m2, m3, m4, p1, p2

MCParaLength == (m1 :> 1) @@ (m2 :> 2) @@ (m3 :> 1) @@ (m4 :> 0)

=============================================================================
