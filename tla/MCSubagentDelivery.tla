------------------------- MODULE MCSubagentDelivery -------------------------
(* Two messages of one user in two chats, three subagents, one at a time,  *)
(* and a pending queue with room for one trigger.                          *)
EXTENDS SubagentDelivery, TLC

CONSTANTS m1, m2, s1, s2, s3, chatA, chatB

MCMessage == {m1, m2}
MCSub == {s1, s2, s3}
MCSession == {chatA, chatB}
MCsession == (m1 :> chatA) @@ (m2 :> chatB)
=============================================================================
