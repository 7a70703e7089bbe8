--------------------------- MODULE MCAuditedTurns ---------------------------
(* Instances of AuditedTurns for TLC.                                      *)
EXTENDS AuditedTurns

MCTurn == 1 .. 2
MCTool == {"read", "web", "edit", "message"}
MCPlans == {<<"read", "web">>, <<"web", "web">>, <<"edit", "message">>}
=============================================================================
