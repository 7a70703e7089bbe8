---------------------------- MODULE MCTurnRunner ----------------------------
(* Instances of TurnRunner for TLC.                                        *)
EXTENDS TurnRunner, TLC

CONSTANTS m1, m2, m3

(* A conversation whose last turn used two tools.                          *)
Old == <<User({"old"}), Assistant("text", << <<MaxIterations, 1, TRUE>>, <<MaxIterations, 2, TRUE>> >>),
         Tool(<<MaxIterations, 1, TRUE>>, "result"), Tool(<<MaxIterations, 2, TRUE>>, "result")>>

(* The second call of an answer is always one of the tool "message": it     *)
(* names the report again and a file of its own, or what is left of that   *)
(* name when it was cut off.                                               *)
SecondAttaches(id) == 
    IF id[2] = 2 THEN << <<"report", 0>>, <<IF id[3] THEN "own" ELSE "torn", id[1]>> >> ELSE <<>>
Picture == << <<"picture", 0>> >>
LongOnly == {Start(Old \o <<Reply("reply")>>)}
Symmetry == Permutations(Injected)
=============================================================================
