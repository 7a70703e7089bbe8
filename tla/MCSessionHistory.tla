-------------------------- MODULE MCSessionHistory --------------------------
(* Two user turns, the second maybe a blank trigger, and a cron turn.      *)
EXTENDS SessionHistory

CONSTANTS t1, t2, cron, chatA, r1

MCChat == {chatA}
OneChat == [t \in Turn |-> chatA]

(* A user turn: a reply; two calls, the second without a result, and a     *)
(* reply; a call and its result, the turn then failing; nothing.           *)
TraceOf(t) == { <<>>,
                <<Assistant(t, <<>>)>>,
                <<Assistant(t, << <<t, 1>>, <<t, 2>> >>), Tool(<<t, 1>>, "result"), Assistant(t, <<>>)>>,
                <<Assistant(t, << <<t, 1>> >>), Tool(<<t, 1>>, "result")>> }
MCTrace == [t \in Turn |-> IF t = cron THEN { <<Assistant(t, <<>>)>> } ELSE TraceOf(t)]
=============================================================================
