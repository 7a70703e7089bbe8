-------------------------- MODULE SubagentDelivery --------------------------
(***************************************************************************)
(* How the result of a background subagent finds its way back into the     *)
(* conversation, for one user: SubagentManager.spawn and _announce_result, *)
(* the injector of AgentLoop (the _pending_subagent_results buffer and a   *)
(* blank trigger message), Kernel.inject_message, the per-dispatch queue   *)
(* in _pending_queues, and the turns that take the buffer in state BUILD.  *)
(*                                                                         *)
(* A turn is named by the user message that starts it, or by the subagent  *)
(* whose trigger message starts it.  The line is the user's lock: its head *)
(* is the turn inside LockManager.acquire (see LockManager).               *)
(***************************************************************************)
EXTENDS Naturals, FiniteSets, SequencesExt

CONSTANTS Message,      \* messages of the user (and of the user's cron jobs)
          Sub,          \* subagents
          Session,      \* sessions of the user
          session,      \* the session of each message
          MaxRunning,   \* max_concurrent_subagents
          QueueRoom,    \* maxsize of the pending queue (20 in the code)
          NoTurn, NoSession

ASSUME DeliveryAssumption ==
    /\ session \in [Message -> Session]
    /\ MaxRunning \in Nat \ {0} /\ QueueRoom \in Nat \ {0}
    /\ Message \cap Sub = {}
    /\ NoTurn \notin Message \cup Sub /\ NoSession \notin Session

VARIABLES state,        \* where each turn is
          line,         \* the turns in dispatch, the holder of the lock first
          pendq,        \* the turn whose queue _pending_queues holds
          blank,        \* trigger messages waiting in the queue of each turn
          work,         \* what each subagent does
          registered,   \* SubagentManager._running_tasks
          origin,       \* origin_session_id of each subagent
          results,      \* _pending_subagent_results of the user
          history       \* the results in each session's messages

turnVars == <<state, line, pendq, blank>>
subVars == <<work, registered, origin>>
deliveryVars == <<turnVars, subVars, results, history>>

Turn == Message \cup Sub
TurnSession(t) == IF t \in Message THEN session[t] ELSE origin[t]
Working == {s \in Sub : work[s] = "running"}
At(s, seq) == {i \in DOMAIN seq : seq[i] = s}
Times(s, seq) == Cardinality(At(s, seq))

DeliveryTypeOK ==
    /\ state \in [Turn -> {"idle", "created", "waiting", "running", "done", "cancelled"}]
    /\ line \in Seq(Turn)
    /\ pendq \in Turn \cup {NoTurn}
    /\ blank \in [Turn -> 0 .. QueueRoom]
    /\ work \in [Sub -> {"none", "running", "announced"}]
    /\ registered \subseteq Sub
    /\ origin \in [Sub -> Session \cup {NoSession}]
    /\ results \in Seq(Sub)
    /\ history \in [Session -> Seq(Sub)]

DeliveryInit ==
    /\ state = [t \in Turn |-> "idle"]
    /\ line = <<>>
    /\ pendq = NoTurn
    /\ blank = [t \in Turn |-> 0]
    /\ work = [s \in Sub |-> "none"]
    /\ registered = {}
    /\ origin = [s \in Sub |-> NoSession]
    /\ results = <<>>
    /\ history = [c \in Session |-> <<>>]

-----------------------------------------------------------------------------
(* dispatch: a new queue replaces whatever the user has in _pending_queues, *)
(* then the turn queues for the lock.                                      *)
Enter(t) ==
    /\ state[t] = IF t \in Message THEN "idle" ELSE "created"
    /\ state' = [state EXCEPT ![t] = "waiting"]
    /\ line' = Append(line, t)
    /\ pendq' = t
    /\ UNCHANGED <<blank, subVars, results, history>>

(* Slips: BUILD reads the buffer without emptying it, or a later state of  *)
(* the turn, and not BUILD itself, empties it.                             *)
Slip_BuildKeepsResults(t) ==
    /\ state[t] = "waiting" /\ Head(line) = t
    /\ state' = [state EXCEPT ![t] = "running"]
    /\ history' = [history EXCEPT ![TurnSession(t)] = @ \o results]
    /\ UNCHANGED <<line, pendq, blank, subVars, results>>
Slip_BuildTakesOne(t) ==
    /\ state[t] = "waiting" /\ Head(line) = t
    /\ state' = [state EXCEPT ![t] = "running"]
    /\ history' = [history EXCEPT ![TurnSession(t)] = @ \o SubSeq(results, 1, IF results = <<>> THEN 0 ELSE 1)]
    /\ results' = SubSeq(results, 2, Len(results))
    /\ UNCHANGED <<line, pendq, blank, subVars>>

(* BUILD: every result in the user's buffer goes into this turn's session. *)
Build(t) ==
    /\ state[t] = "waiting" /\ Head(line) = t
    /\ state' = [state EXCEPT ![t] = "running"]
    /\ history' = [history EXCEPT ![TurnSession(t)] = @ \o results]
    /\ results' = <<>>
    /\ UNCHANGED <<line, pendq, blank, subVars>>

(* The runner drains the turn's queue; the trigger messages are blank and  *)
(* are dropped.                                                            *)
Drain(t) ==
    /\ state[t] = "running" /\ blank[t] > 0
    /\ blank' = [blank EXCEPT ![t] = 0]
    /\ UNCHANGED <<state, line, pendq, subVars, results, history>>

(* The end of dispatch, by a reply, an error or a cancellation (/stop) at  *)
(* any point: the entry in _pending_queues goes, whoever's it is, and what *)
(* is left in that queue is discarded.                                     *)
End(t) ==
    /\ state[t] \in {"waiting", "running"}
    /\ state' = [state EXCEPT ![t] = IF @ = "running" THEN "done" ELSE "cancelled"]
    /\ \E i \in At(t, line) : line' = RemoveAt(line, i)
    /\ blank' = [x \in Turn |-> IF x = pendq THEN 0 ELSE blank[x]]
    /\ pendq' = NoTurn
    /\ UNCHANGED <<subVars, results, history>>

-----------------------------------------------------------------------------
(* Slip: the limit is checked, and the task registered, on either side of  *)
(* the await that publishes subagent.spawned.                              *)
Slip_SpawnRegistersLate(t, s) ==
    /\ state[t] = "running" /\ work[s] = "none"
    /\ Cardinality(registered) < MaxRunning
    /\ work' = [work EXCEPT ![s] = "running"]
    /\ origin' = [origin EXCEPT ![s] = TurnSession(t)]
    /\ UNCHANGED <<turnVars, registered, results, history>>

(* spawn: refused when the limit is reached, else the task is created and  *)
(* registered before anything is awaited.                                  *)
Spawn(t, s) ==
    /\ state[t] = "running" /\ work[s] = "none"
    /\ Cardinality(registered) < MaxRunning
    /\ work' = [work EXCEPT ![s] = "running"]
    /\ registered' = registered \cup {s}
    /\ origin' = [origin EXCEPT ![s] = TurnSession(t)]
    /\ UNCHANGED <<turnVars, results, history>>

(* inject_message: into the queue in _pending_queues if there is one with  *)
(* room, else a task that will handle the trigger as a message of its own. *)
Injectable == pendq # NoTurn /\ blank[pendq] < QueueRoom

Inject(s) ==
    \/ /\ Injectable
       /\ blank' = [blank EXCEPT ![pendq] = @ + 1]
       /\ UNCHANGED state
    \/ /\ ~Injectable
       /\ state' = [state EXCEPT ![s] = "created"]
       /\ UNCHANGED blank

(* The subagent has ended, well or badly: its result enters the buffer and *)
(* the trigger message goes out.                                           *)
Announce(s) ==
    /\ work[s] = "running"
    /\ work' = [work EXCEPT ![s] = "announced"]
    /\ results' = Append(results, s)
    /\ Inject(s)
    /\ UNCHANGED <<line, pendq, registered, origin, history>>

(* The done callback of the subagent's task. *)
Cleanup(s) ==
    /\ work[s] = "announced" /\ s \in registered
    /\ registered' = registered \ {s}
    /\ UNCHANGED <<turnVars, work, origin, results, history>>

DeliveryNext ==
    \/ \E t \in Turn : Enter(t) \/ Build(t) \/ Drain(t) \/ End(t)
    \/ \E t \in Turn, s \in Sub : Spawn(t, s)
    \/ \E s \in Sub : Announce(s) \/ Cleanup(s)

DeliverySpec == DeliveryInit /\ [][DeliveryNext]_deliveryVars

(* Trigger turns start, turns get the lock and end, subagents end: provider *)
(* and tool calls have timeouts.  The user need not write again.           *)
DeliveryFairness ==
    /\ \A s \in Sub : WF_deliveryVars(Enter(s)) /\ WF_deliveryVars(Announce(s)) /\ WF_deliveryVars(Cleanup(s))
    /\ \A t \in Turn : WF_deliveryVars(Build(t)) /\ WF_deliveryVars(state[t] = "running" /\ End(t))

DeliveryLiveSpec == DeliverySpec /\ DeliveryFairness

-----------------------------------------------------------------------------
(* Where a result is: positions in the buffer (of NoSession) and in the    *)
(* messages of the sessions.                                               *)
Box(c) == IF c = NoSession THEN results ELSE history[c]
Places(s) == UNION {{c} \X At(s, Box(c)) : c \in Session \cup {NoSession}}

(* A result that was announced is in the buffer or in a session, once: the *)
(* two appenders and the one taker of the buffer neither lose nor repeat.  *)
OnceInBufferOrHistory ==
    /\ DeliveryTypeOK
    /\ \A s \in Sub : Cardinality(Places(s)) = IF work[s] = "announced" THEN 1 ELSE 0

(* max_concurrent_subagents bounds the subagents that run, whichever turns *)
(* and parallel tool calls spawn them.                                     *)
LimitRespected == Cardinality(Working) <= MaxRunning

(* A result does not wait for the turn that takes it longer than the lock: *)
(* a turn of the user that is waiting when a result is in the buffer takes *)
(* it, unless an earlier one did or /stop cancels it in the line.          *)
WaitingTurnTakesResults ==
    \A t \in Turn, s \in Sub :
        (state[t] = "waiting" /\ Times(s, results) > 0)
            ~> (Times(s, results) = 0 \/ state[t] = "cancelled")

(* subagent.py:242 and the tool's description ("完成后结果会自动注入回当前 *)
(* 对话"): the result goes back to the session it was spawned from.        *)
ReturnsToOrigin ==
    \A c \in Session : \A s \in ToSet(history[c]) : origin[s] = c

(* loop.py:556-557: the result is injected when the subagent completes,    *)
(* without waiting for the user's next message.                            *)
DeliveredUnprompted ==
    \A s \in Sub : work[s] = "announced" ~> \E c \in Session : s \in ToSet(history[c])
=============================================================================
