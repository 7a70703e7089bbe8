---------------------------- MODULE AuditedTurns ----------------------------
(***************************************************************************)
(* The turns of one user with their tool calls and their audit records:    *)
(* AgentLoop._process_message and the hook tasks it leaves behind, the     *)
(* calls ToolPipeline.execute_all runs, one by one or in a gather, and the  *)
(* slot of the audit plugin.                                               *)
(*                                                                         *)
(* "ready" is the event loop's queue: tasks run in the order they became    *)
(* ready, each to its next real wait, and this order alone decides which   *)
(* turn a hook finds in the slot.  A task that goes on without waiting     *)
(* puts its next step at the head of the queue.                            *)
(***************************************************************************)
EXTENDS ToolGuards, AuditTrail

CONSTANTS Turn,           \* turns of the user, 1 .. N
          MaxRounds,      \* bound: answers of the model with tool calls, in a turn
          MaxCalls,       \* bound: calls in one answer
          Plans,          \* bound: the calls an answer may ask for
          Faults          \* "network", "workspace", "other": what a tool may raise

ASSUME TurnAssumption == 
    /\ MaxRounds \in Nat /\ MaxCalls \in Nat \ {0} /\ Turn \subseteq Nat \ {0}
    /\ NoTurn \notin Turn /\ Unnamed \notin Turn \cup {NoTurn}
    /\ Plans \subseteq UNION {[1 .. n -> ToolName] : n \in 1 .. MaxCalls}

VARIABLES ready,
          lock, waiters,  \* the turn inside the user's lock, and those waiting for it
          phase,          \* [Turn -> "new", "queued", "waiting", "model", "tools", "over"]
          stopped,        \* turns that were cancelled
          exit,           \* how a turn ended
          window, rounds, \* of a turn: the roles of its messages, its answers with calls
          batches,        \* of the running turn: the batches not started
          batch,          \* the calls being executed
          settled,        \* "open", or how the batch ended: "done", "raised"
          call,           \* [id -> what is known of the call]
          lookups, violations,    \* of a turn: how often a target was asked for
          slot, records

loopVars == <<ready, lock, waiters, phase, stopped>>
turnVars == <<exit, window, rounds>>
batchVars == <<batches, batch, settled, call, lookups, violations>>
auditVars == <<slot, records>>
auditedVars == <<loopVars, turnVars, batchVars, auditVars>>

Id == [turn : Turn, round : 1 .. MaxRounds, n : 1 .. MaxCalls]
NoCall == [turn |-> 0, round |-> 0, n |-> 0]
Task(does, t) == [does |-> does, turn |-> t, call |-> NoCall]
CallTask(id) == [does |-> "call", turn |-> id.turn, call |-> id]
Queued(task) == \E i \in DOMAIN ready : ready[i] = task
Ids(b) == [i \in DOMAIN b |-> b[i].id]
Undone(id) == call[id].state \in {"waiting", "running"}

AuditedTypeOK == 
    /\ ready \in Seq([does : {"turn", "reply", "call", "batch", "emit", "notify", "hook", "start", "startHook"},
                      turn : Turn, call : Id \cup {NoCall}])
    /\ lock \in Turn \cup {NoTurn} /\ waiters \in Seq(Turn)
    /\ phase \in [Turn -> {"new", "queued", "waiting", "model", "tools", "over"}]
    /\ stopped \subseteq Turn
    /\ exit \in [Turn -> {"none", "answer", "error", "abandoned"}]
    /\ window \in [Turn -> Seq({"user", "calls", "tool", "answer"})]
    /\ rounds \in [Turn -> 0 .. MaxRounds]
    /\ settled \in {"open", "done", "raised"}
    /\ DOMAIN call \subseteq Id
    /\ \A id \in DOMAIN call : 
          /\ call[id].tool \in ToolName
          /\ call[id].state \in {"waiting", "running", "done", "raised", "cut"}
          /\ call[id].cancelled \in BOOLEAN
          /\ call[id].shown \in {"no", "start", "end", "error", "silent"}
          /\ call[id].result \in {"none", "ok", "error", "boundary", "escalated", "throttled", "refused"}
    /\ \A t \in Turn, tool \in ToolName : lookups[t][tool] \in Nat /\ violations[t][tool] \in Nat
    /\ slot.trace \in Turn \cup {Unnamed, NoTurn}

AuditedInit == 
    /\ ready = <<>> /\ lock = NoTurn /\ waiters = <<>>
    /\ phase = [t \in Turn |-> "new"] /\ stopped = {}
    /\ exit = [t \in Turn |-> "none"]
    /\ window = [t \in Turn |-> <<>>] /\ rounds = [t \in Turn |-> 0]
    /\ batches = <<>> /\ batch = <<>> /\ settled = "open"
    /\ call = <<>>
    /\ lookups = [t \in Turn |-> NoCounts] /\ violations = [t \in Turn |-> NoCounts]
    /\ slot = Empty /\ records = <<>>

-----------------------------------------------------------------------------
(* The queue.  A step of the task at the head takes it off and adds what it *)
(* makes ready: "later" at the end, "next" to run without a wait.          *)
Runs(does) == ready # <<>> /\ Head(ready).does = does
Yields(next, later) == ready' = next \o Tail(ready) \o later
AddsReady(tasks) == ready' = ready \o tasks

(* A message of the user is dispatched.                                     *)
Arrive(t) == 
    /\ phase[t] = "new" /\ \A s \in Turn : s < t => phase[s] # "new"
    /\ phase' = [phase EXCEPT ![t] = "queued"]
    /\ AddsReady(<<Task("turn", t)>>)
    /\ UNCHANGED <<lock, waiters, stopped, turnVars, batchVars, auditVars>>

(* asyncio.Lock: taken when free and nobody waits, or by the first waiter.  *)
LockFree(t) == lock = NoTurn /\ (waiters = <<>> \/ Head(waiters) = t)

(* _process_message up to the request of the model: the started hook is a   *)
(* task, RESTORE and BUILD do not wait.                                    *)
Begin == 
    /\ Runs("turn")
    /\ LET t == Head(ready).turn IN 
       IF LockFree(t)
       THEN /\ lock' = t /\ waiters' = IF waiters = <<>> THEN <<>> ELSE Tail(waiters)
            /\ phase' = [phase EXCEPT ![t] = "model"]
            /\ window' = [window EXCEPT ![t] = <<"user">>]
            /\ Yields(<<>>, <<Task("start", t)>>)
       ELSE /\ waiters' = Append(waiters, t)
            /\ phase' = [phase EXCEPT ![t] = "waiting"]
            /\ Yields(<<>>, <<>>)
            /\ UNCHANGED <<lock, window>>
    /\ UNCHANGED <<stopped, exit, rounds, batchVars, auditVars>>

(* The end of a turn: it leaves the lock, whose first waiter becomes ready. *)
(* Its report is handed over by a task: made by the run that returned, or   *)
(* by the finally of _process_message, which needs one task more.          *)
Woken == IF waiters = <<>> THEN <<>> ELSE <<Task("turn", Head(waiters))>>
Slip_ReportLate(t, how) == <<Task("emit", t)>>
Slip_NoFallback(t, how) == IF how = "abandoned" THEN <<>> ELSE <<Task("notify", t)>>
ReportTask(t, how) == <<Task(IF how = "abandoned" THEN "emit" ELSE "notify", t)>>
EndTurn(t, how) == 
    /\ phase' = [phase EXCEPT ![t] = "over"]
    /\ exit' = [exit EXCEPT ![t] = how]
    /\ lock' = NoTurn
    /\ Yields(<<>>, ReportTask(t, how) \o Woken)
    /\ batches' = <<>> /\ batch' = <<>> /\ settled' = "open"
    /\ UNCHANGED <<waiters, stopped, rounds, auditVars>>

(* The model answers: the request needs the network, which takes longer    *)
(* than the two steps of the started hook.  A cancellation that comes first *)
(* ends the turn.                                                          *)
ModelReplies(t) == 
    /\ phase[t] = "model" /\ ~Queued(Task("reply", t))
    /\ ~Queued(Task("start", t)) /\ ~Queued(Task("startHook", t))
    /\ AddsReady(<<Task("reply", t)>>)
    /\ UNCHANGED <<lock, waiters, phase, stopped, turnVars, batchVars, auditVars>>

(* execute_all: the next batch.  A single call runs in the turn's own task, *)
(* several are tasks of a gather.                                          *)
Launches(b) == 
    LET tasks == [i \in DOMAIN b |-> CallTask(b[i].id)] IN 
    /\ batch' = Ids(b) /\ settled' = "open"
    /\ IF Len(b) = 1 THEN Yields(tasks, <<>>) ELSE Yields(<<>>, tasks)

AnswerWithCalls(t, plan) == 
    LET id(n) == [turn |-> t, round |-> rounds[t] + 1, n |-> n]
        asked == [n \in DOMAIN plan |-> [tool |-> plan[n], id |-> id(n)]]
        all == Batches(asked)
    IN  /\ rounds' = [rounds EXCEPT ![t] = @ + 1]
        /\ window' = [window EXCEPT ![t] = Append(@, "calls")]
        /\ phase' = [phase EXCEPT ![t] = "tools"]
        /\ call' = [c \in DOMAIN call \cup {id(n) : n \in DOMAIN plan} |-> 
                      IF c \in DOMAIN call THEN call[c]
                      ELSE [tool |-> plan[c.n], state |-> "waiting", shown |-> "no", result |-> "none",
                            cancelled |-> FALSE]]
        /\ Launches(Head(all)) /\ batches' = Tail(all)
        /\ UNCHANGED <<lock, waiters, stopped, exit, lookups, violations, auditVars>>

MayAsk(t) == rounds[t] < MaxRounds

Reply == 
    /\ Runs("reply")
    /\ LET t == Head(ready).turn IN 
       \/ /\ t \in stopped
          /\ EndTurn(t, "abandoned")
          /\ UNCHANGED <<window, call, lookups, violations>>
       \/ /\ t \notin stopped
          /\ window' = [window EXCEPT ![t] = Append(@, "answer")]
          /\ EndTurn(t, "answer")
          /\ UNCHANGED <<call, lookups, violations>>
       \/ /\ t \notin stopped /\ MayAsk(t)
          /\ \E plan \in Plans : AnswerWithCalls(t, plan)

-----------------------------------------------------------------------------
(* A call came to its end: "done" with a result, "raised" by the progress   *)
(* callback, or "cut" by a cancellation.  A gather is settled by the first *)
(* call that raises or is cut, or when all are done, and its other calls   *)
(* run on; a single call goes on with the turn at once.                    *)
Gathered == Len(batch) > 1
CallOver(id, c) == 
    LET others == \A i \in DOMAIN batch : batch[i] # id => call[batch[i]].state = "done"
        now == c.state \in {"raised", "cut"} \/ others
        mine == settled = "open" /\ id \in ToSet(batch) /\ now
    IN  /\ call' = [call EXCEPT ![id] = c]
        /\ settled' = IF ~mine THEN settled ELSE IF c.state = "done" THEN "done" ELSE "raised"
        /\ CASE ~mine             -> Yields(<<>>, <<>>)
             [] mine /\ Gathered  -> Yields(<<>>, <<Task("batch", id.turn)>>)
             [] mine /\ ~Gathered -> Yields(<<Task("batch", id.turn)>>, <<>>)

(* execute_one up to the first wait: the guards in their order, the pre     *)
(* hooks, the notice that the tool starts.  A refused call shows nothing;  *)
(* the notice is written to the channel, which may be gone.                *)
EnterCall(id) == 
    LET tool == call[id].tool IN 
    /\ lookups' = [lookups EXCEPT ![id.turn] = CountLookup(@, tool)]
    /\ \/ /\ Throttled(lookups[id.turn], tool)
          /\ CallOver(id, [call[id] EXCEPT !.state = "done", !.result = "throttled"])
          /\ UNCHANGED slot
       \/ /\ ~Throttled(lookups[id.turn], tool)
          /\ \E misfit, refuses \in BOOLEAN : 
             \/ /\ Refusals(tool, misfit, refuses) # {}
                /\ CallOver(id, [call[id] EXCEPT !.state = "done", !.result = "refused"])
                /\ UNCHANGED slot
             \/ /\ Refusals(tool, misfit, refuses) = {}
                /\ slot' = PreInvoke(slot, id)
                /\ \/ /\ call' = [call EXCEPT ![id].state = "running",
                                               ![id].shown = IF Notified(tool) THEN "start" ELSE "silent"]
                      /\ Yields(<<>>, <<>>) /\ UNCHANGED settled
                   \/ Notified(tool) /\ CallOver(id, [call[id] EXCEPT !.state = "raised"])
    /\ UNCHANGED violations

(* ToolReturns: the tool answered.  _execute_core_and_handle and the notice *)
(* of the end: post hooks see the result of a tool that did not raise.     *)
ToolReturns(id) == 
    /\ call[id].state = "running" /\ ~Queued(CallTask(id))
    /\ AddsReady(<<CallTask(id)>>)
    /\ UNCHANGED <<lock, waiters, phase, stopped, turnVars, batchVars, auditVars>>

EndNotice(id, c) == 
    \/ CallOver(id, [c EXCEPT !.state = "done",
                              !.shown = IF Notified(c.tool) THEN EndPhase(c.result) ELSE "silent"])
    \/ Notified(c.tool) /\ CallOver(id, [c EXCEPT !.state = "raised"])

LeaveCall(id) == 
    LET tool == call[id].tool IN 
    /\ \/ /\ slot' = PostInvoke(slot, id)
          /\ EndNotice(id, [call[id] EXCEPT !.result = "ok"])
          /\ UNCHANGED violations
       \/ \E fault \in Faults : 
             /\ violations' = [violations EXCEPT ![id.turn] = CountViolation(@, fault, tool)]
             /\ EndNotice(id, [call[id] EXCEPT !.result = Classified(violations[id.turn], fault, tool)])
             /\ UNCHANGED slot
    /\ UNCHANGED lookups

(* A call that was cancelled while it was awaited is cut at its next step.  *)
StepCall == 
    /\ Runs("call")
    /\ LET id == Head(ready).call IN 
       IF call[id].cancelled
       THEN CallOver(id, [call[id] EXCEPT !.state = "cut"]) /\ UNCHANGED <<slot, lookups, violations>>
       ELSE IF call[id].state = "waiting" THEN EnterCall(id) ELSE LeaveCall(id)
    /\ UNCHANGED <<lock, waiters, phase, stopped, turnVars, batches, batch, records>>

(* The turn goes on when its batch is settled: the cancellation, the error  *)
(* of the callback (which the runner folds into the result of the turn),   *)
(* the next batch, or the request with all the results.                    *)
BatchOver == 
    /\ Runs("batch")
    /\ LET t == Head(ready).turn IN 
       \/ /\ t \in stopped /\ EndTurn(t, "abandoned") /\ UNCHANGED <<window, call>>
       \/ /\ t \notin stopped /\ settled = "raised"
          /\ EndTurn(t, "error") /\ UNCHANGED <<window, call>>
       \/ /\ t \notin stopped /\ settled = "done" /\ batches # <<>>
          /\ Launches(Head(batches)) /\ batches' = Tail(batches)
          /\ UNCHANGED <<lock, waiters, phase, stopped, turnVars, call, auditVars>>
       \/ /\ t \notin stopped /\ settled = "done" /\ batches = <<>>
          /\ phase' = [phase EXCEPT ![t] = "model"]
          /\ window' = [window EXCEPT ![t] = 
                @ \o [n \in 1 .. Cardinality({c \in DOMAIN call : c.turn = t /\ c.round = rounds[t]}) |-> "tool"]]
          /\ batch' = <<>> /\ settled' = "open"
          /\ Yields(<<>>, <<>>)
          /\ UNCHANGED <<lock, waiters, stopped, exit, rounds, batches, call, auditVars>>
    /\ UNCHANGED <<lookups, violations>>

(* The running turn is cancelled: its request, or all the calls it awaits.  *)
(* (A turn that still waits for the lock leaves no trace here.)            *)
Slip_CancelsFirst(t) == IF batch # <<>> /\ settled = "open" THEN {Head(batch)} ELSE {}
Awaited(t) == {id \in ToSet(batch) : settled = "open" /\ Undone(id)}
Wakes(t) == 
    FoldLeft(LAMBDA tasks, id : IF id \in Awaited(t) /\ ~Queued(CallTask(id)) THEN Append(tasks, CallTask(id)) ELSE tasks,
             <<>>, batch)
Stop(t) == 
    /\ phase[t] \in {"model", "tools"} /\ t \notin stopped
    /\ stopped' = stopped \cup {t}
    /\ call' = [id \in DOMAIN call |-> 
                  IF id \in Awaited(t) THEN [call[id] EXCEPT !.cancelled = TRUE] ELSE call[id]]
    /\ AddsReady(IF phase[t] = "tools" THEN Wakes(t)
                 ELSE IF Queued(Task("reply", t)) THEN <<>> ELSE <<Task("reply", t)>>)
    /\ UNCHANGED <<lock, waiters, phase, turnVars, batches, batch, settled, lookups, violations, auditVars>>

-----------------------------------------------------------------------------
(* The hook tasks: _emit_turn_report of an abandoned turn,                 *)
(* _notify_plugins_message_completed and _started, and the plugin's hooks. *)
Passes(from, to) == 
    /\ Runs(from)
    /\ Yields(<<>>, <<Task(to, Head(ready).turn)>>)
    /\ UNCHANGED <<lock, waiters, phase, stopped, turnVars, batchVars, auditVars>>
EmitAbandoned == Passes("emit", "notify")
NotifyCompleted == Passes("notify", "hook")
NotifyStarted == Passes("start", "startHook")

MessageStarted == 
    /\ Runs("startHook")
    /\ slot' = Started(slot, Head(ready).turn)
    /\ Yields(<<>>, <<>>)
    /\ UNCHANGED <<lock, waiters, phase, stopped, turnVars, batchVars, records>>

Report(t) == 
    IF exit[t] = "abandoned" THEN [turn |-> t, exit |-> exit[t], rounds |-> 0, window |-> <<"user">>]
    ELSE [turn |-> t, exit |-> exit[t], rounds |-> rounds[t], window |-> window[t]]
MessageCompleted == 
    /\ Runs("hook")
    /\ LET report == Report(Head(ready).turn) IN 
       records' = Append(records, Record(slot, report)) /\ slot' = Completed(slot, report)
    /\ Yields(<<>>, <<>>)
    /\ UNCHANGED <<lock, waiters, phase, stopped, turnVars, batchVars>>

LoopStep == 
    \/ Begin \/ Reply \/ StepCall \/ BatchOver
    \/ EmitAbandoned \/ NotifyCompleted \/ NotifyStarted \/ MessageStarted \/ MessageCompleted
Returns == (\E t \in Turn : ModelReplies(t)) \/ (\E id \in DOMAIN call : ToolReturns(id))

(* Every turn is over and every task has run.                               *)
Quiet == 
    /\ ready = <<>> /\ \A t \in Turn : phase[t] = "over"
    /\ \A id \in DOMAIN call : call[id].state # "running"
    /\ UNCHANGED auditedVars

AuditedNext == 
    \/ LoopStep \/ Returns
    \/ \E t \in Turn : Arrive(t) \/ Stop(t)
    \/ Quiet

AuditedSpec == AuditedInit /\ [][AuditedNext]_auditedVars

(* The loop runs what is ready; the provider and every tool answer or time  *)
(* out.                                                                    *)
AuditedFairness == WF_auditedVars(LoopStep) /\ WF_auditedVars(Returns)
AuditedLiveSpec == AuditedSpec /\ AuditedFairness

-----------------------------------------------------------------------------
(* What was recorded of a turn is the turn's: one record per turn, only     *)
(* with calls of its own, which agrees with the report; a call is          *)
(* interrupted unless its result reached the post hooks.  A turn that      *)
(* returned from its run is recorded with all the calls that passed the    *)
(* guards.  (An abandoned one may lose them: the next turn's started hook   *)
(* can overtake the longer way of its report and overwrite the slot.)      *)
Hooked(t) == {id \in DOMAIN call : id.turn = t /\ call[id].result \notin {"throttled", "refused"} 
                                   /\ (call[id].shown # "no" \/ call[id].state = "raised")}
RecordSound(r) == 
    LET spans == ToSet(r.spans) IN 
    /\ spans \subseteq Hooked(r.turn)
    /\ Len(r.spans) = Cardinality(spans)
    /\ r.exit = exit[r.turn]
    /\ \A id \in spans \ ToSet(r.interrupted) : call[id].result = "ok"
    /\ r.exit # "abandoned" => spans = Hooked(r.turn)
    /\ r.exit = "answer" => 
          /\ r.outputs = 1 /\ r.inputs = 1
          /\ \A id \in ToSet(r.interrupted) : call[id].result \notin {"ok", "none"}
RecordsSound == 
    /\ AuditedTypeOK
    /\ \A i, j \in DOMAIN records : i # j => records[i].turn # records[j].turn
    /\ \A i \in DOMAIN records : RecordSound(records[i])

(* A tool runs only for the turn that holds the user's lock, and a turn     *)
(* that was answered has shown the end of every tool it showed the start   *)
(* of: no call survives its turn.  The exception is the gather one of      *)
(* whose calls the progress callback broke: its other calls go on alone.   *)
Broken(t) == \E id \in DOMAIN call : id.turn = t /\ call[id].state = "raised"
CallsEndWithTurn == 
    \A id \in DOMAIN call : ~Broken(id.turn) => 
        /\ call[id].state = "running" => lock = id.turn /\ phase[id.turn] = "tools"
        /\ exit[id.turn] = "answer" => 
              /\ call[id].shown # "start" /\ call[id].result # "none"
              /\ call[id].shown = "end" => call[id].result = "ok"

(* Every turn that began is recorded in the end, answered or abandoned.     *)
Recorded(t) == \E i \in DOMAIN records : records[i].turn = t
EveryTurnRecorded == \A t \in Turn : phase[t] = "model" ~> Recorded(t)
=============================================================================
