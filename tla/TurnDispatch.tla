---------------------------- MODULE TurnDispatch ----------------------------
(***************************************************************************)
(* The life of a user message: Kernel._handle_message_impl (gate, MCP      *)
(* connection, registration), AgentLoop.dispatch (blocking hooks, lock,     *)
(* body), the turn state machine of AgentLoop._process_message, the hook    *)
(* tasks that carry its report to the plugins, the /stop command, and      *)
(* Kernel.shutdown draining all of it.                                     *)
(*                                                                         *)
(* One task is one call of handle_message.  A step of a task runs from one *)
(* suspension point of the event loop to the next, so what the code does   *)
(* without suspending is one action.                                       *)
(***************************************************************************)
EXTENDS LockManager

CONSTANTS NeedsMcp,      \* messages that find a server to connect, so that
                         \* connect_mcp really awaits
          SerialUser,    \* users whose channel sends the next message only
                         \* after the previous one was answered
          MayHang        \* messages whose turn or hooks may never end

ASSUME DispatchAssumption == 
    NeedsMcp \subseteq Task /\ SerialUser \subseteq User /\ MayHang \subseteq Task

VARIABLES phase,         \* the suspension point each task is at
          cancelled,     \* tasks with a CancelledError on its way
          active,        \* kernel._active_turns
          blocker,       \* loop._pending_blockers, by the turn of the group
          awaited,       \* the turn whose blocking group a task awaits
          begun,         \* turns whose _process_message has started
          report,        \* how far a turn's report has come
          kernel,        \* the stage of Kernel.shutdown
          draining,      \* turns cancelled by _drain_active_turns
          timedOut       \* some bound of the shutdown was exceeded

taskVars == <<phase, cancelled, begun>>
hookVars == <<blocker, awaited, report>>
kernelVars == <<kernel, draining, timedOut>>
vars == <<lockVars, taskVars, hookVars, kernelVars, active>>

Phases == {"idle", "mcp", "blocker", "acquire", "restore", "build", "run", "save", "done"}
Inner == {"restore", "build", "run", "save"}
Reports == {"none", "emit", "notify", "hooks", "delivered", "killed"}
KernelStages == {"up", "drainTurns", "drainCancelled", "drainHooks", "stopping", "down"}

TypeOK == 
    /\ LockTypeOK
    /\ phase \in [Task -> Phases]
    /\ cancelled \subseteq Task
    /\ active \in [User -> Task \cup {NoTask}]
    /\ blocker \in [User -> Task \cup {NoTask}]
    /\ awaited \in [Task -> Task \cup {NoTask}]
    /\ begun \subseteq Task
    /\ report \in [Task -> Reports]
    /\ kernel \in KernelStages
    /\ draining \subseteq Task
    /\ timedOut \in BOOLEAN

Init == 
    /\ LockInit
    /\ phase = [t \in Task |-> "idle"]
    /\ cancelled = {}
    /\ active = [u \in User |-> NoTask]
    /\ blocker = [u \in User |-> NoTask]
    /\ awaited = [t \in Task |-> NoTask]
    /\ begun = {}
    /\ report = [t \in Task |-> "none"]
    /\ kernel = "up"
    /\ draining = {}
    /\ timedOut = FALSE

Alive == kernel # "down"                  \* the process has not exited
HookPending(t) == report[t] \in {"emit", "notify", "hooks"}
GroupRunning(t) == t # NoTask /\ report[t] = "hooks"
Registered == {active[u] : u \in User} \ {NoTask}
SameUser(t) == {s \in Task : owner[s] = owner[t]}
Resumed(t) == Alive /\ t \notin cancelled  \* the awaited thing, not a cancel

-----------------------------------------------------------------------------
(* LockManager.acquire, with the first state of the turn entered at once   *)
(* when neither the lock nor the gate makes the task wait.                 *)
EnterOrWait(t) == 
    /\ phase' = [phase EXCEPT ![t] = IF stage'[t] = "in" THEN "restore" ELSE "acquire"]
    /\ begun' = IF stage'[t] = "in" THEN begun \cup {t} ELSE begun

Acquire(t) == (AcquireFree(t) \/ AcquireQueued(t)) /\ EnterOrWait(t)


(* The task enters _active_turns, whatever entry its user has there, and   *)
(* dispatch takes the user's blocking hook group out of _pending_blockers. *)
Register(t) == 
    /\ active' = [active EXCEPT ![owner[t]] = t]
    /\ blocker' = [blocker EXCEPT ![owner[t]] = NoTask]
    /\ \/ /\ GroupRunning(blocker[owner[t]])
          /\ phase' = [phase EXCEPT ![t] = "blocker"]
          /\ awaited' = [awaited EXCEPT ![t] = blocker[owner[t]]]
          /\ UNCHANGED <<lockVars, begun>>
       \/ /\ ~GroupRunning(blocker[owner[t]])
          /\ Acquire(t)
          /\ UNCHANGED awaited
    /\ UNCHANGED <<cancelled, report, kernelVars>>

Arrives(t) == 
    /\ phase[t] = "idle"
    /\ Alive
    /\ owner[t] \in SerialUser => \A s \in SameUser(t) : phase[s] \in {"idle", "done"}

(* The gate is closed: the user is told that the kernel shuts down. *)
Refuse(t) == 
    /\ Arrives(t)
    /\ kernel # "up"
    /\ phase' = [phase EXCEPT ![t] = "done"]
    /\ UNCHANGED <<lockVars, cancelled, begun, hookVars, kernelVars, active>>

AdmitDirect(t) == 
    /\ t \notin NeedsMcp
    /\ Arrives(t)
    /\ kernel = "up"
    /\ Register(t)

AdmitToMcp(t) == 
    /\ t \in NeedsMcp
    /\ Arrives(t)
    /\ kernel = "up"
    /\ phase' = [phase EXCEPT ![t] = "mcp"]
    /\ UNCHANGED <<lockVars, cancelled, begun, hookVars, kernelVars, active>>

(* connect_mcp returns; the closing flag is not looked at again. *)
McpConnected(t) == 
    /\ Alive
    /\ phase[t] = "mcp"
    /\ Register(t)

BlockerDone(t) == 
    /\ Resumed(t)
    /\ phase[t] = "blocker"
    /\ ~GroupRunning(awaited[t])
    /\ awaited' = [awaited EXCEPT ![t] = NoTask]
    /\ Acquire(t)
    /\ UNCHANGED <<cancelled, blocker, report, kernelVars, active>>

LockReady(t) == 
    /\ Resumed(t)
    /\ phase[t] = "acquire"
    /\ LockGranted(t) \/ GateGranted(t)
    /\ EnterOrWait(t)
    /\ UNCHANGED <<cancelled, hookVars, kernelVars, active>>

-----------------------------------------------------------------------------
(* The turn state machine (_TRANSITIONS).                                  *)
RestoreDone(t) == 
    /\ Resumed(t)
    /\ phase[t] = "restore"
    /\ phase' = [phase EXCEPT ![t] = "build"]
    /\ UNCHANGED <<lockVars, cancelled, begun, hookVars, kernelVars, active>>

BuildDone(t) == 
    /\ Resumed(t)
    /\ phase[t] = "build"
    /\ phase' = [phase EXCEPT ![t] = "run"]
    /\ UNCHANGED <<lockVars, cancelled, begun, hookVars, kernelVars, active>>

(* The runner returned: the report goes out before the turn is saved. *)
RunDone(t) == 
    /\ Resumed(t)
    /\ phase[t] = "run"
    /\ phase' = [phase EXCEPT ![t] = "save"]
    /\ report' = [report EXCEPT ![t] = "notify"]
    /\ UNCHANGED <<lockVars, cancelled, begun, blocker, awaited, kernelVars, active>>

Slip_NoFallbackReport(t) == report' = report

(* The finally clauses of _process_message, dispatch and handle_message:   *)
(* a turn without a report gets the task that emits an ABANDONED one.      *)
LeavesReport(t) == 
    report' = [report EXCEPT ![t] = IF @ = "none" THEN "emit" ELSE @]

Finish(t) == 
    /\ Release(t)
    /\ LeavesReport(t)
    /\ phase' = [phase EXCEPT ![t] = "done"]
    /\ cancelled' = cancelled \ {t}
    /\ active' = [active EXCEPT ![owner[t]] = NoTask]
    /\ UNCHANGED <<begun, blocker, awaited, kernelVars>>

(* SAVE ends; RESPOND does not suspend. *)
SaveDone(t) == 
    /\ Resumed(t)
    /\ phase[t] = "save"
    /\ Finish(t)

(* A handler raises: RESPOND turns the error into a notification. *)
HandlerFails(t) == 
    /\ Resumed(t)
    /\ phase[t] \in Inner
    /\ Finish(t)

-----------------------------------------------------------------------------
(* CancelledError reaches a task where it waits.                           *)
CancelInside(t) == 
    /\ phase[t] \in Inner
    /\ Finish(t)

(* A message that dies without a turn leaves _active_turns.                *)
Abort(t) == 
    /\ phase' = [phase EXCEPT ![t] = "done"]
    /\ cancelled' = cancelled \ {t}
    /\ active' = [active EXCEPT ![owner[t]] = NoTask]
    /\ UNCHANGED <<begun, kernelVars>>

(* In the line for the user's lock or for the gate.                        *)
CancelAcquire(t) == 
    /\ phase[t] = "acquire"
    /\ CancelLockWait(t) \/ CancelGateWait(t)
    /\ Abort(t)
    /\ UNCHANGED hookVars

(* Awaiting a task passes the cancellation on to it. *)
CancelBlocked(t) == 
    /\ phase[t] = "blocker"
    /\ report' = [report EXCEPT ![awaited[t]] = IF @ = "hooks" THEN "killed" ELSE @]
    /\ awaited' = [awaited EXCEPT ![t] = NoTask]
    /\ Abort(t)
    /\ UNCHANGED <<lockVars, blocker>>

CancelDelivered(t) == 
    /\ Alive
    /\ t \in cancelled
    /\ CancelInside(t) \/ CancelAcquire(t) \/ CancelBlocked(t)

(* /stop: intercepted before the lock, cancels the task _active_turns has. *)
Stop(u) == 
    /\ kernel = "up"
    /\ active[u] # NoTask
    /\ cancelled' = cancelled \cup {active[u]}
    /\ UNCHANGED <<lockVars, phase, begun, hookVars, kernelVars, active>>

-----------------------------------------------------------------------------
(* The tasks behind a report: the ABANDONED emitter, the notifier that     *)
(* starts the plugins' hooks, and the hooks.  They die with the process.   *)
EmitAbandoned(t) == 
    /\ Alive
    /\ report[t] = "emit"
    /\ report' = [report EXCEPT ![t] = "notify"]
    /\ UNCHANGED <<lockVars, taskVars, blocker, awaited, kernelVars, active>>

Notify(t) == 
    /\ Alive
    /\ report[t] = "notify"
    /\ report' = [report EXCEPT ![t] = "hooks"]
    /\ blocker' = [blocker EXCEPT ![owner[t]] = t]
    /\ UNCHANGED <<lockVars, taskVars, awaited, kernelVars, active>>

HooksDone(t) == 
    /\ Alive
    /\ report[t] = "hooks"
    /\ report' = [report EXCEPT ![t] = "delivered"]
    /\ UNCHANGED <<lockVars, taskVars, blocker, awaited, kernelVars, active>>

-----------------------------------------------------------------------------
(* Kernel.shutdown.                                                        *)
Proceed(from, to) == 
    /\ kernel = from
    /\ kernel' = to
    /\ UNCHANGED <<lockVars, phase, begun, hookVars, active>>

BeginShutdown == 
    Proceed("up", "drainTurns") /\ UNCHANGED <<cancelled, draining, timedOut>>

(* Slips: the drain looks once instead of waiting, or has no deadline.     *)
Slip_SnapshotDrain == 
    /\ Proceed("drainTurns", "drainHooks")
    /\ UNCHANGED <<cancelled, draining, timedOut>>
Slip_NoDeadline == FALSE

TurnsQuiet == 
    /\ Registered = {}
    /\ Proceed("drainTurns", "drainHooks")
    /\ UNCHANGED <<cancelled, draining, timedOut>>

TurnsDeadline == 
    /\ Registered # {}
    /\ Proceed("drainTurns", "drainCancelled")
    /\ cancelled' = cancelled \cup Registered
    /\ draining' = Registered
    /\ UNCHANGED timedOut

CancelledQuiet == 
    /\ \A t \in draining : phase[t] = "done"
    /\ Proceed("drainCancelled", "drainHooks")
    /\ UNCHANGED <<cancelled, draining, timedOut>>

CancelledDeadline == 
    /\ \E t \in draining : phase[t] # "done"
    /\ Proceed("drainCancelled", "drainHooks")
    /\ timedOut' = TRUE
    /\ UNCHANGED <<cancelled, draining>>

HooksQuiet == 
    /\ \A t \in Task : ~HookPending(t)
    /\ Proceed("drainHooks", "stopping")
    /\ UNCHANGED <<cancelled, draining, timedOut>>

HooksDeadline == 
    /\ \E t \in Task : HookPending(t)
    /\ Proceed("drainHooks", "stopping")
    /\ timedOut' = TRUE
    /\ UNCHANGED <<cancelled, draining>>

(* Channels stopped, MCP closed, sessions flushed, plugins unloaded. *)
Unload == 
    Proceed("stopping", "down") /\ UNCHANGED <<cancelled, draining, timedOut>>

Shutdown == 
    \/ BeginShutdown \/ TurnsQuiet \/ TurnsDeadline
    \/ CancelledQuiet \/ CancelledDeadline
    \/ HooksQuiet \/ HooksDeadline \/ Unload

-----------------------------------------------------------------------------
Waits(t) == McpConnected(t) \/ BlockerDone(t) \/ LockReady(t)
Works(t) == 
    \/ RestoreDone(t) \/ BuildDone(t) \/ RunDone(t) \/ SaveDone(t) \/ HandlerFails(t)
Hooks(t) == EmitAbandoned(t) \/ Notify(t) \/ HooksDone(t)

TaskStep(t) == 
    \/ Refuse(t) \/ AdmitDirect(t) \/ AdmitToMcp(t)
    \/ Waits(t) \/ Works(t) \/ CancelDelivered(t) \/ Hooks(t)

Next == 
    \/ \E t \in Task : TaskStep(t)
    \/ \E u \in User : Stop(u)
    \/ Shutdown

Spec == Init /\ [][Next]_vars

(* What the event loop owes: ready tasks are resumed, cancellations are    *)
(* delivered, and the bounded waits of shutdown end.  Turns and hooks end  *)
(* too, provider calls, tools and MCP having timeouts: all of them but     *)
(* those in MayHang, of whose work and hooks nothing is said.              *)
Proceeds(t) == Waits(t) \/ CancelDelivered(t)
Fairness == 
    /\ \A t \in Task \ MayHang : WF_vars(Proceeds(t) \/ Works(t) \/ Hooks(t))
    /\ \A t \in MayHang : WF_vars(Proceeds(t))
    /\ WF_vars(Shutdown /\ kernel # "up")

LiveSpec == Spec /\ Fairness

-----------------------------------------------------------------------------
(* dispatch brackets the whole turn by LockManager.acquire, so at this level *)
(* too, with every cancellation and error path, the tasks of one user are   *)
(* serialised and the gate is respected ("serialised per user, parallel    *)
(* across users", kernel.py:270-272).  MutexSpec of LockManager says it.    *)

(* What the lock owes to every message: no path of a message, cancelled or *)
(* not, leaks the user's lock or a permit of the gate.                     *)
LocksSound == TypeOK /\ PermitsConserved /\ LockHeldByLiveTask

(* "Exactly one terminal report per turn" (loop.py:1255): a turn that      *)
(* began and ended has a report on its way or delivered...                 *)
EveryTurnReported == 
    \A t \in begun : phase[t] = "done" => report[t] # "none"

(* ... and no report is ever sent a second time.                           *)
Rank == [none |-> 0, emit |-> 1, notify |-> 2, hooks |-> 3, delivered |-> 4, killed |-> 4]
ReportsMoveOn == \A t \in Task : Rank[report[t]] <= Rank[report'[t]]
NoSecondReport == [][ReportsMoveOn]_vars

(* Both halves, of every step (at the start no turn has begun).            *)
OneReport == [][ReportsMoveOn /\ EveryTurnReported']_vars

(* An entry of _active_turns is a message being handled, so /stop and the  *)
(* drain never cancel a task that already went on to something else.       *)
ActiveIsLive == 
    \A u \in User : active[u] # NoTask => 
        /\ owner[active[u]] = u
        /\ phase[active[u]] \notin {"idle", "mcp", "done"}

(* "/stop can interrupt a deadlocked turn" (README.md:32): while a turn of *)
(* u runs, _active_turns[u] is that turn ...                               *)
StopReachesRunningTurn == 
    \A t \in Inside : active[owner[t]] = t

(* ... which the code keeps for the users of a channel that sends one      *)
(* message at a time, whatever /stop and errors did to the earlier ones.   *)
SerialStopReachesTurn == 
    \A t \in Inside : owner[t] \in SerialUser => active[owner[t]] = t

(* kernel.py:295-297 and 606-618: after the gate closes nothing is added,  *)
(* so a shutdown that exceeded no bound leaves no turn running and no      *)
(* report undelivered when the plugins are unloaded ...                    *)
DownCleanly == kernel = "down" /\ ~timedOut
Lost(t) == t \in Inside \/ HookPending(t)
ShutdownLosesNothing == DownCleanly => \A t \in Task : ~Lost(t)

(* ... kept for the messages of serial users that found MCP connected,     *)
(* whatever the other users' messages do to the drain.                     *)
SerialShutdownLosesNothing == 
    DownCleanly => \A t \in Task \ NeedsMcp : owner[t] \in SerialUser => ~Lost(t)

(* What _active_turns is relied upon for: an entry is a message being      *)
(* handled, and for a user who sends one message at a time /stop and the   *)
(* drain of shutdown find the turn.                                        *)
ActiveTurnsServe == ActiveIsLive /\ SerialStopReachesTurn /\ SerialShutdownLosesNothing

(* docs/plugin_development.md:496: with block_next the framework awaits    *)
(* the hook before the user's next dispatch: no turn of a user runs while  *)
(* the blocking hooks of an earlier one do.                                *)
BlockNextHonoured == 
    \A s, t \in Task : 
        owner[s] = owner[t] /\ phase[s] = "done" /\ t \in Inside => ~GroupRunning(s)

(* What the proofs of these add to be inductive: where a task is in the    *)
(* turn and where it is in the lock agree, and reports follow the phases.  *)
PhasesAgree == 
    \A t \in Task : 
        /\ phase[t] \in Inner <=> stage[t] = "in"
        /\ phase[t] = "acquire" <=> stage[t] \in {"lockQ", "gateQ"}
        /\ phase[t] \in Inner => t \in begun
        /\ t \in begun => phase[t] \in Inner \cup {"done"}
        /\ phase[t] \in {"restore", "build", "run"} => report[t] = "none"

(* Every message let in is answered, whatever is stopped, unless a turn of *)
(* the same user hangs or turns that may hang have all the permits.        *)
NoPermitLeft == Gated /\ Cardinality(MayHang \cap Inside) >= MaxConcurrent
Answered == 
    \A t \in Task : SameUser(t) \cap MayHang = {} =>
        (phase[t] # "idle" ~> (phase[t] = "done" \/ NoPermitLeft \/ ~Alive))

(* Shutdown comes to its end even if turns and hooks hang.                 *)
ShutdownEnds == kernel = "drainTurns" ~> kernel = "down"

(* A cancelled message comes to its end even if everything else hangs, and *)
(* gives back the lock and the permit it may have held.                    *)
CancelledEnds == 
    \A t \in Task : t \in cancelled ~> ((stage[t] = "out" /\ phase[t] = "done") \/ ~Alive)

(* However much hangs, /stop and shutdown get through.                     *)
CancellationEnds == ShutdownEnds /\ CancelledEnds
=============================================================================
