----------------------------- MODULE CronService -----------------------------
(***************************************************************************)
(* The scheduler of one user's timed jobs: CronService with the callback   *)
(* that the tool_cron plugin gives it (builtin/tool_cron/service.py and    *)
(* plugin.py).                                                             *)
(*                                                                         *)
(* The service keeps its jobs in memory and in jobs.json and has one timer *)
(* task.  The task sleeps until the earliest job is due, runs the due jobs *)
(* one after the other, saves, and arms the next timer.  A job runs as a   *)
(* turn of the user, behind the user's lock.  Every change of the jobs     *)
(* arms a new timer, and arming cancels the old one, whatever it is doing: *)
(* sleeping, waiting for the user's lock, in the turn, or delivering.      *)
(* handle_message turns a cancellation into a notification, so a cancelled *)
(* job looks finished to the service.                                      *)
(*                                                                         *)
(* Tool calls come from whoever holds the user's lock: a turn the user     *)
(* started, or the turn of a job.  Time is a counter; a job's next run is  *)
(* 0 when it has none.  The plugin adds one-time jobs with                 *)
(* delete_after_run, so no job is ever disabled.                           *)
(***************************************************************************)
EXTENDS Integers, SequencesExt

CONSTANTS
    MaxJobs,         \* bound: jobs added in a behaviour
    MaxTicks,        \* bound: timer tasks alive at once
    MaxNow,          \* bound: the clock
    MaxRestarts,     \* bound: restarts of the process
    AtDelay,         \* how far ahead a one-time job is set
    Period,          \* the interval of a recurring job
    MaxSleep,        \* max_sleep_ms
    Kinds,           \* bound: what the first job may be, the second ...
    NoTick, User, Free

ASSUME BoundsAssumption ==
    /\ MaxJobs \in Nat \ {0} /\ MaxTicks \in Nat \ {0}
    /\ MaxNow \in Nat /\ MaxRestarts \in Nat
    /\ AtDelay \in Nat \ {0} /\ Period \in Nat \ {0} /\ MaxSleep \in Nat \ {0}

Jobs  == 1 .. MaxJobs
Ticks == 1 .. MaxTicks

ASSUME NamesAssumption ==
    /\ Kinds \in [Jobs -> SUBSET {"at", "every"}]
    /\ User # Free /\ NoTick \notin Ticks /\ User \notin Ticks /\ Free \notin Ticks

VARIABLES
    now,         \* the clock
    store,       \* _store: the jobs in memory, by id
    disk,        \* jobs.json
    hasFile,     \* jobs.json exists
    running,     \* _running
    timer,       \* _timer_task
    timerActive, \* _timer_active: the store is frozen
    tick,        \* the timer tasks
    lock,        \* who holds the user's lock
    closing,     \* the kernel refuses new turns
    restarts,
    added,       \* history: the kind of every job ever added
    removed,     \* history: the jobs the tool removed
    ran,         \* history: how often the turn of a job came to its end
    worst        \* history: the worst disturbance so far

vars == <<now, store, disk, hasFile, running, timer, timerActive, tick, lock,
          closing, restarts, added, removed, ran, worst>>
service == <<store, disk, hasFile, running, timer, timerActive>>
history == <<added, removed, ran>>

\* The disturbances, each with what it may spoil below: the jobs were changed
\* while one of them was executed; the write at the end of a tick failed (a
\* failed write in a tool call is an error its caller sees: left out).
Calm    == 0
Changed == 1
Failed  == 2
Worsen(d) == worst' = IF d > worst THEN d ELSE worst

\* at is 0 for a recurring job
Job  == [at : Nat, next : Nat]
None == [j \in {} |-> [at |-> 0, next |-> 0]]
Idle == [pc |-> "none", wake |-> 0, queue |-> {}, fresh |-> TRUE, cancel |-> FALSE]

Init ==
    /\ now = 0 /\ store = None /\ disk = None /\ hasFile = FALSE
    /\ running = FALSE /\ timer = NoTick /\ timerActive = FALSE
    /\ tick = [t \in Ticks |-> Idle]
    /\ lock = Free /\ closing = FALSE /\ restarts = 0
    /\ added = <<>> /\ removed = {} /\ ran = [j \in Jobs |-> 0] /\ worst = Calm

-----------------------------------------------------------------------------
(* The helpers of the service *)
Executing(t) == tick[t].pc \in {"connect", "wait", "run", "deliver"}

ComputeNextRun(job) ==
    IF job.at = 0 THEN now + Period
    ELSE IF job.at > now THEN job.at ELSE 0

RecomputeNextRuns(jobs) ==
    [j \in DOMAIN jobs |-> [jobs[j] EXCEPT !.next = ComputeNextRun(jobs[j])]]

Without(jobs, j) == [i \in DOMAIN jobs \ {j} |-> jobs[i]]

\* What _load_store answers: memory while frozen, otherwise the file.
Loaded == IF timerActive THEN store ELSE disk

\* A reload replaces the job objects: those that a tick still holds are stale.
Reloaded ==
    IF timerActive THEN tick
    ELSE [t \in Ticks |-> IF Executing(t) THEN [tick[t] EXCEPT !.fresh = FALSE]
                                          ELSE tick[t]]

\* (a mutant: always sleep the whole interval)
Slip_NextWake(jobs) == now + MaxSleep

NextWake(jobs) ==
    LET times == {jobs[j].next : j \in DOMAIN jobs} \ {0}
        latest == now + MaxSleep
    IN  IF times = {} THEN latest
        ELSE LET first == CHOOSE x \in times : \A y \in times : x <= y
             IN  IF first <= now THEN now ELSE IF first <= latest THEN first ELSE latest

\* task.cancel(): a sleeping tick ends, one that executes gets the request.
Cancel(tk, t) ==
    IF t = NoTick THEN tk
    ELSE IF tk[t].pc = "none" THEN tk
    ELSE IF tk[t].pc = "sleep" THEN [tk EXCEPT ![t] = Idle]
    ELSE [tk EXCEPT ![t].cancel = TRUE]

\* _arm_timer, with the ticks tk and the jobs it finds.  When no task name is
\* free (the bound MaxTicks) the step is not taken.
ArmTimer(tk, jobs, run) ==
    LET rest == Cancel(tk, timer)
        free == {t \in Ticks : rest[t].pc = "none"}
        new  == CHOOSE t \in free : \A u \in free : t <= u
    IN  IF ~run THEN tick' = rest /\ UNCHANGED timer
        ELSE /\ free # {}
             /\ timer' = new
             /\ tick' = [rest EXCEPT ![new] =
                            [Idle EXCEPT !.pc = "sleep", !.wake = NextWake(jobs)]]

\* _save_store, then _arm_timer
SaveAndArm(tk, jobs, run) ==
    /\ disk' = jobs /\ hasFile' = TRUE
    /\ ArmTimer(tk, jobs, run)

-----------------------------------------------------------------------------
(* The cron tool *)
MayCallTool(who) ==
    /\ lock = who
    /\ who = User \/ who \in Ticks

\* The jobs are changed, while one of them is executed or not.
ChangeJobs == IF \E t \in Ticks : Executing(t) THEN Worsen(Changed) ELSE UNCHANGED worst

NewJob(kind) ==
    IF kind = "at" THEN [at |-> now + AtDelay, next |-> now + AtDelay]
                   ELSE [at |-> 0, next |-> now + Period]

\* start(): the file is read and every next run computed from now on.
Started == IF running THEN Loaded ELSE RecomputeNextRuns(Loaded)

\* action "add".  A service that is not running is started first (start and
\* add_job in one go: the timer of start() is cancelled by the one of add_job).
AddJob(who, kind) ==
    LET j    == Len(added) + 1
        base == Started
        jobs == [i \in DOMAIN base \cup {j} |-> IF i = j THEN NewJob(kind) ELSE base[i]]
    IN  /\ MayCallTool(who)
        /\ j \in Jobs /\ kind \in Kinds[j]
        /\ running' = TRUE
        /\ store' = jobs
        /\ SaveAndArm(Reloaded, jobs, TRUE)
        /\ added' = Append(added, kind)
        /\ ChangeJobs
        /\ UNCHANGED <<now, timerActive, lock, closing, restarts, removed, ran>>

\* An "add" whose message or schedule is refused (an interval, or a time from
\* now, under the hard minimum) has started the service all the same.
RefuseAdd(who) ==
    /\ MayCallTool(who)
    /\ ~running
    /\ running' = TRUE
    /\ store' = Started
    /\ SaveAndArm(Reloaded, Started, TRUE)
    /\ ChangeJobs
    /\ UNCHANGED <<now, timerActive, lock, closing, restarts, added, removed, ran>>

\* (a mutant: the removal is not saved)
Slip_RemoveJob(who, j) ==
    LET jobs == Without(Loaded, j)
    IN  /\ MayCallTool(who)
        /\ j \in DOMAIN Loaded
        /\ store' = jobs
        /\ ArmTimer(Reloaded, jobs, running)
        /\ removed' = removed \cup {j}
        /\ ChangeJobs
        /\ UNCHANGED <<now, disk, hasFile, running, timerActive, lock, closing, restarts,
                       added, ran>>

\* action "remove" of a job the store has.
RemoveJob(who, j) ==
    LET jobs == Without(Loaded, j)
    IN  /\ MayCallTool(who)
        /\ j \in DOMAIN Loaded
        /\ store' = jobs
        /\ SaveAndArm(Reloaded, jobs, running)
        /\ removed' = removed \cup {j}
        /\ ChangeJobs
        /\ UNCHANGED <<now, running, timerActive, lock, closing, restarts, added, ran>>

\* action "list", and "remove" of an unknown id: only the load.
ListJobs(who) ==
    /\ MayCallTool(who)
    /\ store' = Loaded
    /\ tick' = Reloaded
    /\ UNCHANGED <<now, disk, hasFile, running, timer, timerActive, lock, closing,
                   restarts, history, worst>>

-----------------------------------------------------------------------------
(* The timer task *)

\* A tick goes through the due jobs in the order of the store, which is the
\* order of their ids: the jobs it has left are a set.
NextOf(queue) == CHOOSE j \in queue : \A k \in queue : j <= k

\* handle_message of the next due job: refused while the kernel closes,
\* otherwise it connects the MCP servers first.
Begin(rec, queue) ==
    [rec EXCEPT !.pc = IF closing THEN "deliver" ELSE "connect", !.wake = 0, !.queue = queue]

\* (a mutant: no timer is armed at the end)
Slip_EndTick(t, tk, jobs) ==
    /\ timerActive' = FALSE
    /\ disk' = jobs /\ hasFile' = TRUE
    /\ tick' = [tk EXCEPT ![t] = Idle]
    /\ UNCHANGED <<timer, worst>>

\* The end of _on_timer: save, unfreeze, arm; when the write fails nothing is
\* armed.
EndTick(t, tk, jobs) ==
    /\ timerActive' = FALSE
    /\ \/ /\ SaveAndArm([tk EXCEPT ![t] = Idle], jobs, running)
          /\ UNCHANGED worst
       \/ /\ tick' = [tk EXCEPT ![t] = Idle]
          /\ Worsen(Failed)
          /\ UNCHANGED <<disk, hasFile, timer>>

\* (a mutant: the store is not frozen)
Slip_Wake(t) ==
    LET due == {j \in DOMAIN Loaded : Loaded[j].next # 0 /\ now >= Loaded[j].next}
    IN  /\ tick[t].pc = "sleep"
        /\ now >= tick[t].wake
        /\ running
        /\ store' = Loaded
        /\ IF due = {} THEN EndTick(t, Reloaded, Loaded)
           ELSE /\ tick' = [Reloaded EXCEPT ![t] = Begin(tick[t], due)]
                /\ UNCHANGED <<disk, hasFile, timer, timerActive, worst>>
        /\ UNCHANGED <<now, running, lock, closing, restarts, history>>

\* tick() wakes and calls _on_timer, up to the first await.
Wake(t) ==
    LET due == {j \in DOMAIN Loaded : Loaded[j].next # 0 /\ now >= Loaded[j].next}
    IN  /\ tick[t].pc = "sleep"
        /\ now >= tick[t].wake
        /\ running
        /\ store' = Loaded
        /\ IF due = {} THEN EndTick(t, Reloaded, Loaded)
           ELSE /\ timerActive' = TRUE
                /\ tick' = [Reloaded EXCEPT ![t] = Begin(tick[t], due)]
                /\ UNCHANGED <<disk, hasFile, timer, worst>>
        /\ UNCHANGED <<now, running, lock, closing, restarts, history>>

Connected(t) ==
    /\ tick[t].pc = "connect" /\ ~tick[t].cancel
    /\ tick' = [tick EXCEPT ![t].pc = "wait"]
    /\ UNCHANGED <<now, service, lock, closing, restarts, history, worst>>

TakeLock(t) ==
    /\ tick[t].pc = "wait" /\ ~tick[t].cancel
    /\ lock = Free
    /\ lock' = t
    /\ tick' = [tick EXCEPT ![t].pc = "run"]
    /\ UNCHANGED <<now, service, closing, restarts, history, worst>>

\* The turn comes to its end, with a reply or with an error: both are
\* delivered next.
TurnEnds(t) ==
    LET j == NextOf(tick[t].queue)
    IN  /\ tick[t].pc = "run" /\ ~tick[t].cancel
        /\ lock' = Free
        /\ tick' = [tick EXCEPT ![t].pc = "deliver"]
        /\ ran' = [ran EXCEPT ![j] = IF @ = 2 THEN 2 ELSE @ + 1]
        /\ UNCHANGED <<now, service, closing, restarts, added, removed, worst>>

\* A cancellation reaches the turn, or the wait for the lock: handle_message
\* answers with the notification turn_cancelled, which is delivered next.
TurnCancelled(t) ==
    /\ tick[t].pc \in {"wait", "run"} /\ tick[t].cancel
    /\ lock' = IF lock = t THEN Free ELSE lock
    /\ tick' = [tick EXCEPT ![t].pc = "deliver", ![t].cancel = FALSE]
    /\ UNCHANGED <<now, service, closing, restarts, history, worst>>

\* The rest of _execute_job for job j of tick t: a one-time job is deleted by
\* its id, a recurring one gets its next run in the object the tick holds.
AfterRun(t, j) ==
    IF added[j] = "at" THEN Without(store, j)
    ELSE IF tick[t].fresh /\ j \in DOMAIN store
         THEN [store EXCEPT ![j].next = now + Period]
         ELSE store

\* The result, or the notice of the error, is pushed to the conversation the
\* job was added from; or it is not (nothing to say, no target, a channel that
\* is never pushed to, a publish that fails): only the status of the job differs.
Delivered(t) ==
    LET j    == NextOf(tick[t].queue)
        rest == tick[t].queue \ {j}
        jobs == AfterRun(t, j)
    IN  /\ tick[t].pc = "deliver" /\ ~tick[t].cancel
        /\ store' = jobs
        /\ IF rest = {} THEN EndTick(t, tick, jobs)
           ELSE /\ tick' = [tick EXCEPT ![t] = Begin(@, rest)]
                /\ UNCHANGED <<disk, hasFile, timer, timerActive, worst>>
        /\ UNCHANGED <<now, running, lock, closing, restarts, history>>

\* A cancellation that arrives during the delivery, or while the MCP servers
\* are connected, is caught by nobody: the tick ends there; only the finally
\* clause of _on_timer runs.
TickCancelled(t) ==
    /\ tick[t].pc \in {"connect", "deliver"} /\ tick[t].cancel
    /\ timerActive' = FALSE
    /\ tick' = [tick EXCEPT ![t] = Idle]
    /\ UNCHANGED <<now, store, disk, hasFile, running, timer, lock, closing, restarts, history, worst>>

-----------------------------------------------------------------------------
(* The surroundings *)
UserTurnBegins ==
    /\ lock = Free /\ ~closing
    /\ lock' = User
    /\ UNCHANGED <<now, service, tick, closing, restarts, history, worst>>

UserTurnEnds ==
    /\ lock = User
    /\ lock' = Free
    /\ UNCHANGED <<now, service, tick, closing, restarts, history, worst>>

\* /stop, or the drain of shutdown, cancels the task of the turn.
StopTurn(t) ==
    /\ tick[t].pc \in {"wait", "run"}
    /\ ~tick[t].cancel
    /\ tick' = [tick EXCEPT ![t].cancel = TRUE]
    /\ UNCHANGED <<now, service, lock, closing, restarts, history, worst>>

BeginShutdown ==
    /\ ~closing
    /\ closing' = TRUE
    /\ UNCHANGED <<now, service, tick, lock, restarts, history, worst>>

\* The plugin is disabled when the drain is over: stop() cancels the timer.
ServiceStops ==
    /\ closing /\ running
    /\ running' = FALSE
    /\ timer' = NoTick
    /\ tick' = Cancel(tick, timer)
    /\ UNCHANGED <<now, store, disk, hasFile, timerActive, lock, closing, restarts, history, worst>>

\* The process ends, in order or not, and boots again: _scan_existing_jobs
\* starts the service when there is a file.
Restart ==
    LET jobs  == RecomputeNextRuns(disk)
        fresh == [t \in Ticks |-> Idle]
    IN  /\ restarts < MaxRestarts
        /\ restarts' = restarts + 1
        /\ closing' = FALSE /\ lock' = Free /\ timerActive' = FALSE
        /\ running' = hasFile
        /\ IF hasFile
           THEN /\ store' = jobs /\ disk' = jobs
                /\ timer' = 1
                /\ tick' = [fresh EXCEPT ![1] =
                              [Idle EXCEPT !.pc = "sleep", !.wake = NextWake(jobs)]]
           ELSE /\ store' = None /\ timer' = NoTick /\ tick' = fresh
                /\ UNCHANGED disk
        /\ UNCHANGED <<now, hasFile, history, worst>>

Clock ==
    /\ now < MaxNow
    /\ now' = now + 1
    /\ UNCHANGED <<service, tick, lock, closing, restarts, history, worst>>

Next ==
    \/ \E who \in {User} \cup Ticks :
          \/ \E kind \in {"at", "every"} : AddJob(who, kind)
          \/ \E j \in Jobs : RemoveJob(who, j)
          \/ ListJobs(who) \/ RefuseAdd(who)
    \/ \E t \in Ticks :
          \/ Wake(t) \/ Connected(t) \/ TakeLock(t) \/ TurnEnds(t) \/ TurnCancelled(t)
          \/ Delivered(t) \/ TickCancelled(t) \/ StopTurn(t)
    \/ UserTurnBegins \/ UserTurnEnds \/ BeginShutdown \/ ServiceStops \/ Restart \/ Clock

Spec == Init /\ [][Next]_vars

TickStep(t) ==
    Wake(t) \/ Connected(t) \/ TurnEnds(t) \/ TurnCancelled(t) \/ Delivered(t) \/ TickCancelled(t)

\* The event loop runs every task that can go on; turns and deliveries end;
\* the user's lock is fair (Answered of TurnDispatch shows it).
Fairness ==
    /\ \A t \in Ticks : WF_vars(TickStep(t)) /\ SF_vars(TakeLock(t))
    /\ WF_vars(UserTurnEnds)
FairSpec == Spec /\ Fairness

-----------------------------------------------------------------------------
(* Properties *)
TypeOK ==
    /\ now \in 0 .. MaxNow /\ restarts \in 0 .. MaxRestarts
    /\ DOMAIN store \subseteq Jobs /\ \A j \in DOMAIN store : store[j] \in Job
    /\ DOMAIN disk \subseteq Jobs /\ \A j \in DOMAIN disk : disk[j] \in Job
    /\ {hasFile, running, timerActive, closing} \subseteq BOOLEAN
    /\ timer \in Ticks \cup {NoTick}
    /\ lock \in {Free, User} \cup Ticks
    /\ tick \in [Ticks -> [pc : {"none", "sleep", "connect", "wait", "run", "deliver"},
                           wake : Nat, queue : SUBSET Jobs, fresh : BOOLEAN, cancel : BOOLEAN]]
    /\ added \in Seq({"at", "every"}) /\ Len(added) <= MaxJobs
    /\ removed \subseteq 1 .. Len(added)
    /\ ran \in [Jobs -> 0 .. 2]
    /\ worst \in Calm .. Failed

\* Every job is covered: while the service runs there is a timer that wakes
\* when the earliest job is due (or now, if that is past), or a tick that
\* executes and will arm one.  The cancellations of _arm_timer chase one
\* another through the ticks; the scheduler survives all of them, as long as
\* no write at the end of a tick fails (service.py:153: due jobs are polled).
TimerCovers ==
    /\ TypeOK
    /\ running /\ worst < Failed =>
      \E t \in Ticks :
         \/ /\ tick[t].pc = "sleep"
            /\ \A j \in DOMAIN store :
                  store[j].next # 0 =>
                     tick[t].wake <= (IF store[j].next < now THEN now ELSE store[j].next)
         \/ tick[t].pc \in {"wait", "run"}
         \/ tick[t].pc \in {"connect", "deliver"} /\ ~tick[t].cancel

\* No job lives in memory alone: a crash at any moment loses no accepted job.
NothingOnlyInMemory == DOMAIN store \subseteq DOMAIN disk

\* A removed job does not come back, neither in memory nor in the file,
\* whatever tick was executing with an older list while it was removed.
RemovedStaysRemoved == removed \cap (DOMAIN store \cup DOMAIN disk) = {}

\* What the tool answered stands.
StoreKeepsWord == NothingOnlyInMemory /\ RemovedStaysRemoved

OneTime == {j \in 1 .. Len(added) : added[j] = "at"}

\* A one-time job runs at most once (plugin.py:184), over restarts, /stop and
\* shutdown, unless the jobs are changed while one is executed or a write fails.
RunsOnce == worst < Changed => \A j \in OneTime : ran[j] <= 1

\* Unless the jobs are changed while one is executed, one tick executes at a
\* time, on a frozen store (service.py:259) whose job objects are the ones it
\* holds.
OneExecution ==
    worst < Changed =>
       \A t \in Ticks : Executing(t) =>
          /\ timerActive /\ tick[t].fresh
          /\ \A u \in Ticks : Executing(u) => u = t

\* Executions neither overlap nor repeat.
ExecutedOnce == RunsOnce /\ OneExecution

Due(j)  == running /\ j \in DOMAIN store /\ store[j].next # 0 /\ store[j].next <= now
Done(j) == j \notin DOMAIN store \/ store[j].next > now

\* A due job is reached, run or removed, however often turns are stopped,
\* unless the jobs are changed while one is executed, a write fails or the
\* service is stopped with the kernel; a start finds the time of a one-time job
\* already passed and schedules it no more.
Missed(j) == store[j].next = 0
DueIsRun == \A j \in Jobs : Due(j) ~> (Done(j) \/ Missed(j) \/ worst >= Changed \/ ~running)

CallsTool(who) ==
    \/ ListJobs(who) \/ RefuseAdd(who)
    \/ \E j \in Jobs : RemoveJob(who, j)
    \/ \E kind \in {"at", "every"} : AddJob(who, kind)

\* The same once nobody calls the tool any more (service.py:153: the due jobs
\* are polled and executed): whatever the calls left behind, the ticks get done.
DueIsRunInTheEnd ==
    /\ [](worst < Failed)
    /\ <>[][\A who \in {User} \cup Ticks : ~CallsTool(who)]_vars
    => \A j \in Jobs : Due(j) ~> Done(j)

\* A one-time job that waits for its time has one: the scheduler will come to
\* it, also after a restart (SKILL.md:14 "runs once at a specific time").
OneTimeIsScheduled ==
    running => \A j \in OneTime \cap DOMAIN store : store[j].next # 0

\* A job that the tool reported as removed (plugin.py:426) does not start after
\* that.
RemovedNeverStarts ==
    [][\A t \in Ticks : LET q == tick'[t].queue IN
          q # tick[t].queue /\ q # {} => NextOf(q) \notin removed']_vars
=============================================================================
