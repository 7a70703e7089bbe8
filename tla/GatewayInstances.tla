-------------------------- MODULE GatewayInstances --------------------------
(***************************************************************************)
(* gateway/: the "svc" commands that start, stop, restart and inspect the  *)
(* gateway instances under a data directory, and the processes they        *)
(* control.  A command is a process of its own: several may run at once,   *)
(* and each may die at any point.  All they share is the operating         *)
(* system, the pid files and the health ports.                             *)
(*                                                                         *)
(* A pid is "free", or has a process: "boot" (no signal handler yet), "up", *)
(* "ending" (kernel.shutdown runs), or "other", a process of somebody else *)
(* that got the number.                                                    *)
(***************************************************************************)
EXTENDS Naturals, FiniteSets

CONSTANTS Directories,    \* the data directory, in the order of names: what the
                          \* config.yaml of each is, and says of the port
          Port, DefaultPort,
          Pid,
          Command,        \* processes of the command line
          Kinds,          \* the commands they may be
          MaxCommands,    \* bound: commands issued
          MaxFaults,      \* bound: crashes, reused pids, failed writes
          NoPid

(* discover: directories whose config.yaml can be read; a port that is no   *)
(* number is the default one, and several may have the same.               *)
Instance == {d \in DOMAIN Directories : Directories[d].config = "fine"}
PortOf == [i \in Instance |->
              IF Directories[i].port \in Port THEN Directories[i].port ELSE DefaultPort]

ASSUME GatewayAssumption ==
    /\ DefaultPort \in Port
    /\ DOMAIN Directories \subseteq Nat \ {0} /\ NoPid \notin Pid
    /\ Kinds \subseteq {"start", "stop", "restart", "status"}
    /\ MaxCommands \in Nat /\ MaxFaults \in Nat

VARIABLES file,           \* [Instance -> pid named by the pid file]
          proc, runs,     \* [Pid -> state], [Pid -> instance it runs]
          health,         \* [Port -> process that listens]
          cmd,            \* [Command -> kind, instances to do, step, pid read]
          issued, faults,
          overlapped,     \* commands ran at the same time
          reused,         \* a pid named by a file went to another process
          cut,            \* a command ended between a spawn and its pid file
          stopped         \* instances whose last command was a successful stop

osVars == <<proc, runs, health>>
history == <<overlapped, reused, cut>>
vars == <<file, osVars, cmd, issued, faults, history, stopped>>

NoInstance == 0
Steps == {"idle", "read", "check", "spawn", "write", "poll", "wait", "remove", "pause"}
Idle == [kind |-> "none", todo |-> {}, inst |-> NoInstance, at |-> "idle", phase |-> "none", pid |-> NoPid]
Alive(p) == proc[p] # "free"
Own(p, i) == proc[p] \in {"boot", "up", "ending"} /\ runs[p] = i
Busy(c) == cmd[c].at # "idle"

TypeOK == 
    /\ file \in [Instance -> Pid \cup {NoPid}]
    /\ proc \in [Pid -> {"free", "boot", "up", "ending", "other"}]
    /\ runs \in [Pid -> Instance \cup {NoInstance}]
    /\ health \in [Port -> Pid \cup {NoPid}]
    /\ cmd \in [Command -> [kind : Kinds \cup {"none"}, todo : SUBSET Instance,
                            inst : Instance \cup {NoInstance}, at : Steps,
                            phase : {"none", "start", "stop", "status"}, pid : Pid \cup {NoPid}]]
    /\ issued \in 0 .. MaxCommands /\ faults \in 0 .. MaxFaults
    /\ stopped \subseteq Instance
    /\ \A p \in Pid : proc[p] \in {"free", "other"} <=> runs[p] = NoInstance
    /\ \A q \in Port : health[q] # NoPid => proc[health[q]] \in {"up", "ending"}

Init == 
    /\ file = [i \in Instance |-> NoPid]
    /\ proc = [p \in Pid |-> "free"] /\ runs = [p \in Pid |-> NoInstance]
    /\ health = [q \in Port |-> NoPid]
    /\ cmd = [c \in Command |-> Idle]
    /\ issued = 0 /\ faults = 0
    /\ overlapped = FALSE /\ reused = FALSE /\ cut = FALSE
    /\ stopped = {}

-----------------------------------------------------------------------------
(* The processes.  A gateway whose health port is taken runs without the    *)
(* endpoint; one that is told to end while it boots dies of the signal.    *)
Ends(p) == 
    /\ proc' = [proc EXCEPT ![p] = "free"]
    /\ runs' = [runs EXCEPT ![p] = NoInstance]
    /\ health' = [q \in Port |-> IF health[q] = p THEN NoPid ELSE health[q]]

Listens(p) == 
    LET q == PortOf[runs[p]] IN 
    health' = IF health[q] = NoPid THEN [health EXCEPT ![q] = p] ELSE health
BootDone(p) == 
    /\ proc[p] = "boot"
    /\ proc' = [proc EXCEPT ![p] = "up"]
    /\ Listens(p)
    /\ UNCHANGED <<file, runs, cmd, issued, faults, history, stopped>>

ShutdownDone(p) == 
    /\ proc[p] = "ending" /\ Ends(p)
    /\ UNCHANGED <<file, cmd, issued, faults, history, stopped>>

Fault == faults < MaxFaults /\ faults' = faults + 1
ProcessDies(p) == 
    /\ Fault /\ proc[p] \in {"boot", "up", "ending"} /\ Ends(p)
    /\ UNCHANGED <<file, cmd, issued, history, stopped>>

Remembered(p) == (\E i \in Instance : file[i] = p) \/ \E c \in Command : cmd[c].pid = p
OtherTakes(p) == 
    /\ Fault /\ proc[p] = "free" /\ Remembered(p)
    /\ proc' = [proc EXCEPT ![p] = "other"] /\ reused' = TRUE
    /\ UNCHANGED <<file, runs, health, cmd, issued, overlapped, cut, stopped>>

(* Popen and os.kill.                                                      *)
Spawn(p, i) == 
    /\ proc[p] = "free"
    /\ proc' = [proc EXCEPT ![p] = "boot"] /\ runs' = [runs EXCEPT ![p] = i]
    /\ reused' = (reused \/ (\E j \in Instance \ {i} : file[j] = p)
                        \/ \E c \in Command : cmd[c].pid = p /\ cmd[c].inst # i)
    /\ UNCHANGED health
Signalled(p) == proc' = [proc EXCEPT ![p] = "ending"] /\ UNCHANGED <<runs, health>>
Terminate(p) == 
    CASE proc[p] = "boot" -> Ends(p)
      [] proc[p] = "up"   -> Signalled(p)
      [] proc[p] = "other" -> Ends(p) \/ UNCHANGED osVars
      [] OTHER            -> UNCHANGED osVars
Kill(p) == IF Alive(p) THEN Ends(p) ELSE UNCHANGED osVars

-----------------------------------------------------------------------------
(* A command begins with one instance or with all of them, and does them   *)
(* one after the other; a restart stops, pauses and starts each, whatever  *)
(* the stop said.                                                          *)
First(kind) == IF kind = "restart" THEN "stop" ELSE kind
Take(c, kind, todo) == 
    IF todo = {} THEN cmd' = [cmd EXCEPT ![c] = Idle]
    ELSE LET i == CHOOSE i \in todo : \A j \in todo : i <= j IN 
            cmd' = [cmd EXCEPT ![c] = [kind |-> kind, todo |-> todo \ {i}, inst |-> i,
                                       at |-> "read", phase |-> First(kind), pid |-> NoPid]]

Targets == {Instance} \cup {{i} : i \in Instance}
Begin(c, kind, todo) == 
    /\ ~Busy(c) /\ issued < MaxCommands /\ todo # {}
    /\ kind = "status" => todo = Instance
    /\ issued' = issued + 1
    /\ Take(c, kind, todo)
    /\ overlapped' = (overlapped \/ \E d \in Command : Busy(d))
    /\ stopped' = IF kind = "status" THEN stopped ELSE stopped \ todo
    /\ UNCHANGED <<file, osVars, faults, reused, cut>>

Goes(c, at, pid) == cmd' = [cmd EXCEPT ![c].at = at, ![c].pid = pid]
Done(c, ok) == 
    IF cmd[c].kind = "restart" /\ cmd[c].phase = "stop"
    THEN Goes(c, "pause", NoPid) /\ UNCHANGED stopped
    ELSE /\ Take(c, cmd[c].kind, cmd[c].todo)
         /\ stopped' = IF ok /\ cmd[c].phase = "stop" THEN stopped \cup {cmd[c].inst} ELSE stopped

Unmoved == UNCHANGED <<issued, faults, history>>

(* PidManager.read.                                                        *)
Read(c) == 
    /\ cmd[c].at = "read"
    /\ LET p == file[cmd[c].inst] IN 
       IF p # NoPid THEN Goes(c, "check", p) /\ UNCHANGED stopped
       ELSE IF cmd[c].phase = "start" THEN Goes(c, "spawn", NoPid) /\ UNCHANGED stopped
       ELSE Done(c, TRUE)
    /\ UNCHANGED <<file, osVars>> /\ Unmoved

(* is_running.  Start takes a live pid for the instance; stop and status    *)
(* remove the file of a dead one; stop sends SIGTERM to a live one.        *)
StartChecks(c) == 
    /\ cmd[c].at = "check" /\ cmd[c].phase = "start"
    /\ IF Alive(cmd[c].pid) THEN Done(c, TRUE) ELSE Goes(c, "spawn", NoPid) /\ UNCHANGED stopped
    /\ UNCHANGED <<file, osVars>> /\ Unmoved

StatusChecks(c) == 
    /\ cmd[c].at = "check" /\ cmd[c].phase = "status"
    /\ IF Alive(cmd[c].pid) THEN Done(c, TRUE) ELSE Goes(c, "remove", cmd[c].pid) /\ UNCHANGED stopped
    /\ UNCHANGED <<file, osVars>> /\ Unmoved

(* The process of another user cannot be signalled: the stop fails.         *)
StopChecks(c) == 
    /\ cmd[c].at = "check" /\ cmd[c].phase = "stop"
    /\ LET p == cmd[c].pid IN 
       \/ Alive(p) /\ Terminate(p) /\ Goes(c, "wait", p) /\ UNCHANGED stopped
       \/ proc[p] = "other" /\ UNCHANGED osVars /\ Done(c, FALSE)
       \/ ~Alive(p) /\ UNCHANGED osVars /\ Goes(c, "remove", p) /\ UNCHANGED stopped
    /\ UNCHANGED file /\ Unmoved

(* ProcessManager.stop: until the process is gone, or SIGKILL.              *)
StopSees(c) == 
    /\ cmd[c].at = "wait" /\ ~Alive(cmd[c].pid)
    /\ Goes(c, "remove", cmd[c].pid)
    /\ UNCHANGED <<file, osVars, stopped>> /\ Unmoved
Slip_GivesUp(c) == UNCHANGED osVars
LastResort(c) == Kill(cmd[c].pid)
StopTimeout(c) == 
    /\ cmd[c].at = "wait" /\ Alive(cmd[c].pid)
    /\ \/ LastResort(c) /\ Goes(c, "remove", cmd[c].pid) /\ UNCHANGED stopped
       \/ proc[cmd[c].pid] = "other" /\ UNCHANGED osVars /\ Done(c, FALSE)
    /\ UNCHANGED file /\ Unmoved

(* PidManager.remove: whatever the file says by now.                        *)
Removes(c) == 
    /\ cmd[c].at = "remove"
    /\ file' = [file EXCEPT ![cmd[c].inst] = NoPid]
    /\ Done(c, TRUE)
    /\ UNCHANGED osVars /\ Unmoved

Pause(c) == 
    /\ cmd[c].at = "pause"
    /\ cmd' = [cmd EXCEPT ![c].at = "read", ![c].phase = "start"]
    /\ UNCHANGED <<file, osVars, stopped>> /\ Unmoved

(* _start_one after the check: spawn, write the pid, poll the port.  A      *)
(* command that fails to spawn or to write is told so, but the process it  *)
(* spawned runs on.                                                        *)
Starts(c) == 
    /\ cmd[c].at = "spawn"
    /\ \E p \in Pid : Spawn(p, cmd[c].inst) /\ Goes(c, "write", p)
    /\ UNCHANGED <<file, issued, faults, overlapped, cut, stopped>>
CannotStart(c) == 
    /\ cmd[c].at = "spawn" /\ Done(c, FALSE)
    /\ UNCHANGED <<file, osVars>> /\ Unmoved
PidWritten(c) == [file EXCEPT ![cmd[c].inst] = cmd[c].pid]
Writes(c) == 
    /\ cmd[c].at = "write"
    /\ file' = PidWritten(c)
    /\ Goes(c, "poll", cmd[c].pid)
    /\ UNCHANGED <<osVars, stopped>> /\ Unmoved
CannotWrite(c) == 
    /\ cmd[c].at = "write" /\ Fault /\ Done(c, FALSE) /\ cut' = TRUE
    /\ UNCHANGED <<file, osVars, issued, overlapped, reused>>

(* HealthChecker.poll: any answer on the port will do, until the timeout.   *)
Slip_PollsOn(c) == health[PortOf[cmd[c].inst]] = cmd[c].pid
PollEnds(c) == TRUE
Polled(c) == 
    /\ cmd[c].at = "poll" /\ PollEnds(c)
    /\ Done(c, health[PortOf[cmd[c].inst]] # NoPid)
    /\ UNCHANGED <<file, osVars>> /\ Unmoved

CommandDies(c) == 
    /\ Busy(c) /\ Fault
    /\ cmd' = [cmd EXCEPT ![c] = Idle] /\ cut' = (cut \/ cmd[c].at = "write")
    /\ UNCHANGED <<file, osVars, issued, overlapped, reused, stopped>>

CommandStep(c) == 
    \/ Read(c) \/ StartChecks(c) \/ StatusChecks(c) \/ StopChecks(c)
    \/ StopSees(c) \/ StopTimeout(c) \/ Removes(c) \/ Pause(c)
    \/ Starts(c) \/ CannotStart(c) \/ Writes(c) \/ CannotWrite(c) \/ Polled(c)

Next == 
    \/ \E c \in Command : 
          \/ CommandStep(c) \/ CommandDies(c)
          \/ \E kind \in Kinds, todo \in Targets : Begin(c, kind, todo)
    \/ \E p \in Pid : BootDone(p) \/ ShutdownDone(p) \/ ProcessDies(p) \/ OtherTakes(p)

Spec == Init /\ [][Next]_vars

(* A command runs on; the processes it controls may hang in any state.      *)
LiveSpec == Spec /\ \A c \in Command : WF_vars(CommandStep(c))

-----------------------------------------------------------------------------
(* A pid file never names the process of another instance unless the number *)
(* was reused, however commands overlap, die and fail.  With one command at *)
(* a time, none of which ended between a spawn and its pid file, an         *)
(* instance never has two processes, and between commands the one it has    *)
(* is the one its file names and a stopped instance has none, whatever      *)
(* processes hang or crash.                                                 *)
FilesNameOwn == 
    \A i \in Instance : \A p \in Pid : 
        file[i] = p /\ proc[p] \in {"boot", "up", "ending"} => runs[p] = i
Solo == ~overlapped /\ ~reused /\ ~cut
Resting == \A c \in Command : ~Busy(c)
PidFilesSound == 
    /\ TypeOK
    /\ ~reused => FilesNameOwn
    /\ Solo => \A i \in Instance : Cardinality({p \in Pid : Own(p, i)}) <= 1
    /\ Solo /\ Resting => \A p \in Pid, i \in Instance : Own(p, i) => file[i] = p /\ i \notin stopped

(* Every command comes to an end, though processes hang.                    *)
CommandsEnd == \A c \in Command : Busy(c) ~> ~Busy(c)
=============================================================================
