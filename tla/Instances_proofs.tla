--------------------------- MODULE Instances_proofs ---------------------------
(***************************************************************************)
(* Proofs about the instances of the gateway.  First GatewayInstances, for  *)
(* any data directory, any number of ports, process numbers and command    *)
(* lines: what the pid files say of the processes, however commands        *)
(* overlap, die and fail.  Then InstanceLife, for any directories of       *)
(* plugins, any skills, any number of starts, crashes and turns and any    *)
(* edit of the files at any moment: no start passes over a core.md that was *)
(* changed, and no prompt shows a skill that was gone for longer than a    *)
(* list is kept.                                                           *)
(***************************************************************************)
EXTENDS GatewayInstances, InstanceLife, FiniteSetTheorems, WellFoundedInduction, TLAPS

Live == {"boot", "up", "ending"}

(* The least of a set of instances, which Take takes.                       *)
LEMMA LeastInstance ==
    ASSUME NEW S \in SUBSET Instance, S # {}
    PROVE  (CHOOSE i \in S : \A j \in S : i <= j) \in S
<1> DEFINE Below == OpToRel(<, Nat)
<1>1. S \subseteq Nat
  BY GatewayAssumption DEF Instance
<1>2. IsWellFoundedOn(Below, Nat)
  BY NatLessThanWellFounded
<1>3. \A x, y \in Nat : y < x => <<y, x>> \in Below
  BY DEF OpToRel
<1> HIDE DEF Below
<1>4. PICK x \in S : \A y \in S : <<y, x>> \notin Below
  BY <1>1, <1>2, WFMin, Zenon
<1>5. ASSUME NEW y \in S PROVE x <= y
  <2>1. x \in Nat /\ y \in Nat
    BY <1>1
  <2>2. ~(y < x)
    BY <1>3, <1>4, <2>1, Zenon
  <2> QED
    BY <2>1, <2>2
<1> QED
  BY <1>5

LEMMA InstanceFacts ==
    NoInstance \notin Instance /\ \A i \in Instance : PortOf[i] \in Port
  BY GatewayAssumption DEF Instance, NoInstance, PortOf

-----------------------------------------------------------------------------
(* Types.  What a busy command has to have at each of its steps.            *)
CmdRec == [kind : Kinds \cup {"none"}, todo : SUBSET Instance,
           inst : Instance \cup {NoInstance}, at : Steps,
           phase : {"none", "start", "stop", "status"}, pid : Pid \cup {NoPid}]

CmdOk(r) ==
    /\ r \in CmdRec
    /\ r.at # "idle" =>
          /\ r.inst \in Instance /\ r.inst \notin r.todo /\ r.kind \in Kinds
          /\ r.phase \in {"start", "stop", "status"} /\ (r.phase = "status" <=> r.kind = "status")
          /\ r.at \in {"check", "wait", "remove", "write", "poll"} => r.pid \in Pid
          /\ r.at \in {"spawn", "write", "poll"} => r.phase = "start"
          /\ r.at = "pause" => r.kind = "restart"

OsOk ==
    /\ proc \in [Pid -> {"free", "boot", "up", "ending", "other"}]
    /\ runs \in [Pid -> Instance \cup {NoInstance}]
    /\ health \in [Port -> Pid \cup {NoPid}]
    /\ \A p \in Pid : proc[p] \in {"free", "other"} <=> runs[p] = NoInstance
    /\ \A q \in Port : health[q] # NoPid => proc[health[q]] \in {"up", "ending"}

CmdsOk == cmd \in [Command -> CmdRec] /\ \A c \in Command : CmdOk(cmd[c])

Types ==
    /\ OsOk /\ CmdsOk
    /\ file \in [Instance -> Pid \cup {NoPid}]
    /\ issued \in 0 .. MaxCommands /\ faults \in 0 .. MaxFaults
    /\ stopped \subseteq Instance

LEMMA TypesImplied == Types => TypeOK
  BY DEF Types, OsOk, CmdsOk, CmdRec, TypeOK

(* The operating system: no step but a spawn brings a process to life, none *)
(* but OtherTakes gives a number to somebody else.                          *)
Fewer == \A p \in Pid : proc'[p] \in Live => proc[p] \in Live /\ runs'[p] = runs[p]
NoNewOther == \A p \in Pid : proc'[p] = "other" => proc[p] = "other"
OsMoves == OsOk' /\ Fewer /\ NoNewOther

LEMMA Unchanged == OsOk /\ UNCHANGED osVars => OsMoves
  BY DEF OsOk, osVars, OsMoves, Fewer, NoNewOther

LEMMA Ending ==
    ASSUME OsOk, NEW p \in Pid, Ends(p)
    PROVE  OsMoves /\ proc'[p] = "free"
<1>1. /\ proc' = [proc EXCEPT ![p] = "free"]
      /\ runs' = [runs EXCEPT ![p] = NoInstance]
      /\ health' = [q \in Port |-> IF health[q] = p THEN NoPid ELSE health[q]]
  <2>1. DOMAIN health = Port
    BY DEF OsOk
  <2> QED
    BY <2>1 DEF Ends
<1>2. p # NoPid
  BY GatewayAssumption
<1>3. proc'[p] = "free" /\ runs'[p] = NoInstance
  BY <1>1 DEF OsOk
<1>4. \A r \in Pid : r # p => proc'[r] = proc[r] /\ runs'[r] = runs[r]
  BY <1>1 DEF OsOk
<1>5. /\ proc' \in [Pid -> {"free", "boot", "up", "ending", "other"}]
      /\ runs' \in [Pid -> Instance \cup {NoInstance}]
      /\ health' \in [Port -> Pid \cup {NoPid}]
  BY <1>1 DEF OsOk
<1>6. \A r \in Pid : proc'[r] \in {"free", "other"} <=> runs'[r] = NoInstance
  BY <1>3, <1>4 DEF OsOk
<1>7. ASSUME NEW q \in Port, health'[q] # NoPid PROVE proc'[health'[q]] \in {"up", "ending"}
  <2>1. health'[q] = health[q] /\ health[q] # p /\ health[q] \in Pid
    BY <1>1, <1>2, <1>7 DEF OsOk
  <2> QED
    BY <1>4, <1>7, <2>1 DEF OsOk
<1>8. OsOk'
  BY <1>5, <1>6, <1>7 DEF OsOk
<1> QED
  BY <1>3, <1>4, <1>8 DEF OsMoves, Fewer, NoNewOther, Live

LEMMA Signalling ==
    ASSUME OsOk, NEW p \in Pid, proc[p] = "up", Signalled(p)
    PROVE  OsMoves
<1>1. proc' = [proc EXCEPT ![p] = "ending"] /\ runs' = runs /\ health' = health
  BY DEF Signalled
<1>2. proc'[p] = "ending" /\ \A r \in Pid : r # p => proc'[r] = proc[r]
  BY <1>1 DEF OsOk
<1>3. proc' \in [Pid -> {"free", "boot", "up", "ending", "other"}]
  BY <1>1 DEF OsOk
<1>4. \A r \in Pid : proc'[r] \in {"free", "other"} <=> runs'[r] = NoInstance
  BY <1>1, <1>2 DEF OsOk
<1>5. \A q \in Port : health'[q] # NoPid => proc'[health'[q]] \in {"up", "ending"}
  BY <1>1, <1>2 DEF OsOk
<1>6. OsOk'
  BY <1>1, <1>3, <1>4, <1>5 DEF OsOk
<1> QED
  BY <1>1, <1>2, <1>6 DEF OsMoves, Fewer, NoNewOther, Live

LEMMA Booting ==
    ASSUME OsOk, NEW p \in Pid, BootDone(p)
    PROVE  OsMoves
<1>1. proc[p] = "boot" /\ proc' = [proc EXCEPT ![p] = "up"] /\ runs' = runs /\ Listens(p)
  BY DEF BootDone
<1>2. proc'[p] = "up" /\ \A r \in Pid : r # p => proc'[r] = proc[r]
  BY <1>1 DEF OsOk
<1>3. runs[p] \in Instance /\ PortOf[runs[p]] \in Port
  BY <1>1, InstanceFacts DEF OsOk
<1>4. /\ health' \in [Port -> Pid \cup {NoPid}]
      /\ \A q \in Port : health'[q] \in {health[q], p}
  BY <1>1, <1>3 DEF Listens, OsOk
<1>5. proc' \in [Pid -> {"free", "boot", "up", "ending", "other"}]
  BY <1>1 DEF OsOk
<1>6. \A r \in Pid : proc'[r] \in {"free", "other"} <=> runs'[r] = NoInstance
  BY <1>1, <1>2 DEF OsOk
<1>7. ASSUME NEW q \in Port, health'[q] # NoPid PROVE proc'[health'[q]] \in {"up", "ending"}
  BY <1>2, <1>4, <1>7 DEF OsOk
<1>8. OsOk'
  BY <1>1, <1>4, <1>5, <1>6, <1>7 DEF OsOk
<1> QED
  BY <1>1, <1>2, <1>8 DEF OsMoves, Fewer, NoNewOther, Live

LEMMA Terminating ==
    ASSUME OsOk, NEW p \in Pid, Terminate(p)
    PROVE  OsMoves
<1>1. \/ Ends(p)
      \/ proc[p] = "up" /\ Signalled(p)
      \/ UNCHANGED osVars
  BY DEF Terminate
<1> QED
  BY <1>1, Ending, Signalling, Unchanged

-----------------------------------------------------------------------------
(* The moves of a command: a new record, and what it inherits.              *)
Follows(c, rec) ==
    /\ cmd' = [cmd EXCEPT ![c] = rec] /\ CmdOk(rec)
    /\ rec.pid # NoPid => rec.inst = cmd[c].inst /\ rec.pid \in {cmd[c].pid, file[rec.inst]}
    /\ rec.at # "idle" => /\ rec.kind = cmd[c].kind
                          /\ {rec.inst} \cup rec.todo \subseteq {cmd[c].inst} \cup cmd[c].todo
    /\ \/ stopped' = stopped
       \/ /\ cmd[c].phase = "stop" /\ stopped' = stopped \cup {cmd[c].inst}
          /\ rec.at # "idle" => {rec.inst} \cup rec.todo \subseteq cmd[c].todo

LEMMA IdleOk == CmdOk(Idle) /\ Idle.at = "idle" /\ Idle.pid = NoPid
  BY DEF Idle, CmdOk, CmdRec, Steps

LEMMA Taking ==
    ASSUME CmdsOk, NEW c \in Command, NEW kind \in Kinds, NEW todo \in SUBSET Instance,
           Take(c, kind, todo)
    PROVE  \E rec : /\ cmd' = [cmd EXCEPT ![c] = rec] /\ CmdOk(rec)
                    /\ rec.pid = NoPid /\ rec.at \in {"idle", "read"}
                    /\ rec.at # "idle" => rec.kind = kind /\ rec.inst \in todo /\ rec.todo \subseteq todo
<1>1. CASE todo = {}
  <2>1. cmd' = [cmd EXCEPT ![c] = Idle]
    BY <1>1 DEF Take
  <2> QED
    BY <2>1, IdleOk
<1>2. CASE todo # {}
  <2> DEFINE i   == CHOOSE i \in todo : \A j \in todo : i <= j
             rec == [kind |-> kind, todo |-> todo \ {i}, inst |-> i,
                     at |-> "read", phase |-> First(kind), pid |-> NoPid]
  <2>1. cmd' = [cmd EXCEPT ![c] = rec]
    BY <1>2 DEF Take
  <2>2. i \in todo
    BY <1>2, LeastInstance
  <2> HIDE DEF i
  <2>3. First(kind) \in {"start", "stop", "status"} /\ (First(kind) = "status" <=> kind = "status")
    BY GatewayAssumption DEF First
  <2>4. CmdOk(rec)
    BY <2>2, <2>3 DEF CmdOk, CmdRec, Steps
  <2>5. /\ rec.pid = NoPid /\ rec.at = "read" /\ rec.kind = kind
        /\ rec.inst \in todo /\ rec.todo \subseteq todo
    BY <2>2
  <2> HIDE DEF rec
  <2> QED
    BY <2>1, <2>4, <2>5
<1> QED
  BY <1>1, <1>2

LEMMA Going ==
    ASSUME CmdsOk, NEW c \in Command, Busy(c), NEW at \in Steps, NEW pid \in Pid \cup {NoPid},
           Goes(c, at, pid), stopped' = stopped,
           pid # NoPid => pid \in {cmd[c].pid, file[cmd[c].inst]},
           at \in {"check", "wait", "remove", "write", "poll"} => pid \in Pid,
           at \in {"spawn", "write", "poll"} => cmd[c].phase = "start",
           at = "pause" => cmd[c].kind = "restart"
    PROVE  \E rec : /\ Follows(c, rec) /\ rec.at = at /\ rec.pid = pid
                    /\ rec.inst = cmd[c].inst /\ rec.todo = cmd[c].todo
<1> DEFINE rec == [cmd[c] EXCEPT !.at = at, !.pid = pid]
<1>1. cmd[c] \in CmdRec /\ CmdOk(cmd[c]) /\ cmd[c].at # "idle"
  BY DEF CmdsOk, Busy
<1>2. cmd' = [cmd EXCEPT ![c] = rec]
  BY DEF Goes, CmdsOk
<1>3. /\ rec \in CmdRec /\ rec.at = at /\ rec.pid = pid /\ rec.inst = cmd[c].inst
      /\ rec.todo = cmd[c].todo /\ rec.kind = cmd[c].kind /\ rec.phase = cmd[c].phase
  BY <1>1 DEF CmdRec
<1> HIDE DEF rec
<1>4. CmdOk(rec)
  BY <1>1, <1>3 DEF CmdOk
<1>5. Follows(c, rec)
  BY <1>2, <1>3, <1>4 DEF Follows
<1> QED
  BY <1>3, <1>5

LEMMA Finishing ==
    ASSUME CmdsOk, NEW c \in Command, Busy(c), NEW ok \in BOOLEAN, Done(c, ok)
    PROVE  \E rec : /\ Follows(c, rec) /\ rec.at \in {"idle", "read", "pause"}
                    /\ stopped' # stopped => ok
<1>1. CmdOk(cmd[c]) /\ cmd[c].at # "idle"
  BY DEF CmdsOk, Busy
<1>2. CASE cmd[c].kind = "restart" /\ cmd[c].phase = "stop"
  <2>1. Goes(c, "pause", NoPid) /\ stopped' = stopped
    BY <1>2 DEF Done
  <2>2. "pause" \in Steps
    BY DEF Steps
  <2> QED
    BY <1>2, <2>1, <2>2, Going
<1>3. CASE ~(cmd[c].kind = "restart" /\ cmd[c].phase = "stop")
  <2>1. /\ Take(c, cmd[c].kind, cmd[c].todo)
        /\ stopped' = IF ok /\ cmd[c].phase = "stop" THEN stopped \cup {cmd[c].inst} ELSE stopped
    BY <1>3 DEF Done
  <2>2. cmd[c].kind \in Kinds /\ cmd[c].todo \in SUBSET Instance
    BY <1>1 DEF CmdOk, CmdRec
  <2>3. PICK rec : /\ cmd' = [cmd EXCEPT ![c] = rec] /\ CmdOk(rec)
                   /\ rec.pid = NoPid /\ rec.at \in {"idle", "read"}
                   /\ rec.at # "idle" => /\ rec.kind = cmd[c].kind /\ rec.inst \in cmd[c].todo
                                         /\ rec.todo \subseteq cmd[c].todo
    BY <2>1, <2>2, Taking
  <2>4. Follows(c, rec)
    BY <2>1, <2>3 DEF Follows
  <2> QED
    BY <2>1, <2>3, <2>4
<1> QED
  BY <1>2, <1>3
-----------------------------------------------------------------------------
(* Unless a number was reused, the processes that files and commands name   *)
(* are those of their instance.                                             *)
NamesInv ==
    ~reused =>
       /\ \A p \in Pid : proc[p] # "other"
       /\ \A p \in Pid : proc[p] \in Live =>
             /\ \A i \in Instance : file[i] = p => runs[p] = i
             /\ \A c \in Command : cmd[c].pid = p => runs[p] = cmd[c].inst

(* One command at a time.  A process is the one its file names, or its pid  *)
(* is about to be written; a command that is about to spawn, or to remove a *)
(* file, has seen that there is none.                                       *)
NoneOwn(i) == \A p \in Pid : ~Own(p, i)
AboutToWrite(p, i) == \E c \in Command : cmd[c].at = "write" /\ cmd[c].inst = i /\ cmd[c].pid = p

CmdSolo(c) ==
    /\ cmd[c].at \in {"spawn", "remove"} => NoneOwn(cmd[c].inst)
    /\ cmd[c].at = "write" => \A p \in Pid : Own(p, cmd[c].inst) => p = cmd[c].pid
    /\ cmd[c].at \in {"check", "wait"} => cmd[c].pid = file[cmd[c].inst]
    /\ Busy(c) /\ cmd[c].kind # "status" => stopped \cap ({cmd[c].inst} \cup cmd[c].todo) = {}

SoloInv ==
    Solo =>
       /\ \A c, d \in Command : Busy(c) /\ Busy(d) => c = d
       /\ \A p \in Pid, i \in Instance : Own(p, i) =>
             i \notin stopped /\ (file[i] = p \/ AboutToWrite(p, i))
       /\ \A c \in Command : CmdSolo(c)

IInv == Types /\ NamesInv /\ SoloInv

LEMMA OwnFewer ==
    ASSUME Types, Fewer, NEW p \in Pid, NEW i \in Instance, Own(p, i)'
    PROVE  Own(p, i)
<1>1. proc'[p] \in Live /\ runs'[p] = i
  BY DEF Own, Live
<1> QED
  BY <1>1 DEF Own, Live, Fewer

(* A step of the processes alone.                                           *)
LEMMA ProcessMoves ==
    ASSUME IInv, OsMoves, UNCHANGED <<file, cmd, issued, history, stopped>>,
           faults' \in 0 .. MaxFaults
    PROVE  IInv'
<1>1. Types'
  BY DEF IInv, Types, OsMoves, CmdsOk
<1>2. NamesInv'
  BY DEF IInv, NamesInv, OsMoves, Fewer, NoNewOther, history
<1>3. \A p \in Pid, i \in Instance : Own(p, i)' => Own(p, i)
  BY OwnFewer DEF IInv, OsMoves
<1>4. ASSUME NEW c \in Command PROVE CmdSolo(c) => CmdSolo(c)'
  <2>1. Busy(c) => cmd[c].inst \in Instance
    BY DEF IInv, Types, CmdsOk, CmdOk, Busy
  <2> QED
    BY <1>3, <2>1 DEF CmdSolo, NoneOwn, Busy
<1>5. SoloInv'
  BY <1>3, <1>4 DEF IInv, SoloInv, Solo, history, Busy, AboutToWrite
<1> QED
  BY <1>1, <1>2, <1>5 DEF IInv

(* A step of a command that brings no process to life.                      *)
LEMMA CommandMoves ==
    ASSUME IInv, NEW c \in Command, Busy(c), NEW i0, i0 = cmd[c].inst,
           NEW rec, Follows(c, rec), OsMoves,
           file' \in [Instance -> Pid \cup {NoPid}],
           \A i \in Instance \ {i0} : file'[i] = file[i],
           file'[i0] \in {file[i0], NoPid, cmd[c].pid},
           issued' = issued, faults' \in 0 .. MaxFaults,
           overlapped' = overlapped, reused' = reused, cut => cut',
           Solo' =>
              /\ stopped' # stopped => NoneOwn(i0)'
              /\ \A p \in Pid : Own(p, i0)' =>
                    \/ file'[i0] = p
                    \/ rec.at = "write" /\ rec.inst = i0 /\ rec.pid = p
              /\ rec.at \in {"spawn", "remove"} => rec.inst = i0 /\ NoneOwn(i0)'
              /\ rec.at = "write" => /\ rec.inst = i0
                                     /\ \A p \in Pid : Own(p, rec.inst)' => p = rec.pid
              /\ rec.at \in {"check", "wait"} => rec.pid = file'[rec.inst]
    PROVE  IInv'
<1>1. /\ i0 \in Instance /\ CmdOk(cmd[c]) /\ CmdOk(rec)
      /\ cmd' = [cmd EXCEPT ![c] = rec] /\ cmd'[c] = rec
      /\ \A d \in Command : d # c => cmd'[d] = cmd[d]
  BY DEF IInv, Types, CmdsOk, CmdOk, Busy, Follows
<1>2. Types'
  <2>1. cmd' \in [Command -> CmdRec] /\ \A d \in Command : CmdOk(cmd'[d])
    BY <1>1 DEF IInv, Types, CmdsOk, CmdOk
  <2>2. stopped' \subseteq Instance
    BY <1>1 DEF IInv, Types, Follows
  <2> QED
    BY <2>1, <2>2 DEF IInv, Types, CmdsOk, OsMoves
<1>3. NamesInv'
  <2> SUFFICES ASSUME ~reused
               PROVE  /\ \A p \in Pid : proc'[p] # "other"
                      /\ \A p \in Pid : proc'[p] \in Live =>
                            /\ \A i \in Instance : file'[i] = p => runs'[p] = i
                            /\ \A d \in Command : cmd'[d].pid = p => runs'[p] = cmd'[d].inst
    BY DEF NamesInv
  <2>1. \A p \in Pid : proc'[p] # "other"
    BY DEF IInv, NamesInv, OsMoves, NoNewOther
  <2>2. ASSUME NEW p \in Pid, proc'[p] \in Live
        PROVE  /\ \A i \in Instance : file'[i] = p => runs'[p] = i
               /\ \A d \in Command : cmd'[d].pid = p => runs'[p] = cmd'[d].inst
    <3>1. /\ runs'[p] = runs[p]
          /\ \A i \in Instance : file[i] = p => runs[p] = i
          /\ \A d \in Command : cmd[d].pid = p => runs[p] = cmd[d].inst
      BY <2>2 DEF IInv, NamesInv, OsMoves, Fewer
    <3>2. p # NoPid
      BY GatewayAssumption
    <3>3. ASSUME NEW i \in Instance, file'[i] = p PROVE runs[p] = i
      BY <1>1, <3>1, <3>2, <3>3
    <3>4. ASSUME NEW d \in Command, cmd'[d].pid = p PROVE runs[p] = cmd'[d].inst
      <4>1. CASE d # c
        BY <1>1, <3>1, <3>4, <4>1
      <4>2. CASE d = c
        <5>1. rec.pid = p /\ rec.inst = i0 /\ (rec.pid = cmd[c].pid \/ rec.pid = file[i0])
          BY <1>1, <3>2, <3>4, <4>2 DEF Follows
        <5> QED
          BY <1>1, <3>1, <4>2, <5>1
      <4> QED
        BY <4>1, <4>2
    <3> QED
      BY <3>1, <3>3, <3>4
  <2> QED
    BY <2>1, <2>2
<1>4. SoloInv'
  <2> SUFFICES ASSUME Solo'
               PROVE  /\ \A d, e \in Command : Busy(d)' /\ Busy(e)' => d = e
                      /\ \A p \in Pid, i \in Instance : Own(p, i)' =>
                            i \notin stopped' /\ (file'[i] = p \/ AboutToWrite(p, i)')
                      /\ \A d \in Command : CmdSolo(d)'
    BY DEF SoloInv
  <2>1. Solo
    BY DEF Solo
  <2>2. \A d \in Command : Busy(d) => d = c
    BY <2>1 DEF IInv, SoloInv
  <2>3. \A d \in Command : d # c => cmd[d].at = "idle" /\ cmd'[d].at = "idle"
    BY <1>1, <2>2 DEF Busy
  <2>4. \A p \in Pid, i \in Instance : Own(p, i)' => Own(p, i)
    BY OwnFewer DEF IInv, OsMoves
  <2>5. ASSUME NEW p \in Pid, NEW i \in Instance, Own(p, i)'
        PROVE  i \notin stopped' /\ (file'[i] = p \/ AboutToWrite(p, i)')
    <3>1. Own(p, i) /\ i \notin stopped /\ (file[i] = p \/ AboutToWrite(p, i))
      BY <2>1, <2>4, <2>5 DEF IInv, SoloInv
    <3>2. CASE i = i0
      <4>1. stopped' = stopped \/ NoneOwn(i0)'
        OBVIOUS
      <4>2. stopped' = stopped
        BY <2>5, <3>2, <4>1 DEF NoneOwn
      <4>3. file'[i] = p \/ (rec.at = "write" /\ rec.inst = i /\ rec.pid = p)
        BY <2>5, <3>2
      <4>4. rec.at = "write" /\ rec.inst = i /\ rec.pid = p => AboutToWrite(p, i)'
        BY <1>1 DEF AboutToWrite
      <4> QED
        BY <3>1, <4>2, <4>3, <4>4
    <3>3. CASE i # i0
      <4>1. ~AboutToWrite(p, i)
        BY <2>3, <3>3 DEF AboutToWrite
      <4>2. file'[i] = p
        BY <3>1, <3>3, <4>1
      <4>3. i \notin stopped'
        BY <3>1, <3>3 DEF Follows
      <4> QED
        BY <4>2, <4>3
    <3> QED
      BY <3>2, <3>3
  <2>6. ASSUME NEW d \in Command PROVE CmdSolo(d)'
    <3>1. CASE d # c
      BY <2>3, <3>1 DEF CmdSolo, Busy
    <3>2. CASE d = c
      <4>1. rec.at # "idle" /\ rec.kind # "status" => stopped' \cap ({rec.inst} \cup rec.todo) = {}
        <5> SUFFICES ASSUME rec.at # "idle", rec.kind # "status"
                     PROVE  stopped' \cap ({rec.inst} \cup rec.todo) = {}
          OBVIOUS
        <5>1. /\ rec.kind = cmd[c].kind
              /\ {rec.inst} \cup rec.todo \subseteq {i0} \cup cmd[c].todo
          BY DEF Follows
        <5>2. stopped \cap ({i0} \cup cmd[c].todo) = {}
          BY <2>1, <5>1 DEF IInv, SoloInv, CmdSolo
        <5>3. CASE stopped' = stopped
          BY <5>1, <5>2, <5>3
        <5>4. CASE stopped' = stopped \cup {i0} /\ {rec.inst} \cup rec.todo \subseteq cmd[c].todo
          <6>1. i0 \notin cmd[c].todo
            BY <1>1 DEF CmdOk, Busy
          <6> QED
            BY <5>2, <5>4, <6>1
        <5> QED
          BY <5>3, <5>4 DEF Follows
      <4>2. rec.at \in {"spawn", "remove"} => NoneOwn(rec.inst)'
        OBVIOUS
      <4>3. rec.at = "write" => \A p \in Pid : Own(p, rec.inst)' => p = rec.pid
        OBVIOUS
      <4> QED
        BY <1>1, <3>2, <4>1, <4>2, <4>3 DEF CmdSolo, Busy, NoneOwn, Own
    <3> QED
      BY <3>1, <3>2
  <2>7. \A d, e \in Command : Busy(d)' /\ Busy(e)' => d = e
    BY <2>3 DEF Busy
  <2> QED
    BY <2>5, <2>6, <2>7
<1> QED
  BY <1>2, <1>3, <1>4 DEF IInv

-----------------------------------------------------------------------------
(* The steps of a command.  With one command at a time a process of its     *)
(* instance is the one its file names, but before the pid is written.       *)
LEMMA FileTells ==
    ASSUME IInv, Solo, NEW c \in Command, Busy(c), cmd[c].at # "write",
           NEW p \in Pid, Own(p, cmd[c].inst)
    PROVE  file[cmd[c].inst] = p
<1>1. cmd[c].inst \in Instance
  BY DEF IInv, Types, CmdsOk, CmdOk, Busy
<1>2. \A d \in Command : cmd[d].at # "write"
  BY DEF IInv, SoloInv, Busy
<1> QED
  BY <1>1, <1>2 DEF IInv, SoloInv, AboutToWrite

(* It goes on with the same instance.                                       *)
LEMMA GoesKeeps ==
    ASSUME IInv, NEW c \in Command, Busy(c), cmd[c].at # "write",
           NEW i0, i0 = cmd[c].inst,
           NEW at \in Steps \ {"write"}, NEW pid \in Pid \cup {NoPid}, Goes(c, at, pid),
           OsMoves, UNCHANGED <<file, stopped>>, Unmoved,
           pid # NoPid => pid \in {cmd[c].pid, file[i0]},
           at \in {"check", "wait", "remove", "poll"} => pid \in Pid,
           at \in {"spawn", "poll"} => cmd[c].phase = "start",
           at = "pause" => cmd[c].kind = "restart",
           Solo => /\ at \in {"spawn", "remove"} => NoneOwn(i0)'
                   /\ at \in {"check", "wait"} => pid = file[i0]
    PROVE  IInv'
<1>1. PICK rec : /\ Follows(c, rec) /\ rec.at = at /\ rec.pid = pid /\ rec.inst = i0
  BY Going DEF IInv, Types
<1>2. i0 \in Instance /\ file \in [Instance -> Pid \cup {NoPid}]
  BY DEF IInv, Types, CmdsOk, CmdOk, Busy
<1>3. Solo' => Solo
  BY DEF Solo, Unmoved, history
<1>4. Solo' => \A p \in Pid : Own(p, i0)' => file'[i0] = p
  BY <1>2, <1>3, FileTells, OwnFewer DEF IInv, OsMoves
<1> QED
  BY <1>1, <1>2, <1>3, <1>4, CommandMoves DEF Unmoved, history, IInv, Types

(* It is done with the instance, whose file it may have removed.            *)
LEMMA DoneKeeps ==
    ASSUME IInv, NEW c \in Command, Busy(c), cmd[c].at # "write",
           NEW i0, i0 = cmd[c].inst,
           NEW ok \in BOOLEAN, Done(c, ok), OsMoves, Unmoved,
           \/ UNCHANGED file
           \/ file' = [file EXCEPT ![i0] = NoPid] /\ (Solo => NoneOwn(i0)),
           Solo /\ ok /\ cmd[c].phase = "stop" => NoneOwn(i0)
    PROVE  IInv'
<1>1. PICK rec : /\ Follows(c, rec) /\ rec.at \in {"idle", "read", "pause"}
                 /\ stopped' # stopped => ok
  BY Finishing DEF IInv, Types
<1>2. i0 \in Instance /\ file \in [Instance -> Pid \cup {NoPid}]
  BY DEF IInv, Types, CmdsOk, CmdOk, Busy
<1>3. Solo' => Solo
  BY DEF Solo, Unmoved, history
<1>4. \A p \in Pid : Own(p, i0)' => Own(p, i0)
  BY <1>2, OwnFewer DEF IInv, OsMoves
<1>5. Solo' /\ stopped' # stopped => NoneOwn(i0)'
  BY <1>1, <1>3, <1>4 DEF NoneOwn, Follows
<1>6. Solo' => \A p \in Pid : Own(p, i0)' => file'[i0] = p
  BY <1>2, <1>3, <1>4, FileTells DEF NoneOwn
<1>7. /\ file' \in [Instance -> Pid \cup {NoPid}]
      /\ \A i \in Instance \ {i0} : file'[i] = file[i]
      /\ file'[i0] \in {file[i0], NoPid}
  BY <1>2
<1>8. rec.at \notin {"spawn", "remove", "write", "check", "wait"}
  BY <1>1
<1> QED
  BY <1>1, <1>2, <1>3, <1>5, <1>6, <1>7, <1>8, CommandMoves DEF Unmoved, history, IInv, Types

(* What a busy command has read, and what its instance has.                 *)
LEMMA CommandFacts ==
    ASSUME IInv, NEW c \in Command, Busy(c), NEW i0, i0 = cmd[c].inst
    PROVE  /\ i0 \in Instance /\ CmdOk(cmd[c]) /\ cmd[c].kind \in Kinds /\ file[i0] \in Pid \cup {NoPid}
           /\ Solo /\ cmd[c].at # "write" => \A p \in Pid : Own(p, i0) => file[i0] = p
           /\ Solo => CmdSolo(c)
           /\ UNCHANGED osVars => OsMoves /\ (NoneOwn(i0) => NoneOwn(i0)')
<1>1. i0 \in Instance /\ CmdOk(cmd[c]) /\ cmd[c].kind \in Kinds /\ file[i0] \in Pid \cup {NoPid}
  BY DEF IInv, Types, CmdsOk, CmdOk, Busy
<1>2. Solo /\ cmd[c].at # "write" => \A p \in Pid : Own(p, i0) => file[i0] = p
  BY FileTells
<1>3. Solo => CmdSolo(c)
  BY DEF IInv, SoloInv
<1>4. UNCHANGED osVars => OsMoves /\ (NoneOwn(i0) => NoneOwn(i0)')
  BY Unchanged DEF IInv, Types, NoneOwn, Own, osVars
<1> QED
  BY <1>1, <1>2, <1>3, <1>4

(* A command that finds no process under the pid it read finds none of its  *)
(* instance.                                                               *)
LEMMA FoundDead ==
    ASSUME IInv, Solo, NEW c \in Command, cmd[c].at \in {"check", "wait"}, ~Alive(cmd[c].pid),
           NEW i0, i0 = cmd[c].inst
    PROVE  NoneOwn(i0)
<1>1. Busy(c) /\ cmd[c].at # "write"
  BY DEF Busy
<1>2. \A p \in Pid : Own(p, i0) => file[i0] = p
  BY <1>1, CommandFacts
<1>3. cmd[c].pid = file[i0]
  BY <1>1, CommandFacts DEF CmdSolo
<1> QED
  BY <1>2, <1>3 DEF NoneOwn, Own, Alive

LEMMA ReadKeeps == ASSUME IInv, NEW c \in Command, Read(c) PROVE IInv'
<1>1. Busy(c) /\ cmd[c].at = "read"
  BY DEF Read, Busy
<1>2. PICK i : i = cmd[c].inst
  OBVIOUS
<1>3. /\ i \in Instance /\ CmdOk(cmd[c]) /\ file[i] \in Pid \cup {NoPid}
      /\ Solo => \A p \in Pid : Own(p, i) => file[i] = p
      /\ OsMoves /\ (NoneOwn(i) => NoneOwn(i)')
  BY <1>1, <1>2, CommandFacts DEF Read
<1>4. NoPid \notin Pid /\ "check" \in Steps /\ "spawn" \in Steps
  BY GatewayAssumption DEF Steps
<1>5. CASE file[i] # NoPid
  <2>1. Goes(c, "check", file[i]) /\ UNCHANGED <<file, stopped>> /\ Unmoved
    BY <1>2, <1>5 DEF Read
  <2> QED
    BY <1>1, <1>2, <1>3, <1>4, <1>5, <2>1, GoesKeeps
<1>6. CASE file[i] = NoPid /\ cmd[c].phase = "start"
  <2>1. Goes(c, "spawn", NoPid) /\ UNCHANGED <<file, stopped>> /\ Unmoved
    BY <1>2, <1>6 DEF Read
  <2>2. Solo => NoneOwn(i)'
    BY <1>3, <1>4, <1>6 DEF NoneOwn
  <2> QED
    BY <1>1, <1>2, <1>3, <1>4, <1>6, <2>1, <2>2, GoesKeeps
<1>7. CASE file[i] = NoPid /\ cmd[c].phase # "start"
  <2>1. Done(c, TRUE) /\ UNCHANGED file /\ Unmoved
    BY <1>2, <1>7 DEF Read
  <2>2. Solo => NoneOwn(i)
    BY <1>3, <1>4, <1>7 DEF NoneOwn
  <2> QED
    BY <1>1, <1>2, <1>3, <2>1, <2>2, DoneKeeps
<1> QED
  BY <1>5, <1>6, <1>7

LEMMA StartChecksKeeps == ASSUME IInv, NEW c \in Command, StartChecks(c) PROVE IInv'
<1>1. Busy(c) /\ cmd[c].at = "check" /\ cmd[c].phase = "start" /\ UNCHANGED <<file, osVars>> /\ Unmoved
  BY DEF StartChecks, Busy
<1>2. PICK i : i = cmd[c].inst
  OBVIOUS
<1>3. OsMoves /\ (NoneOwn(i) => NoneOwn(i)')
  BY <1>1, <1>2, CommandFacts
<1>4. CASE Alive(cmd[c].pid)
  <2>1. Done(c, TRUE)
    BY <1>4 DEF StartChecks
  <2> QED
    BY <1>1, <1>2, <1>3, <2>1, DoneKeeps
<1>5. CASE ~Alive(cmd[c].pid)
  <2>1. Goes(c, "spawn", NoPid) /\ UNCHANGED stopped
    BY <1>5 DEF StartChecks
  <2>2. Solo => NoneOwn(i)'
    BY <1>1, <1>2, <1>3, <1>5, FoundDead
  <2>3. "spawn" \in Steps
    BY DEF Steps
  <2> QED
    BY <1>1, <1>2, <1>3, <2>1, <2>2, <2>3, GoesKeeps
<1> QED
  BY <1>4, <1>5

LEMMA StatusChecksKeeps == ASSUME IInv, NEW c \in Command, StatusChecks(c) PROVE IInv'
<1>1. Busy(c) /\ cmd[c].at = "check" /\ cmd[c].phase = "status" /\ UNCHANGED <<file, osVars>> /\ Unmoved
  BY DEF StatusChecks, Busy
<1>2. PICK i : i = cmd[c].inst
  OBVIOUS
<1>3. OsMoves /\ (NoneOwn(i) => NoneOwn(i)') /\ CmdOk(cmd[c])
  BY <1>1, <1>2, CommandFacts
<1>4. CASE Alive(cmd[c].pid)
  <2>1. Done(c, TRUE)
    BY <1>4 DEF StatusChecks
  <2> QED
    BY <1>1, <1>2, <1>3, <2>1, DoneKeeps
<1>5. CASE ~Alive(cmd[c].pid)
  <2>1. Goes(c, "remove", cmd[c].pid) /\ UNCHANGED stopped
    BY <1>5 DEF StatusChecks
  <2>2. Solo => NoneOwn(i)'
    BY <1>1, <1>2, <1>3, <1>5, FoundDead
  <2>3. "remove" \in Steps /\ cmd[c].pid \in Pid
    BY <1>1, <1>3 DEF Steps, CmdOk
  <2> QED
    BY <1>1, <1>2, <1>3, <2>1, <2>2, <2>3, GoesKeeps
<1> QED
  BY <1>4, <1>5

LEMMA StopChecksKeeps == ASSUME IInv, NEW c \in Command, StopChecks(c) PROVE IInv'
<1>1. Busy(c) /\ cmd[c].at = "check" /\ cmd[c].phase = "stop" /\ UNCHANGED file /\ Unmoved
  BY DEF StopChecks, Busy
<1>2. PICK i, p : i = cmd[c].inst /\ p = cmd[c].pid
  OBVIOUS
<1>3. /\ p \in Pid /\ "wait" \in Steps /\ "remove" \in Steps
      /\ UNCHANGED osVars => OsMoves /\ (NoneOwn(i) => NoneOwn(i)')
      /\ Solo => p = file[i]
  BY <1>1, <1>2, CommandFacts DEF CmdOk, Steps, CmdSolo
<1>4. CASE Alive(p) /\ Terminate(p) /\ Goes(c, "wait", p) /\ UNCHANGED stopped
  <2>1. OsMoves
    BY <1>3, <1>4, Terminating DEF IInv, Types
  <2> QED
    BY <1>1, <1>2, <1>3, <1>4, <2>1, GoesKeeps
<1>5. CASE UNCHANGED osVars /\ Done(c, FALSE)
  BY <1>1, <1>2, <1>3, <1>5, DoneKeeps
<1>6. CASE ~Alive(p) /\ UNCHANGED osVars /\ Goes(c, "remove", p) /\ UNCHANGED stopped
  <2>1. Solo => NoneOwn(i)'
    BY <1>1, <1>2, <1>3, <1>6, FoundDead
  <2> QED
    BY <1>1, <1>2, <1>3, <1>6, <2>1, GoesKeeps
<1> QED
  BY <1>2, <1>4, <1>5, <1>6 DEF StopChecks

LEMMA StopSeesKeeps == ASSUME IInv, NEW c \in Command, StopSees(c) PROVE IInv'
<1>1. /\ Busy(c) /\ cmd[c].at = "wait" /\ ~Alive(cmd[c].pid) /\ Goes(c, "remove", cmd[c].pid)
      /\ UNCHANGED <<file, osVars, stopped>> /\ Unmoved
  BY DEF StopSees, Busy
<1>2. PICK i : i = cmd[c].inst
  OBVIOUS
<1>3. /\ cmd[c].pid \in Pid /\ "remove" \in Steps
      /\ OsMoves /\ (NoneOwn(i) => NoneOwn(i)')
  BY <1>1, <1>2, CommandFacts DEF CmdOk, Steps
<1>4. Solo => NoneOwn(i)'
  BY <1>1, <1>2, <1>3, FoundDead
<1> QED
  BY <1>1, <1>2, <1>3, <1>4, GoesKeeps

LEMMA StopTimeoutKeeps == ASSUME IInv, NEW c \in Command, StopTimeout(c) PROVE IInv'
<1>1. Busy(c) /\ cmd[c].at = "wait" /\ Alive(cmd[c].pid) /\ UNCHANGED file /\ Unmoved
  BY DEF StopTimeout, Busy
<1>2. PICK i, p : i = cmd[c].inst /\ p = cmd[c].pid
  OBVIOUS
<1>3. /\ p \in Pid /\ i \in Instance /\ "remove" \in Steps
      /\ UNCHANGED osVars => OsMoves
      /\ Solo => p = file[i] /\ \A q \in Pid : Own(q, i) => file[i] = q
  BY <1>1, <1>2, CommandFacts DEF CmdOk, Steps, CmdSolo
<1>4. CASE LastResort(c) /\ Goes(c, "remove", p) /\ UNCHANGED stopped
  <2>1. OsMoves /\ proc'[p] = "free"
    BY <1>1, <1>2, <1>3, <1>4, Ending DEF LastResort, Kill, IInv, Types
  <2>2. \A q \in Pid : Own(q, i)' => Own(q, i)
    BY <1>3, <2>1, OwnFewer DEF IInv, Types, OsMoves
  <2>3. Solo => NoneOwn(i)'
    BY <1>3, <2>1, <2>2 DEF NoneOwn, Own
  <2> QED
    BY <1>1, <1>2, <1>3, <1>4, <2>1, <2>3, GoesKeeps
<1>5. CASE UNCHANGED osVars /\ Done(c, FALSE)
  BY <1>1, <1>2, <1>3, <1>5, DoneKeeps
<1> QED
  BY <1>2, <1>4, <1>5 DEF StopTimeout

LEMMA RemovesKeeps == ASSUME IInv, NEW c \in Command, Removes(c) PROVE IInv'
<1>1. /\ Busy(c) /\ cmd[c].at = "remove" /\ Done(c, TRUE)
      /\ file' = [file EXCEPT ![cmd[c].inst] = NoPid] /\ UNCHANGED osVars /\ Unmoved
  BY DEF Removes, Busy
<1>2. PICK i : i = cmd[c].inst
  OBVIOUS
<1>3. OsMoves /\ (Solo => NoneOwn(i))
  BY <1>1, <1>2, CommandFacts DEF CmdSolo
<1> QED
  BY <1>1, <1>2, <1>3, DoneKeeps

LEMMA CannotStartKeeps == ASSUME IInv, NEW c \in Command, CannotStart(c) PROVE IInv'
<1>1. Busy(c) /\ cmd[c].at = "spawn" /\ Done(c, FALSE) /\ UNCHANGED <<file, osVars>> /\ Unmoved
  BY DEF CannotStart, Busy
<1>2. OsMoves
  BY <1>1, CommandFacts
<1> QED
  BY <1>1, <1>2, DoneKeeps

LEMMA PolledKeeps == ASSUME IInv, NEW c \in Command, Polled(c) PROVE IInv'
<1>1. PICK ok \in BOOLEAN : Done(c, ok)
  BY DEF Polled
<1>2. Busy(c) /\ cmd[c].at = "poll" /\ UNCHANGED <<file, osVars>> /\ Unmoved
  BY DEF Polled, Busy
<1>3. OsMoves /\ cmd[c].phase = "start"
  BY <1>2, CommandFacts DEF CmdOk
<1> QED
  BY <1>1, <1>2, <1>3, DoneKeeps

LEMMA PauseKeeps == ASSUME IInv, NEW c \in Command, Pause(c) PROVE IInv'
<1> DEFINE rec == [cmd[c] EXCEPT !.at = "read", !.phase = "start"]
<1>1. /\ Busy(c) /\ cmd[c].at = "pause" /\ cmd' = [cmd EXCEPT ![c].at = "read", ![c].phase = "start"]
      /\ UNCHANGED <<file, osVars, stopped>> /\ Unmoved
  BY DEF Pause, Busy
<1>2. PICK i : i = cmd[c].inst
  OBVIOUS
<1>3. /\ i \in Instance /\ CmdOk(cmd[c]) /\ OsMoves /\ "read" \in Steps
      /\ Solo => \A p \in Pid : Own(p, i) => file[i] = p
      /\ file \in [Instance -> Pid \cup {NoPid}] /\ cmd \in [Command -> CmdRec]
  BY <1>1, <1>2, CommandFacts DEF Steps, IInv, Types, CmdsOk
<1>4. cmd' = [cmd EXCEPT ![c] = rec]
  BY <1>1, <1>3
<1>5. /\ rec \in CmdRec /\ rec.at = "read" /\ rec.phase = "start" /\ rec.inst = i
      /\ rec.kind = cmd[c].kind /\ rec.todo = cmd[c].todo /\ rec.pid = cmd[c].pid
  BY <1>2, <1>3 DEF CmdRec
<1> HIDE DEF rec
<1>6. Follows(c, rec)
  BY <1>1, <1>2, <1>3, <1>4, <1>5 DEF Follows, CmdOk
<1>7. Solo' => Solo /\ \A p \in Pid : Own(p, i)' => file'[i] = p
  BY <1>1, <1>3 DEF Solo, Unmoved, history, Own, osVars
<1> QED
  BY <1>1, <1>2, <1>3, <1>5, <1>6, <1>7, CommandMoves DEF Unmoved, history, IInv, Types

LEMMA WritesKeeps == ASSUME IInv, NEW c \in Command, Writes(c) PROVE IInv'
<1>1. /\ Busy(c) /\ cmd[c].at = "write" /\ file' = PidWritten(c) /\ Goes(c, "poll", cmd[c].pid)
      /\ UNCHANGED <<osVars, stopped>> /\ Unmoved
  BY DEF Writes, Busy
<1>2. PICK i, p : i = cmd[c].inst /\ p = cmd[c].pid
  OBVIOUS
<1>3. /\ i \in Instance /\ p \in Pid /\ cmd[c].phase = "start" /\ OsMoves /\ "poll" \in Steps
      /\ Solo => \A q \in Pid : Own(q, i) => q = p
  BY <1>1, <1>2, CommandFacts DEF CmdOk, Steps, CmdSolo
<1>4. PICK rec : Follows(c, rec) /\ rec.at = "poll"
  BY <1>1, <1>2, <1>3, Going DEF IInv, Types
<1>5. /\ file' = [file EXCEPT ![i] = p] /\ file \in [Instance -> Pid \cup {NoPid}]
      /\ faults \in 0 .. MaxFaults
  BY <1>1, <1>2 DEF PidWritten, IInv, Types
<1>6. Solo' => \A q \in Pid : Own(q, i)' => file'[i] = q
  BY <1>1, <1>3, <1>5 DEF Solo, Unmoved, history, Own, osVars
<1> QED
  BY <1>1, <1>2, <1>3, <1>4, <1>5, <1>6, CommandMoves DEF Unmoved, history

LEMMA CannotWriteKeeps == ASSUME IInv, NEW c \in Command, CannotWrite(c) PROVE IInv'
<1>1. /\ Busy(c) /\ Done(c, FALSE) /\ Fault /\ cut' = TRUE
      /\ UNCHANGED <<file, osVars, issued, overlapped, reused>>
  BY DEF CannotWrite, Busy
<1>2. OsMoves /\ cmd[c].inst \in Instance
  BY <1>1, CommandFacts
<1>3. PICK rec : Follows(c, rec)
  BY <1>1, Finishing DEF IInv, Types
<1>4. faults' \in 0 .. MaxFaults /\ ~Solo' /\ file \in [Instance -> Pid \cup {NoPid}]
  BY <1>1, GatewayAssumption DEF Fault, Solo, IInv, Types
<1> QED
  BY <1>1, <1>2, <1>3, <1>4, CommandMoves

LEMMA CommandDiesKeeps == ASSUME IInv, NEW c \in Command, CommandDies(c) PROVE IInv'
<1>1. /\ Busy(c) /\ Fault /\ cmd' = [cmd EXCEPT ![c] = Idle] /\ cut' = (cut \/ cmd[c].at = "write")
      /\ UNCHANGED <<file, osVars, issued, overlapped, reused, stopped>>
  BY DEF CommandDies
<1>2. PICK i : i = cmd[c].inst
  OBVIOUS
<1>3. /\ OsMoves /\ i \in Instance
      /\ Solo /\ cmd[c].at # "write" => \A p \in Pid : Own(p, i) => file[i] = p
  BY <1>1, <1>2, CommandFacts
<1>4. Follows(c, Idle) /\ Idle.at = "idle"
  BY <1>1, IdleOk DEF Follows
<1>5. faults' \in 0 .. MaxFaults /\ file \in [Instance -> Pid \cup {NoPid}]
  BY <1>1, GatewayAssumption DEF Fault, IInv, Types
<1>6. Solo' => \A p \in Pid : Own(p, i)' => file'[i] = p
  BY <1>1, <1>3 DEF Solo, Own, osVars
<1> QED
  BY <1>1, <1>2, <1>3, <1>4, <1>5, <1>6, CommandMoves

-----------------------------------------------------------------------------
(* A command spawns: the only step that brings a process to life.           *)
LEMMA StartsKeeps == ASSUME IInv, NEW c \in Command, Starts(c) PROVE IInv'
<1>1. PICK p \in Pid : Spawn(p, cmd[c].inst) /\ Goes(c, "write", p)
  BY DEF Starts
<1>2. Busy(c) /\ cmd[c].at = "spawn" /\ UNCHANGED <<file, issued, faults, overlapped, cut, stopped>>
  BY DEF Starts, Busy
<1>3. PICK i : i = cmd[c].inst
  OBVIOUS
<1>4. /\ i \in Instance /\ i # NoInstance /\ p # NoPid /\ CmdOk(cmd[c]) /\ cmd[c].kind \in Kinds
      /\ cmd[c].phase = "start" /\ cmd[c].kind # "status" /\ cmd \in [Command -> CmdRec]
      /\ OsOk /\ "write" \in Steps
  BY <1>2, <1>3, CommandFacts, InstanceFacts, GatewayAssumption DEF CmdOk, IInv, Types, CmdsOk, Steps
<1>5. /\ proc[p] = "free" /\ proc'[p] = "boot" /\ runs'[p] = i /\ health' = health
      /\ \A q \in Pid : q # p => proc'[q] = proc[q] /\ runs'[q] = runs[q]
      /\ proc' \in [Pid -> {"free", "boot", "up", "ending", "other"}]
      /\ runs' \in [Pid -> Instance \cup {NoInstance}]
  BY <1>1, <1>3, <1>4 DEF Spawn, OsOk
<1> DEFINE rec == [cmd[c] EXCEPT !.at = "write", !.pid = p]
<1>6. /\ cmd' = [cmd EXCEPT ![c] = rec] /\ rec \in CmdRec /\ rec.at = "write" /\ rec.pid = p
      /\ rec.inst = i /\ rec.todo = cmd[c].todo /\ rec.kind = cmd[c].kind /\ rec.phase = cmd[c].phase
  BY <1>1, <1>3, <1>4 DEF Goes, CmdRec
<1> HIDE DEF rec
<1>7. cmd'[c] = rec /\ (\A d \in Command : d # c => cmd'[d] = cmd[d]) /\ cmd' \in [Command -> CmdRec]
  BY <1>4, <1>6
<1>8. Types'
  <2>1. CmdOk(rec)
    BY <1>2, <1>3, <1>4, <1>6 DEF CmdOk
  <2>2. \A d \in Command : CmdOk(cmd[d])
    BY DEF IInv, Types, CmdsOk
  <2>3. CmdsOk'
    BY <1>7, <2>1, <2>2 DEF CmdsOk, CmdOk
  <2>4. OsOk'
    BY <1>4, <1>5 DEF OsOk
  <2> QED
    BY <1>2, <2>3, <2>4 DEF IInv, Types
<1>9. NamesInv'
  <2> SUFFICES ASSUME ~reused'
               PROVE  /\ \A q \in Pid : proc'[q] # "other"
                      /\ \A q \in Pid : proc'[q] \in Live =>
                            /\ \A j \in Instance : file'[j] = q => runs'[q] = j
                            /\ \A d \in Command : cmd'[d].pid = q => runs'[q] = cmd'[d].inst
    BY DEF NamesInv
  <2>1. /\ ~reused /\ (\A j \in Instance : file[j] = p => j = i)
        /\ \A d \in Command : cmd[d].pid = p => cmd[d].inst = i
    BY <1>1, <1>3 DEF Spawn
  <2>2. \A q \in Pid : proc'[q] # "other"
    BY <1>5, <2>1 DEF IInv, NamesInv
  <2>3. ASSUME NEW q \in Pid, proc'[q] \in Live
        PROVE  /\ \A j \in Instance : file'[j] = q => runs'[q] = j
               /\ \A d \in Command : cmd'[d].pid = q => runs'[q] = cmd'[d].inst
    <3>1. CASE q = p
      BY <1>2, <1>5, <1>6, <1>7, <2>1, <3>1
    <3>2. CASE q # p
      BY <1>2, <1>5, <1>6, <1>7, <2>1, <2>3, <3>2 DEF IInv, NamesInv
    <3> QED
      BY <3>1, <3>2
  <2> QED
    BY <2>2, <2>3
<1>10. SoloInv'
  <2> SUFFICES ASSUME Solo'
               PROVE  /\ \A d, e \in Command : Busy(d)' /\ Busy(e)' => d = e
                      /\ \A q \in Pid, j \in Instance : Own(q, j)' =>
                            j \notin stopped' /\ (file'[j] = q \/ AboutToWrite(q, j)')
                      /\ \A d \in Command : CmdSolo(d)'
    BY DEF SoloInv
  <2>1. Solo
    BY <1>1, <1>2 DEF Solo, Spawn
  <2>2. NoneOwn(i) /\ i \notin stopped /\ stopped \cap ({i} \cup cmd[c].todo) = {}
    BY <1>2, <1>3, <1>4, <2>1, CommandFacts DEF CmdSolo
  <2>3. \A d \in Command : d # c => cmd[d].at = "idle" /\ cmd'[d].at = "idle"
    BY <1>2, <1>7, <2>1 DEF IInv, SoloInv, Busy
  <2>4. \A q \in Pid, j \in Instance : Own(q, j)' => Own(q, j) \/ (q = p /\ j = i)
    BY <1>5 DEF Own
  <2>5. ASSUME NEW q \in Pid, NEW j \in Instance, Own(q, j)'
        PROVE  j \notin stopped' /\ (file'[j] = q \/ AboutToWrite(q, j)')
    <3>1. CASE Own(q, j)
      <4>1. ~AboutToWrite(q, j)
        BY <1>2, <2>3 DEF AboutToWrite
      <4> QED
        BY <1>2, <2>1, <3>1, <4>1 DEF IInv, SoloInv
    <3>2. CASE q = p /\ j = i
      BY <1>2, <1>6, <1>7, <2>2, <3>2 DEF AboutToWrite
    <3> QED
      BY <2>4, <2>5, <3>1, <3>2
  <2>6. ASSUME NEW d \in Command PROVE CmdSolo(d)'
    <3>1. CASE d # c
      BY <2>3, <3>1 DEF CmdSolo, Busy
    <3>2. CASE d = c
      <4>1. \A q \in Pid : Own(q, i)' => q = p
        BY <1>4, <2>2, <2>4 DEF NoneOwn
      <4> QED
        BY <1>2, <1>6, <1>7, <2>2, <3>2, <4>1 DEF CmdSolo, Busy, Own
    <3> QED
      BY <3>1, <3>2
  <2>7. \A d, e \in Command : Busy(d)' /\ Busy(e)' => d = e
    BY <2>3 DEF Busy
  <2> QED
    BY <2>5, <2>6, <2>7
<1> QED
  BY <1>8, <1>9, <1>10 DEF IInv

(* A command is issued, whatever else runs.                                 *)
LEMMA BeginKeeps ==
    ASSUME IInv, NEW c \in Command, NEW kind \in Kinds, NEW todo \in Targets, Begin(c, kind, todo)
    PROVE  IInv'
<1>1. /\ ~Busy(c) /\ issued < MaxCommands /\ issued' = issued + 1
      /\ Take(c, kind, todo)
      /\ overlapped' = (overlapped \/ \E d \in Command : Busy(d))
      /\ stopped' = IF kind = "status" THEN stopped ELSE stopped \ todo
      /\ UNCHANGED <<file, osVars, faults, reused, cut>>
  BY DEF Begin
<1>2. todo \in SUBSET Instance
  BY DEF Targets
<1>3. PICK rec : /\ cmd' = [cmd EXCEPT ![c] = rec] /\ CmdOk(rec)
                 /\ rec.pid = NoPid /\ rec.at \in {"idle", "read"}
                 /\ rec.at # "idle" => rec.kind = kind /\ rec.inst \in todo /\ rec.todo \subseteq todo
  BY <1>1, <1>2, Taking DEF IInv, Types
<1>4. /\ cmd'[c] = rec /\ (\A d \in Command : d # c => cmd'[d] = cmd[d])
      /\ cmd' \in [Command -> CmdRec] /\ \A d \in Command : CmdOk(cmd[d])
  BY <1>3 DEF IInv, Types, CmdsOk, CmdOk
<1>5. OsMoves
  BY <1>1, Unchanged DEF IInv, Types
<1>6. Types'
  <2>1. issued' \in 0 .. MaxCommands
    BY <1>1, GatewayAssumption DEF IInv, Types
  <2>2. CmdsOk'
    BY <1>3, <1>4 DEF CmdsOk, CmdOk
  <2> QED
    BY <1>1, <1>5, <2>1, <2>2 DEF IInv, Types, OsMoves
<1>7. NamesInv'
  <2>1. \A p \in Pid : p # NoPid
    BY GatewayAssumption
  <2> QED
    BY <1>1, <1>3, <1>4, <2>1 DEF IInv, NamesInv, osVars
<1>8. SoloInv'
  <2> SUFFICES ASSUME Solo'
               PROVE  /\ \A d, e \in Command : Busy(d)' /\ Busy(e)' => d = e
                      /\ \A p \in Pid, i \in Instance : Own(p, i)' =>
                            i \notin stopped' /\ (file'[i] = p \/ AboutToWrite(p, i)')
                      /\ \A d \in Command : CmdSolo(d)'
    BY DEF SoloInv
  <2>1. Solo /\ \A d \in Command : cmd[d].at = "idle"
    BY <1>1 DEF Solo, Busy
  <2>2. \A d \in Command : d # c => cmd'[d].at = "idle"
    BY <1>4, <2>1
  <2>3. stopped' \subseteq stopped /\ (kind # "status" => stopped' \cap todo = {})
    BY <1>1
  <2>4. ASSUME NEW p \in Pid, NEW i \in Instance, Own(p, i)'
        PROVE  i \notin stopped' /\ file'[i] = p
    <3>1. Own(p, i) /\ ~AboutToWrite(p, i)
      BY <1>1, <2>1, <2>4 DEF Own, osVars, AboutToWrite
    <3> QED
      BY <1>1, <2>1, <2>3, <3>1 DEF IInv, SoloInv
  <2>5. ASSUME NEW d \in Command PROVE CmdSolo(d)'
    <3>1. CASE d # c
      BY <2>2, <3>1 DEF CmdSolo, Busy
    <3>2. CASE d = c
      <4>1. rec.at # "idle" /\ rec.kind # "status" => stopped' \cap ({rec.inst} \cup rec.todo) = {}
        BY <1>3, <2>3
      <4> QED
        BY <1>3, <1>4, <3>2, <4>1 DEF CmdSolo, Busy
    <3> QED
      BY <3>1, <3>2
  <2> QED
    BY <2>2, <2>4, <2>5 DEF Busy
<1> QED
  BY <1>6, <1>7, <1>8 DEF IInv

(* A number goes to a process of somebody else: the theorem promises less.  *)
LEMMA OtherTakesKeeps == ASSUME IInv, NEW p \in Pid, OtherTakes(p) PROVE IInv'
<1>1. /\ Fault /\ proc[p] = "free" /\ proc' = [proc EXCEPT ![p] = "other"] /\ reused' = TRUE
      /\ UNCHANGED <<file, runs, health, cmd, issued, overlapped, cut, stopped>>
  BY DEF OtherTakes
<1>2. OsOk'
  <2>1. proc'[p] = "other" /\ \A r \in Pid : r # p => proc'[r] = proc[r]
    BY <1>1 DEF IInv, Types, OsOk
  <2>2. proc' \in [Pid -> {"free", "boot", "up", "ending", "other"}]
    BY <1>1 DEF IInv, Types, OsOk
  <2> QED
    BY <1>1, <2>1, <2>2 DEF IInv, Types, OsOk
<1>3. Types'
  BY <1>1, <1>2, GatewayAssumption DEF Fault, IInv, Types, CmdsOk
<1>4. NamesInv' /\ SoloInv'
  BY <1>1 DEF NamesInv, SoloInv, Solo
<1> QED
  BY <1>3, <1>4 DEF IInv

-----------------------------------------------------------------------------
LEMMA Invariant == Spec => []IInv
<1>1. Init => IInv
  <2> SUFFICES ASSUME Init PROVE IInv
    OBVIOUS
  <2>1. CmdsOk /\ \A c \in Command : cmd[c].at = "idle" /\ cmd[c].pid = NoPid
    BY IdleOk DEF Init, CmdsOk, CmdOk
  <2>2. OsOk /\ \A p \in Pid : proc[p] = "free"
    BY DEF Init, OsOk
  <2>3. Types
    BY <2>1, <2>2, GatewayAssumption DEF Init, Types
  <2>4. NamesInv /\ SoloInv
    BY <2>1, <2>2 DEF NamesInv, SoloInv, Own, Live, CmdSolo, Busy, NoneOwn
  <2> QED
    BY <2>3, <2>4 DEF IInv
<1>2. IInv /\ [Next]_vars => IInv'
  <2> SUFFICES ASSUME IInv, [Next]_vars PROVE IInv'
    OBVIOUS
  <2>1. ASSUME NEW c \in Command, CommandStep(c) PROVE IInv'
    BY <2>1, ReadKeeps, StartChecksKeeps, StatusChecksKeeps, StopChecksKeeps, StopSeesKeeps,
       StopTimeoutKeeps, RemovesKeeps, PauseKeeps, StartsKeeps, CannotStartKeeps, WritesKeeps,
       CannotWriteKeeps, PolledKeeps
       DEF CommandStep
  <2>2. ASSUME NEW c \in Command, CommandDies(c) PROVE IInv'
    BY <2>2, CommandDiesKeeps
  <2>3. ASSUME NEW c \in Command, NEW kind \in Kinds, NEW todo \in Targets, Begin(c, kind, todo)
        PROVE  IInv'
    BY <2>3, BeginKeeps
  <2>4. ASSUME NEW p \in Pid, BootDone(p) PROVE IInv'
    <3>1. OsMoves
      BY <2>4, Booting DEF IInv, Types
    <3> QED
      BY <2>4, <3>1, ProcessMoves DEF BootDone, IInv, Types
  <2>5. ASSUME NEW p \in Pid, ShutdownDone(p) PROVE IInv'
    <3>1. OsMoves
      BY <2>5, Ending DEF ShutdownDone, IInv, Types
    <3> QED
      BY <2>5, <3>1, ProcessMoves DEF ShutdownDone, IInv, Types
  <2>6. ASSUME NEW p \in Pid, ProcessDies(p) PROVE IInv'
    <3>1. OsMoves
      BY <2>6, Ending DEF ProcessDies, IInv, Types
    <3>2. faults' \in 0 .. MaxFaults
      BY <2>6, GatewayAssumption DEF ProcessDies, Fault, IInv, Types
    <3> QED
      BY <2>6, <3>1, <3>2, ProcessMoves DEF ProcessDies
  <2>7. ASSUME NEW p \in Pid, OtherTakes(p) PROVE IInv'
    BY <2>7, OtherTakesKeeps
  <2>8. CASE UNCHANGED vars
    <3>1. OsMoves
      BY <2>8, Unchanged DEF IInv, Types, vars
    <3> QED
      BY <2>8, <3>1, ProcessMoves DEF vars, IInv, Types
  <2> QED
    BY <2>1, <2>2, <2>3, <2>4, <2>5, <2>6, <2>7, <2>8 DEF Next
<1> QED
  BY <1>1, <1>2, PTL DEF Spec

(* For any data directory, ports, process numbers and command lines: a pid  *)
(* file never names the process of another instance unless the number was   *)
(* reused; and with one command at a time, none cut between its spawn and   *)
(* its pid file, an instance has at most one process, between commands the  *)
(* one its file names, and none once it was stopped.                        *)
THEOREM PidFilesTell == Spec => []PidFilesSound
<1>1. IInv => PidFilesSound
  <2> SUFFICES ASSUME IInv PROVE PidFilesSound
    OBVIOUS
  <2>1. TypeOK
    BY TypesImplied DEF IInv
  <2>2. ~reused => FilesNameOwn
    BY DEF IInv, NamesInv, FilesNameOwn, Live
  <2>3. ASSUME Solo, NEW i \in Instance PROVE Cardinality({p \in Pid : Own(p, i)}) <= 1
    <3> DEFINE S == {p \in Pid : Own(p, i)}
    <3>1. ASSUME NEW p \in S, NEW q \in S PROVE p = q
      <4>1. file[i] = p \/ AboutToWrite(p, i)
        BY <2>3, <3>1 DEF IInv, SoloInv
      <4>2. file[i] = q \/ AboutToWrite(q, i)
        BY <2>3, <3>1 DEF IInv, SoloInv
      <4>3. ASSUME NEW r \in S, NEW o \in S, AboutToWrite(r, i) PROVE o = r
        <5>1. PICK c \in Command : cmd[c].at = "write" /\ cmd[c].inst = i /\ cmd[c].pid = r
          BY <4>3 DEF AboutToWrite
        <5> QED
          BY <2>3, <4>3, <5>1 DEF IInv, SoloInv, CmdSolo
      <4> QED
        BY <3>1, <4>1, <4>2, <4>3
    <3> HIDE DEF S
    <3>2. CASE S = {}
      BY <3>2, FS_EmptySet DEF S
    <3>3. CASE S # {}
      <4>1. PICK p : S = {p}
        BY <3>1, <3>3
      <4>2. Cardinality({p}) = 1
        BY FS_Singleton
      <4> QED
        BY <4>1, <4>2 DEF S
    <3> QED
      BY <3>2, <3>3
  <2>4. Solo /\ Resting => \A p \in Pid, i \in Instance : Own(p, i) => file[i] = p /\ i \notin stopped
    BY DEF IInv, SoloInv, Resting, Busy, AboutToWrite
  <2> QED
    BY <2>1, <2>2, <2>3, <2>4 DEF PidFilesSound
<1> QED
  BY <1>1, Invariant, PTL

-----------------------------------------------------------------------------
(* InstanceLife.                                                           *)

SkillList == [Skill -> Nat]

LifeTypes ==
    /\ edits \in Nat
    /\ disk \in [Layers -> SkillList]
    /\ recent \in [0 .. TTL -> SUBSET SkillList]
    /\ cache = [known |-> cache.known, list |-> cache.list, age |-> cache.age, mtime |-> cache.mtime]
    /\ cache.age \in Nat
    /\ turn = [at |-> turn.at, list |-> turn.list, skills |-> turn.skills,
               prompt |-> turn.prompt, tools |-> turn.tools]

(* The history of the disk has its present state; a cached list is one of  *)
(* the history, not younger than its age, a scanned one that is not stamped*)
(* yet one of the present tick.                                            *)
Fresh ==
    /\ disk["instance"] \in recent[0]
    /\ cache.known /\ cache.age <= TTL => cache.list \in recent[cache.age]
    /\ turn.at \in {"stamp", "stamp again"} => turn.list \in recent[0]
    /\ SkillsFresh

(* A hash that is not torn is that of the core accepted last, and a check   *)
(* compares the hash of a core.                                            *)
SoulInv ==
    /\ core \in Cores \cup {NoFile}
    /\ phase = "comparing" => found \in Cores
    /\ hash # "torn" => hash = accepted

LifeIInv == LifeTypes /\ Fresh /\ SoulInv

LEMMA InitIInv == LifeInit => LifeIInv
<1> SUFFICES ASSUME LifeInit PROVE LifeIInv
  OBVIOUS
<1>1. 0 \in 0 .. TTL /\ [s \in Skill |-> 0] \in SkillList
  BY InstanceAssumption DEF SkillList
<1>2. LifeTypes
  BY <1>1 DEF LifeTypes, LifeInit, NoCache, NoTurn, Layers
<1>3. Fresh
  BY <1>1 DEF Fresh, SkillsFresh, LifeInit, NoCache, NoTurn, Layers
<1>4. SoulInv
  BY DEF SoulInv, LifeInit
<1> QED
  BY <1>2, <1>3, <1>4 DEF LifeIInv

-----------------------------------------------------------------------------
(* core.md and its hash.                                                   *)
LEMMA StepSoulInv ==
    ASSUME SoulInv, [LifeNext]_lifeVars PROVE SoulInv'
<1>1. CASE UNCHANGED soulVars /\ phase' # "comparing"
  BY <1>1 DEF SoulInv, soulVars
<1>2. CASE UNCHANGED <<soulVars, phase>>
  BY <1>2 DEF SoulInv, soulVars
<1>3. CASE StartsUp
  BY <1>3 DEF StartsUp, SoulInv, CoreRead, Cores
<1>4. CASE ReadCore
  BY <1>4 DEF ReadCore, SoulInv
<1>5. CASE Compare
  BY <1>5 DEF Compare, SoulInv
<1>6. CASE HashWritten
  BY <1>6 DEF HashWritten, Written, SoulInv
<1>7. CASE EditCore \/ RemoveHash
  BY <1>7 DEF EditCore, RemoveHash, SoulInv, Cores
<1>8. CASE Shutdown \/ Crash
  BY <1>8 DEF Shutdown, Crash, Gone, SoulInv
<1>9. ASSUME NEW list, Built(list), UNCHANGED <<phase, hash, found, accepted>> PROVE SoulInv'
  BY <1>9 DEF Built, SoulInv, CoreRead, Cores
<1>10. CASE BuildPrompt
  BY <1>2, <1>9, <1>10 DEF BuildPrompt, soulVars
<1>11. CASE Stamp
  BY <1>9, <1>11 DEF Stamp
<1>12. CASE Load \/ Enable
  BY <1>1, <1>12 DEF Load, Enable
<1>13. CASE RunTurn \/ StampAgain \/ Tick \/ EditSkill \/ EditLists \/ UNCHANGED lifeVars
  BY <1>2, <1>13 DEF RunTurn, StampAgain, Tick, EditSkill, EditLists, lifeVars
<1> QED
  BY <1>3, <1>4, <1>5, <1>6, <1>7, <1>8, <1>10, <1>11, <1>12, <1>13 DEF LifeNext

(* Only the comparison leads from "comparing" to acceptance or refusal.    *)
LEMMA DecidedByCompare ==
    ASSUME [LifeNext]_lifeVars, phase = "comparing", phase' \in {"hashing", "refused"}
    PROVE  Compare
  BY DEF LifeNext, StartsUp, ReadCore, HashWritten, Written, Load, Enable, Shutdown, Crash, Gone,
         BuildPrompt, Stamp, RunTurn, StampAgain, Tick, EditSkill, EditCore, RemoveHash, EditLists,
         lifeVars

LEMMA CompareDecides ==
    ASSUME SoulInv, Compare
    PROVE  /\ phase' = "hashing" /\ accepted # NoFile => found = accepted
           /\ phase' = "refused" => found # accepted \/ hash = "torn"
<1>1. CASE Refuses
  BY <1>1 DEF Compare, Refuses, SoulInv
<1>2. CASE ~Refuses
  <2>1. found \in Cores /\ (hash = NoFile \/ hash = found)
    BY <1>2 DEF Compare, Refuses, SoulInv
  <2>2. hash # "torn" /\ hash = accepted
    BY <2>1 DEF SoulInv, Cores, NoFile
  <2> QED
    BY <1>2, <2>1, <2>2 DEF Compare
<1> QED
  BY <1>1, <1>2

-----------------------------------------------------------------------------
(* The cache of skills and the history of the disk.                        *)

(* A step that leaves the skills, their history and the cache alone.       *)
LEMMA TurnKeepsFresh ==
    ASSUME LifeIInv, UNCHANGED <<skillVars, edits>>,
           turn' = [at |-> turn'.at, list |-> turn'.list, skills |-> turn'.skills,
                    prompt |-> turn'.prompt, tools |-> turn'.tools],
           turn'.at \in {"stamp", "stamp again"} => turn'.list \in recent[0],
           turn'.at = "built" => turn'.list \in UNION {recent[a] : a \in 0 .. TTL}
    PROVE  LifeTypes' /\ Fresh'
  BY DEF LifeIInv, LifeTypes, Fresh, SkillsFresh, skillVars

(* A list that is served from the cache.                                   *)
LEMMA ServedIsRecent ==
    ASSUME LifeIInv, CacheValid(cache, disk["instance"], TTL)
    PROVE  cache.list \in UNION {recent[a] : a \in 0 .. TTL}
<1>1. cache.known /\ cache.age \in 0 .. TTL /\ cache.age <= TTL
  BY InstanceAssumption DEF CacheValid, CacheExpired, LifeIInv, LifeTypes
<1>2. Fresh
  BY DEF LifeIInv
<1>3. cache.list \in recent[cache.age]
  BY <1>1, <1>2 DEF Fresh
<1> QED
  BY <1>1, <1>3

(* A scan that is stamped: its list is of the present tick.                *)
LEMMA StampFresh ==
    ASSUME LifeIInv, turn.list \in recent[0], cache' = Cached(turn.list, disk["instance"]),
           UNCHANGED <<disk, recent, edits>>,
           turn' = [at |-> turn'.at, list |-> turn'.list, skills |-> turn'.skills,
                    prompt |-> turn'.prompt, tools |-> turn'.tools],
           turn'.at \in {"idle", "built"}, turn'.list = turn.list
    PROVE  LifeTypes' /\ Fresh'
<1>1. /\ cache'.known /\ cache'.age = 0 /\ cache'.list = turn.list
      /\ cache' = [known |-> cache'.known, list |-> cache'.list, age |-> cache'.age,
                   mtime |-> cache'.mtime]
  BY DEF Cached
<1>2. LifeTypes'
  BY <1>1 DEF LifeIInv, LifeTypes
<1>3. Fresh'
  <2>1. turn'.list \in recent'[0] /\ 0 \in 0 .. TTL
    BY InstanceAssumption
  <2>2. SkillsFresh'
    BY <2>1 DEF SkillsFresh
  <2>3. disk'["instance"] \in recent'[0]
    BY DEF LifeIInv, Fresh
  <2>4. cache'.list \in recent'[cache'.age]
    BY <1>1, <2>1
  <2> QED
    BY <2>1, <2>2, <2>3, <2>4 DEF Fresh
<1> QED
  BY <1>2, <1>3

LEMMA BuildPromptFresh == ASSUME LifeIInv, BuildPrompt PROVE LifeTypes' /\ Fresh'
<1>1. CASE CacheValid(cache, disk["instance"], TTL)
  <2>1. Built(cache.list)
    BY <1>1 DEF BuildPrompt
  <2>2. /\ turn' = [at |-> turn'.at, list |-> turn'.list, skills |-> turn'.skills,
                    prompt |-> turn'.prompt, tools |-> turn'.tools]
        /\ turn'.at = "built" /\ turn'.list = cache.list
    BY <2>1 DEF Built
  <2> QED
    BY <1>1, <2>2, ServedIsRecent, TurnKeepsFresh DEF BuildPrompt
<1>2. CASE ~CacheValid(cache, disk["instance"], TTL)
  <2>1. turn' = [turn EXCEPT !.at = "stamp", !.list = disk["instance"]]
    BY <1>2 DEF BuildPrompt
  <2>2. /\ turn' = [at |-> turn'.at, list |-> turn'.list, skills |-> turn'.skills,
                    prompt |-> turn'.prompt, tools |-> turn'.tools]
        /\ turn'.at = "stamp" /\ turn'.list = disk["instance"]
    BY <2>1 DEF LifeIInv, LifeTypes
  <2>3. disk["instance"] \in recent[0]
    BY DEF LifeIInv, Fresh
  <2> QED
    BY <2>2, <2>3, TurnKeepsFresh DEF BuildPrompt
<1> QED
  BY <1>1, <1>2

LEMMA StampsFresh == ASSUME LifeIInv, Stamp \/ StampAgain PROVE LifeTypes' /\ Fresh'
<1>1. /\ turn.list \in recent[0] /\ cache' = Cached(turn.list, disk["instance"])
      /\ UNCHANGED <<disk, recent, edits>>
  BY DEF LifeIInv, Fresh, Stamp, StampAgain
<1>2. /\ turn' = [at |-> turn'.at, list |-> turn'.list, skills |-> turn'.skills,
                  prompt |-> turn'.prompt, tools |-> turn'.tools]
      /\ turn'.at \in {"idle", "built"} /\ turn'.list = turn.list
  <2>1. CASE Stamp
    BY <2>1 DEF Stamp, Built
  <2>2. CASE StampAgain
    BY <2>2 DEF StampAgain, OffersTools, LifeIInv, LifeTypes
  <2> QED
    BY <2>1, <2>2
<1> QED
  BY <1>1, <1>2, StampFresh

LEMMA RunTurnFresh == ASSUME LifeIInv, RunTurn PROVE LifeTypes' /\ Fresh'
<1>1. /\ turn' = [at |-> turn'.at, list |-> turn'.list, skills |-> turn'.skills,
                  prompt |-> turn'.prompt, tools |-> turn'.tools]
      /\ \/ turn'.at = "idle"
         \/ turn'.at = "stamp again" /\ turn'.list = disk["instance"]
  BY DEF RunTurn, OffersTools, LifeIInv, LifeTypes
<1>2. disk["instance"] \in recent[0]
  BY DEF LifeIInv, Fresh
<1> QED
  BY <1>1, <1>2, TurnKeepsFresh DEF RunTurn

(* Time passes only between turns: every state of the disk gets older by   *)
(* one, as the cache does.                                                 *)
LEMMA TickFresh == ASSUME LifeIInv, Tick PROVE LifeTypes' /\ Fresh'
<1> DEFINE shifted == [a \in 0 .. TTL |-> IF a = 0 THEN {disk["instance"]} ELSE recent[a - 1]]
<1>1. TTL \in Nat /\ disk["instance"] \in SkillList
  BY InstanceAssumption DEF LifeIInv, LifeTypes, Layers
<1>2. /\ recent' = shifted /\ UNCHANGED <<disk, edits, turn>> /\ turn.at = "idle"
      /\ cache' = [cache EXCEPT !.age = @ + 1] /\ cache.known /\ cache.age <= TTL
  BY DEF Tick, turnVars
<1>3. /\ cache' = [known |-> cache'.known, list |-> cache'.list, age |-> cache'.age,
                   mtime |-> cache'.mtime]
      /\ cache'.age = cache.age + 1 /\ cache'.list = cache.list /\ cache.age \in Nat
  BY <1>2 DEF LifeIInv, LifeTypes
<1>4. shifted \in [0 .. TTL -> SUBSET SkillList] /\ shifted[0] = {disk["instance"]}
  <2>1. ASSUME NEW a \in 0 .. TTL, a # 0 PROVE recent[a - 1] \in SUBSET SkillList
    <3>1. a - 1 \in 0 .. TTL
      BY <1>1, <2>1
    <3> QED
      BY <3>1 DEF LifeIInv, LifeTypes
  <2> QED
    BY <1>1, <2>1
<1>5. cache'.age <= TTL => cache'.list \in shifted[cache'.age]
  <2> SUFFICES ASSUME cache.age + 1 <= TTL PROVE cache.list \in shifted[cache.age + 1]
    BY <1>3
  <2>1. cache.age + 1 \in 0 .. TTL /\ cache.age + 1 # 0 /\ (cache.age + 1) - 1 = cache.age
    BY <1>1, <1>3
  <2>2. cache.list \in recent[cache.age]
    BY <1>2 DEF LifeIInv, Fresh
  <2> QED
    BY <2>1, <2>2
<1> HIDE DEF shifted
<1>6. LifeTypes'
  BY <1>2, <1>3, <1>4 DEF LifeIInv, LifeTypes
<1>7. Fresh'
  BY <1>2, <1>4, <1>5 DEF Fresh, SkillsFresh
<1> QED
  BY <1>6, <1>7

LEMMA EditSkillFresh == ASSUME LifeIInv, EditSkill PROVE LifeTypes' /\ Fresh'
<1>1. PICK l \in Layers, s \in Skill, version \in {0, edits + 1} :
         disk' = [disk EXCEPT ![l][s] = version]
  BY DEF EditSkill
<1>2. edits' = edits + 1 /\ UNCHANGED <<cache, turn>> /\ edits' \in Nat /\ version \in Nat
  BY DEF EditSkill, Edit, turnVars, LifeIInv, LifeTypes
<1>3. disk' \in [Layers -> SkillList]
  BY <1>1, <1>2 DEF LifeIInv, LifeTypes, SkillList
<1>4. PICK now : now = disk'["instance"]
  OBVIOUS
<1>5. recent' = [recent EXCEPT ![0] = recent[0] \cup {now}] /\ now \in SkillList /\ 0 \in 0 .. TTL
  BY <1>3, <1>4, InstanceAssumption DEF EditSkill, LifeIInv, LifeTypes, Layers
<1>6. /\ recent' \in [0 .. TTL -> SUBSET SkillList] /\ now \in recent'[0]
      /\ \A a \in 0 .. TTL : recent[a] \subseteq recent'[a]
  BY <1>5 DEF LifeIInv, LifeTypes
<1>7. LifeTypes'
  BY <1>2, <1>3, <1>6 DEF LifeIInv, LifeTypes
<1>8. Fresh'
  <2>1. cache.known /\ cache.age <= TTL => cache.list \in recent'[cache.age]
    <3>1. cache.age <= TTL => cache.age \in 0 .. TTL
      BY InstanceAssumption DEF LifeIInv, LifeTypes
    <3> QED
      BY <1>6, <3>1 DEF LifeIInv, Fresh
  <2>2. turn.at \in {"stamp", "stamp again"} => turn.list \in recent'[0]
    BY <1>5, <1>6 DEF LifeIInv, Fresh
  <2>3. turn.at = "built" => turn.list \in UNION {recent'[a] : a \in 0 .. TTL}
    BY <1>6 DEF LifeIInv, Fresh, SkillsFresh
  <2> QED
    BY <1>2, <1>4, <1>6, <2>1, <2>2, <2>3 DEF Fresh, SkillsFresh
<1> QED
  BY <1>7, <1>8

LEMMA GoneFresh == ASSUME LifeIInv, Gone PROVE LifeTypes' /\ Fresh'
<1>1. /\ ~cache'.known /\ cache'.age = 0
      /\ cache' = [known |-> cache'.known, list |-> cache'.list, age |-> cache'.age,
                   mtime |-> cache'.mtime]
  BY DEF Gone, NoCache
<1>2. /\ turn'.at = "idle"
      /\ turn' = [at |-> turn'.at, list |-> turn'.list, skills |-> turn'.skills,
                  prompt |-> turn'.prompt, tools |-> turn'.tools]
  BY DEF Gone, NoTurn
<1>3. LifeTypes'
  BY <1>1, <1>2 DEF Gone, LifeIInv, LifeTypes
<1>4. SkillsFresh'
  BY <1>2 DEF SkillsFresh
<1> QED
  BY <1>1, <1>2, <1>3, <1>4 DEF Gone, LifeIInv, Fresh

(* The other steps change none of it, but the count of edits.              *)
LEMMA OthersKeepFresh ==
    ASSUME LifeIInv, UNCHANGED <<skillVars, turn>>, edits' \in {edits, edits + 1}
    PROVE  LifeTypes' /\ Fresh'
<1>1. LifeTypes'
  BY DEF LifeIInv, LifeTypes, skillVars
<1>2. Fresh'
  BY DEF LifeIInv, Fresh, SkillsFresh, skillVars
<1> QED
  BY <1>1, <1>2

LEMMA StepIInv == LifeIInv /\ [LifeNext]_lifeVars => LifeIInv'
<1> SUFFICES ASSUME LifeIInv, [LifeNext]_lifeVars PROVE LifeIInv'
  OBVIOUS
<1>1. SoulInv'
  BY StepSoulInv DEF LifeIInv
<1>2. CASE BuildPrompt \/ Stamp \/ StampAgain \/ RunTurn \/ Tick \/ EditSkill \/ Gone
  BY <1>1, <1>2, BuildPromptFresh, StampsFresh, RunTurnFresh, TickFresh, EditSkillFresh,
     GoneFresh DEF LifeIInv
<1>3. CASE StartsUp \/ ReadCore \/ Compare \/ HashWritten \/ Load \/ Enable \/ EditCore
           \/ RemoveHash \/ EditLists \/ UNCHANGED lifeVars
  <2>1. UNCHANGED <<skillVars, turn>> /\ edits' \in {edits, edits + 1}
    BY <1>3 DEF StartsUp, ReadCore, Compare, HashWritten, Written, Load, Enable, EditCore,
                RemoveHash, EditLists, Edit, lifeVars, restVars, turnVars
  <2> QED
    BY <1>1, <2>1, OthersKeepFresh DEF LifeIInv
<1> QED
  BY <1>2, <1>3 DEF LifeNext, Shutdown, Crash

-----------------------------------------------------------------------------
LEMMA Reachable == LifeSpec => []LifeIInv
  BY InitIInv, StepIInv, PTL DEF LifeSpec

(* SoulGuard.check over any number of starts and crashes, with edits        *)
(* between any two of its steps: no core.md is accepted other than the one *)
(* accepted before, unless the hash was removed, and only a changed core.md *)
(* or a torn hash is refused.                                              *)
THEOREM ChangedCoreIsRefused == LifeSpec => SoulSound
<1>1. LifeIInv /\ [LifeNext]_lifeVars =>
        [phase = "comparing" =>
          /\ phase' = "hashing" /\ accepted # NoFile => found = accepted
          /\ phase' = "refused" => found # accepted \/ hash = "torn"]_lifeVars
  BY DecidedByCompare, CompareDecides DEF LifeIInv
<1> QED
  BY <1>1, Reachable, PTL DEF LifeSpec, SoulSound

(* SkillsLoader: whatever is edited while a turn scans and stamps, the     *)
(* skills of a prompt were on the disk within the last TTL ticks.          *)
THEOREM PromptsAreFresh == LifeSpec => []SkillsFresh
<1>1. LifeIInv => SkillsFresh
  BY DEF LifeIInv, Fresh
<1> QED
  BY <1>1, Reachable, PTL
===============================================================================
