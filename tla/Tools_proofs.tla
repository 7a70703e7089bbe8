---------------------------- MODULE Tools_proofs ----------------------------
(***************************************************************************)
(* Proofs about the tools of a turn.  First McpOwner, for any number of    *)
(* connects, calls and closes, any number of owners and attempts: one      *)
(* connection to a server at a time, and a call is never sent back to the  *)
(* session it found dead.  Then AuditedTurns, for any number of turns,     *)
(* rounds and calls: no call survives the turn that asked for it, and what  *)
(* the audit plugin records of a turn is the turn's.                       *)
(***************************************************************************)
EXTENDS McpOwner, AuditedTurns, ChatHistory_proofs, FiniteSetTheorems, SequenceTheorems, TLAPS

(* Types, and what a stage of a connect, of a call or of a close has.       *)
Managers ==
    /\ registered \in Owner \cup {None} /\ cooling \in BOOLEAN /\ made \in 0 .. MaxOwner
    /\ connect \in [Connector -> {"idle", "starting", "waiting", "up", "down"}]
    /\ target \in [Connector -> Owner \cup {None}]
    /\ orphans \subseteq Owner /\ reopened \subseteq Owner
    /\ \A c \in Connector : connect[c] # "idle" => target[c] # None

Owners ==
    /\ job \in [Owner -> {"none", "opening", "serving", "closing", "swapping",
                          "reopening", "leaving", "done"}]
    /\ closing \subseteq Owner
    /\ conn \in [Owner -> Conn \cup {None}]

(* An operation is about the wrapper its caller still holds; tool is the    *)
(* latest attempt's, or unregistered; a session only ever gets newer.       *)
Good == {op \in Op : /\ op.stale <= opened
                     /\ op.by \in Caller =>
                           /\ caller[op.by] # "idle"
                           /\ caller[op.by] = "done" \/ op.stale = held[op.by]}

Queues ==
    /\ ops \in [Owner -> Seq(Good)]
    /\ current \in [Owner -> Good \cup {NoOp}]

Connections ==
    /\ opened \in 0 .. MaxConn /\ live \subseteq Conn /\ leaked \subseteq live
    /\ \A k \in live : k <= opened
    /\ tool \in {None, opened}
    /\ handler \in [Conn -> Owner \cup {None}] /\ session \in [Conn -> Conn]
    /\ \A k \in Conn : session[k] >= k

Calls ==
    /\ caller \in [Caller -> {"idle", "calling", "sleeping", "waiting", "handed", "done"}]
    /\ held \in [Caller -> Conn \cup {None}] /\ answer \in [Caller -> Conn \cup {None}]
    /\ used \in [Caller -> SUBSET Trait] /\ error \in [Caller -> SUBSET Trait]
    /\ \A r \in Caller : /\ caller[r] \in {"idle", "done"} <=> held[r] = None
                         /\ held[r] <= opened
                         /\ answer[r] # None => held[r] # None /\ held[r] < answer[r]

Closers ==
    /\ closer \in [Closer -> {"idle", "begun", "asked", "joined", "done"}]
    /\ joined \in [Closer -> Owner \cup {None}]
    /\ \A k \in Closer : closer[k] \in {"begun", "asked", "joined"} => joined[k] # None

Types == Managers /\ Owners /\ Queues /\ Connections /\ Calls /\ Closers

(* An owner's stack is open, its own, and the owner runs; an open connection *)
(* is some owner's; an owner that runs is the registered one or an orphan.  *)
Stacks ==
    /\ \A o \in Owner : conn[o] # None => AliveOwner(o) /\ conn[o] \in live \ leaked
    /\ \A o, q \in Owner : conn[o] # None /\ conn[o] = conn[q] => o = q
    /\ \A o \in Owner : job[o] \in {"serving", "closing", "swapping", "leaving"} => conn[o] # None
    /\ \A k \in live \ leaked : \E o \in Owner : conn[o] = k
    /\ \A o \in Owner : AliveOwner(o) => o \in orphans \/ o = registered

(* Without orphans the wrapper is the one of the owner's stack; a rebuild    *)
(* opens a newer connection than the one its caller found dead.             *)
Latest ==
    /\ orphans = {} => \A o \in Owner : conn[o] # None /\ job[o] # "swapping" => tool = conn[o]
    /\ \A o \in Owner : job[o] = "reopening" /\ conn[o] # None => current[o].stale < conn[o]

IInv == Types /\ Stacks /\ Latest

LEMMA Numbers == /\ Conn \subseteq Nat /\ Owner \subseteq Nat /\ None \in Nat
                 /\ None \notin Conn /\ None \notin Owner /\ None \notin Caller
                 /\ MaxConn \in Nat /\ MaxOwner \in Nat
  BY McpAssumption DEF Conn, Owner, None

LEMMA TypesImplied == Types => TypeOK
<1> SUFFICES ASSUME Types PROVE TypeOK
  OBVIOUS
<1> USE DEF Types
<1>1. Good \subseteq Op
  BY DEF Good
<1>2. \A s \in Seq(Good) : s \in Seq(Op)
  BY <1>1, SeqMonotonic
<1>3. ops \in [Owner -> Seq(Op)] /\ current \in [Owner -> Op \cup {NoOp}]
  BY <1>1, <1>2 DEF Queues
<1>4. tool \in Conn \cup {None}
  BY McpAssumption DEF Connections, Conn, None
<1> QED
  BY <1>3, <1>4 DEF Managers, Owners, Connections, Calls, Closers, TypeOK

(* What no step undoes: a call holds one wrapper until it is over.          *)
CallsMoveOn ==
    \A r \in Caller : /\ caller[r] # "idle" => caller'[r] # "idle"
                      /\ caller[r] = "done" => caller'[r] = "done"
                      /\ caller[r] = "idle" \/ caller'[r] = "done" \/ held'[r] = held[r]

LEMMA GoodStays ==
    ASSUME Types, CallsMoveOn, opened' >= opened, opened' \in Nat
    PROVE  Good \subseteq Good' /\ \A s \in Seq(Good) : s \in Seq(Good')
<1>1. ASSUME NEW op \in Good PROVE op \in Good'
  <2>1. op \in Op /\ op.stale \in Nat /\ opened \in Nat /\ op.stale <= opened
    BY McpAssumption DEF Good, Op, Types, Connections, Conn, None
  <2>2. op.by \in Caller => /\ caller[op.by] # "idle"
                            /\ caller[op.by] = "done" \/ op.stale = held[op.by]
    BY DEF Good
  <2>3. op.by \in Caller => /\ caller'[op.by] # "idle"
                            /\ caller'[op.by] = "done" \/ op.stale = held'[op.by]
    BY <2>2 DEF CallsMoveOn
  <2>4. op.stale <= opened'
    BY <2>1
  <2> QED
    BY <2>1, <2>3, <2>4 DEF Good
<1>2. Good \subseteq Good'
  BY <1>1
<1> QED
  BY <1>2, SeqMonotonic

(* An owner does not touch its queue.                                       *)
LEMMA QueuesStay ==
    ASSUME Types, CallsMoveOn, opened' >= opened, opened' \in Nat, UNCHANGED <<ops, current>>
    PROVE  Queues'
  BY GoodStays DEF Types, Queues

LEMMA CallsUnchanged == UNCHANGED callerVars => CallsMoveOn
  BY DEF callerVars, CallsMoveOn

(* What Settle hands over is newer than what the caller held.               *)
LEMMA Settling ==
    ASSUME Types, NEW done, NEW wrapper \in Conn \cup {None}, Settle(done, wrapper),
           opened' >= opened, opened' \in Nat,
           \A op \in done : op.by \in Caller /\ caller[op.by] = "waiting" =>
               wrapper = None \/ held[op.by] < wrapper
    PROVE  Calls' /\ CallsMoveOn
<1> DEFINE met == {r \in Caller : caller[r] = "waiting" /\ r \in {op.by : op \in done}}
<1>1. /\ caller' = [r \in Caller |-> IF r \in met THEN "handed" ELSE caller[r]]
      /\ answer' = [r \in Caller |-> IF r \in met THEN wrapper ELSE answer[r]]
      /\ held' = held /\ used' = used /\ error' = error
  BY DEF Settle
<1>2. ASSUME NEW r \in met PROVE r \in Caller /\ caller[r] = "waiting" /\ (wrapper = None \/ held[r] < wrapper)
  OBVIOUS
<1> HIDE DEF met
<1>3. CallsMoveOn
  BY <1>1, <1>2 DEF CallsMoveOn
<1>4. /\ caller' \in [Caller -> {"idle", "calling", "sleeping", "waiting", "handed", "done"}]
      /\ answer' \in [Caller -> Conn \cup {None}]
  BY <1>1 DEF Types, Calls
<1>5. ASSUME NEW r \in Caller
      PROVE  /\ caller'[r] \in {"idle", "done"} <=> held'[r] = None
             /\ held'[r] <= opened'
             /\ answer'[r] # None => held'[r] # None /\ held'[r] < answer'[r]
  <2>1. held[r] \in Nat /\ opened \in Nat /\ held[r] <= opened
    BY McpAssumption DEF Types, Calls, Connections, Conn, None
  <2>2. held'[r] <= opened'
    BY <1>1, <2>1
  <2>3. answer'[r] # None => held'[r] # None /\ held'[r] < answer'[r]
    BY <1>1, <1>2 DEF Types, Calls
  <2>4. caller'[r] \in {"idle", "done"} <=> held'[r] = None
    BY <1>1, <1>2 DEF Types, Calls
  <2> QED
    BY <2>2, <2>3, <2>4
<1>6. Calls'
  BY <1>1, <1>4, <1>5 DEF Types, Calls
<1> QED
  BY <1>3, <1>6

(* An owner's task ends.                                                    *)
LEMMA Exiting ==
    ASSUME Types, NEW o \in Owner, Exit(o), UNCHANGED opened
    PROVE  /\ Owners' /\ Queues' /\ Calls' /\ Closers'
           /\ job' = [job EXCEPT ![o] = "done"] /\ conn' = [conn EXCEPT ![o] = None]
           /\ current' = [current EXCEPT ![o] = NoOp]
<1>1. /\ job' = [job EXCEPT ![o] = "done"] /\ conn' = [conn EXCEPT ![o] = None]
      /\ current' = [current EXCEPT ![o] = NoOp] /\ ops' = [ops EXCEPT ![o] = <<>>]
      /\ Settle(ToSet(ops[o]) \cup {current[o]}, None)
      /\ closer' = [k \in Closer |->
            IF closer[k] = "asked" /\ joined[k] = o THEN "joined" ELSE closer[k]]
      /\ closing' = closing /\ joined' = joined
  BY DEF Exit
<1>2. opened' >= opened /\ opened' \in Nat
  BY DEF Types, Connections
<1>3. Calls' /\ CallsMoveOn
  BY <1>1, <1>2, Settling
<1>4. Owners'
  BY <1>1 DEF Types, Owners
<1>5. Closers'
  BY <1>1 DEF Types, Closers
<1>6. Queues'
  <2>1. Good \subseteq Good' /\ \A s \in Seq(Good) : s \in Seq(Good')
    BY <1>2, <1>3, GoodStays
  <2>2. \A q \in Owner : ops'[q] \in Seq(Good')
    BY <1>1, <2>1 DEF Types, Queues
  <2>3. ops' \in [Owner -> Seq(Good')] /\ current' \in [Owner -> Good' \cup {NoOp}]
    BY <1>1, <2>1, <2>2 DEF Types, Queues
  <2> QED
    BY <2>3 DEF Queues
<1> QED
  BY <1>1, <1>3, <1>4, <1>5, <1>6

-----------------------------------------------------------------------------
(* Types, for the steps of connect.                                         *)
LEMMA ConnectTypes ==
    ASSUME Types, NEW c \in Connector,
           Connect(c) \/ Start(c) \/ ConnectReturn(c) \/ ConnectCancelled(c)
    PROVE  Types'
<1>1. UNCHANGED <<ops, current, conn, connVars, callerVars, closerVars>>
  BY DEF Connect, Start, ConnectReturn, ConnectCancelled, ownerVars
<1>2. Connections' /\ Calls' /\ Closers'
  BY <1>1 DEF Types, Connections, Calls, Closers, connVars, wrapperVars, callerVars, closerVars
<1>3. Queues'
  <2>1. opened' >= opened /\ opened' \in Nat
    BY <1>1 DEF Types, Connections, connVars
  <2> QED
    BY <1>1, <2>1, QueuesStay, CallsUnchanged
<1>4. Managers' /\ Owners'
  <2>1. CASE Connect(c)
    <3>1. PICK o \in Owner : Lookup(o) /\ target' = [target EXCEPT ![c] = o]
      BY <2>1 DEF Connect
    <3>2. /\ connect' = [connect EXCEPT ![c] = "starting"] /\ UNCHANGED <<orphans, reopened, job, closing>>
      BY <2>1 DEF Connect, ownerVars
    <3>3. registered' \in Owner \cup {None} /\ made' \in 0 .. MaxOwner /\ cooling' = cooling
      BY <3>1, McpAssumption DEF Lookup, managerVars, Types, Managers, Owner
    <3>4. o # None
      BY McpAssumption DEF Owner, None
    <3> QED
      BY <1>1, <3>1, <3>2, <3>3, <3>4 DEF Types, Managers, Owners
  <2>2. CASE Start(c)
    BY <1>1, <2>2 DEF Start, StartOwner, Noting, managerVars, Types, Managers, Owners
  <2>3. CASE ConnectReturn(c)
    BY <1>1, <2>3 DEF ConnectReturn, ownerVars, Types, Managers, Owners
  <2>4. CASE ConnectCancelled(c)
    BY <1>1, <2>4 DEF ConnectCancelled, managerVars, ownerVars, Types, Managers, Owners
  <2> QED
    BY <2>1, <2>2, <2>3, <2>4
<1> QED
  BY <1>2, <1>3, <1>4 DEF Types

(* Types, for an owner that exits.                                          *)
ExitStep(o) == OpenFails(o) \/ Closes(o) \/ SwapGivenUp(o) \/ ReopenFails(o) \/ Leaves(o)

LEMMA ExitFacts ==
    ASSUME NEW o \in Owner, ExitStep(o)
    PROVE  /\ Exit(o) /\ UNCHANGED <<opened, tool, handler, session, registered, cooling, made,
                                     target, orphans, reopened>>
           /\ job[o] \in {"opening", "closing", "swapping", "reopening", "leaving"}
           /\ \/ live' = live \ {conn[o]} /\ leaked' = leaked
              \/ live' = live /\ leaked' = leaked \cup {conn[o]}
                 /\ job[o] \in {"closing", "swapping", "leaving"}
           /\ \/ connect' = connect
              \/ connect' = [c \in Connector |->
                    IF connect[c] = "waiting" /\ target[c] = o THEN "down" ELSE connect[c]]
  BY DEF ExitStep, OpenFails, Closes, SwapGivenUp, ReopenFails, Leaves, AttemptFails, TearDown,
         ResolveReady, wrapperVars, managerVars, connectVars

LEMMA ExitTypes == ASSUME Types, Stacks, NEW o \in Owner, ExitStep(o) PROVE Types'
<1>1. Owners' /\ Queues' /\ Calls' /\ Closers'
  BY ExitFacts, Exiting
<1>2. Managers'
  BY ExitFacts DEF Types, Managers
<1>3. Connections'
  <2>1. job[o] \in {"closing", "swapping", "leaving"} => conn[o] \in live
    BY DEF Stacks
  <2>2. conn[o] \notin leaked
    BY McpAssumption DEF Stacks, Types, Connections, Conn, None
  <2>3. leaked' \subseteq live' /\ live' \subseteq live
    BY <2>1, <2>2, ExitFacts DEF Types, Connections
  <2> QED
    BY <2>3, ExitFacts DEF Types, Connections
<1> QED
  BY <1>1, <1>2, <1>3 DEF Types

(* Types, for the other steps of an owner.                                  *)
LEMMA RegistersTypes == ASSUME Types, NEW o \in Owner, Registers(o) PROVE Types'
<1>1. /\ opened < MaxConn /\ opened' = opened + 1 /\ live' = live \cup {opened'}
      /\ conn' = [conn EXCEPT ![o] = opened'] /\ tool' = opened'
      /\ UNCHANGED <<job, closing, ops, current, leaked, handler, session, managerVars,
                     connectVars, callerVars, closerVars>>
  BY DEF Registers
<1>2. opened \in Nat /\ opened' \in Conn /\ opened' >= opened /\ opened' \in Nat
  BY <1>1, McpAssumption DEF Types, Connections, Conn
<1>3. Queues'
  BY <1>1, <1>2, QueuesStay, CallsUnchanged
<1>4. Connections'
  BY <1>1, <1>2, McpAssumption DEF Types, Connections, Conn
<1>5. Calls'
  <2>1. \A r \in Caller : held[r] \in Nat /\ held[r] <= opened
    BY McpAssumption DEF Types, Calls, Conn, None
  <2>2. \A r \in Caller : held[r] <= opened'
    BY <1>2, <2>1
  <2> QED
    BY <1>1, <2>2 DEF callerVars, Types, Calls
<1> QED
  BY <1>1, <1>2, <1>3, <1>4, <1>5 DEF Types, Managers, Owners, Closers, managerVars, connectVars, closerVars

LEMMA OpensTypes == ASSUME Types, NEW o \in Owner, Opens(o) PROVE Types'
<1>1. /\ Attaches(o) /\ job' = [job EXCEPT ![o] = "serving"]
      /\ connect' = [d \in Connector |->
            IF connect[d] = "waiting" /\ target[d] = o THEN "up" ELSE connect[d]]
      /\ UNCHANGED <<closing, ops, conn, opened, live, leaked, tool, session, managerVars,
                     target, orphans, reopened, current, callerVars, closerVars>>
  BY DEF Opens, Established, ResolveReady
<1>2. Queues'
  BY <1>1, QueuesStay, CallsUnchanged DEF Types, Connections
<1>3. Connections'
  BY <1>1 DEF Attaches, Types, Connections
<1> QED
  BY <1>1, <1>2, <1>3 DEF Types, Managers, Owners, Calls, Closers, managerVars, callerVars, closerVars

(* The head of a queue.                                                     *)
LEMMA Heads ==
    ASSUME Types, NEW o \in Owner, ops[o] # <<>>
    PROVE  Head(ops[o]) \in Good /\ Tail(ops[o]) \in Seq(Good)
<1>1. ops[o] \in Seq(Good)
  BY DEF Types, Queues
<1> QED
  BY <1>1, HeadTailProperties

LEMMA TakesTypes == ASSUME Types, NEW o \in Owner, TakesClose(o) \/ TakesReconnect(o) PROVE Types'
<1>1. /\ ops[o] # <<>>
      /\ job' \in {[job EXCEPT ![o] = "closing"], [job EXCEPT ![o] = "swapping"]}
      /\ current' = [current EXCEPT ![o] = Head(ops[o])]
      /\ ops' = [ops EXCEPT ![o] = Tail(ops[o])]
      /\ tool' \in {tool, None}
      /\ UNCHANGED <<closing, conn, opened, live, leaked, handler, session, managerVars,
                     connectVars, callerVars, closerVars>>
  BY DEF TakesClose, TakesReconnect, NextReconnect, Unregisters, connVars, wrapperVars
<1>2. Good' = Good
  BY <1>1 DEF Good, callerVars
<1>3. Queues'
  BY <1>1, <1>2, Heads DEF Types, Queues
<1>4. Owners'
  BY <1>1 DEF Types, Owners
<1>5. Connections'
  BY <1>1 DEF Types, Connections
<1> QED
  BY <1>1, <1>3, <1>4, <1>5 DEF Types, Managers, Calls, Closers, managerVars, connectVars, callerVars, closerVars

(* What is handed back is newer than what the caller held.                  *)
LEMMA HandedIsNewer ==
    ASSUME Types, NEW o \in Owner, ops[o] # <<>>, AlreadyRebuilt(Head(ops[o])),
           Head(ops[o]).by \in Caller, caller[Head(ops[o]).by] = "waiting"
    PROVE  held[Head(ops[o]).by] < tool
<1> DEFINE op == Head(ops[o])
<1>1. op \in Good
  BY Heads
<1>2. op.stale = held[op.by] /\ op.stale <= opened /\ op \in Op
  BY <1>1 DEF Good
<1>4. op.stale \in Nat
  BY <1>2, Numbers DEF Op, None
<1>5. opened \in Nat
  BY Numbers DEF Types, Connections
<1>3. tool = opened /\ tool # op.stale
  BY DEF AlreadyRebuilt, Types, Connections
<1> HIDE DEF op
<1> QED
  BY <1>2, <1>3, <1>4, <1>5 DEF op

LEMMA HandsBackTypes == ASSUME Types, NEW o \in Owner, HandsBackTool(o) PROVE Types'
<1>1. /\ ops[o] # <<>> /\ AlreadyRebuilt(Head(ops[o]))
      /\ Settle({Head(ops[o])}, tool)
      /\ ops' = [ops EXCEPT ![o] = Tail(ops[o])]
      /\ UNCHANGED <<job, closing, current, conn, connVars, managerVars, connectVars, closerVars>>
  BY DEF HandsBackTool, NextReconnect
<1>2. opened' = opened /\ opened \in Nat /\ opened' >= opened
  BY <1>1 DEF connVars, Types, Connections
<1>3. tool \in Conn \cup {None}
  BY McpAssumption DEF Types, Connections, Conn, None
<1>4. Calls' /\ CallsMoveOn
  BY <1>1, <1>2, <1>3, HandedIsNewer, Settling
<1>5. Good \subseteq Good' /\ \A s \in Seq(Good) : s \in Seq(Good')
  BY <1>2, <1>4, GoodStays
<1>6. Queues'
  <2>1. \A q \in Owner : ops'[q] \in Seq(Good')
    BY <1>1, <1>5, Heads DEF Types, Queues
  <2> QED
    BY <1>1, <1>5, <2>1 DEF Types, Queues
<1> QED
  BY <1>1, <1>4, <1>6 DEF Types, Managers, Owners, Connections, Closers, managerVars, connectVars,
     connVars, wrapperVars, closerVars

LEMMA SwapTypes == ASSUME Types, Stacks, NEW o \in Owner, SwapClosed(o) PROVE Types'
<1>1. /\ job[o] = "swapping" /\ live' = live \ {conn[o]} /\ conn' = [conn EXCEPT ![o] = None]
      /\ job' = [job EXCEPT ![o] = "reopening"]
      /\ UNCHANGED <<leaked, closing, ops, current, opened, wrapperVars,
                     managerVars, connectVars, callerVars, closerVars>>
  BY DEF SwapClosed
<1>2. Queues'
  BY <1>1, QueuesStay, CallsUnchanged DEF Types, Connections
<1>3. conn[o] \notin leaked
  BY <1>1 DEF Stacks
<1>4. Connections'
  BY <1>1, <1>3 DEF Types, Connections, wrapperVars
<1> QED
  BY <1>1, <1>2, <1>4 DEF Types, Managers, Owners, Calls, Closers, managerVars, connectVars, callerVars, closerVars

LEMMA ReopensTypes == ASSUME IInv, NEW o \in Owner, Reopens(o) PROVE Types'
<1>1. /\ job[o] = "reopening" /\ conn[o] # None /\ Attaches(o)
      /\ job' = [job EXCEPT ![o] = "serving"]
      /\ current' = [current EXCEPT ![o] = NoOp]
      /\ Settle({current[o]}, tool)
      /\ UNCHANGED <<closing, ops, conn, opened, live, leaked, tool, session, managerVars,
                     connectVars, closerVars>>
  BY DEF Reopens, Established
<1>2. opened' = opened /\ opened \in Nat /\ opened' >= opened
  BY <1>1 DEF IInv, Types, Connections
<1>3. tool \in Conn \cup {None}
  BY McpAssumption DEF IInv, Types, Connections, Conn, None
<1>4. ASSUME current[o].by \in Caller, caller[current[o].by] = "waiting"
      PROVE  tool = None \/ held[current[o].by] < tool
  <2>1. current[o] \in Good
    BY <1>4, McpAssumption DEF IInv, Types, Queues, NoOp
  <2>2. current[o].stale = held[current[o].by] /\ current[o].stale < conn[o]
    BY <1>1, <1>4, <2>1 DEF Good, IInv, Latest
  <2>3. conn[o] \in live /\ live \subseteq Conn /\ conn[o] <= opened
    BY <1>1 DEF IInv, Types, Stacks, Connections
  <2>4. held[current[o].by] \in Nat /\ tool \in {None, opened}
    BY <1>4, Numbers DEF IInv, Types, Connections, Calls
  <2>5. conn[o] \in Nat
    BY <2>3, Numbers
  <2> QED
    BY <1>2, <2>2, <2>3, <2>4, <2>5
<1>5. Calls' /\ CallsMoveOn
  BY <1>1, <1>2, <1>3, <1>4, Settling DEF IInv
<1>6. Good \subseteq Good' /\ \A s \in Seq(Good) : s \in Seq(Good')
  BY <1>2, <1>5, GoodStays DEF IInv
<1>7. Queues'
  BY <1>1, <1>6 DEF IInv, Types, Queues
<1>8. Connections'
  BY <1>1 DEF Attaches, IInv, Types, Connections
<1> QED
  BY <1>1, <1>5, <1>7, <1>8 DEF IInv, Types, Managers, Owners, Closers, managerVars, connectVars, closerVars

LEMMA KillTypes == ASSUME Types, NEW o \in Owner, ServerKillsTask(o) PROVE Types'
<1>1. /\ job' = [job EXCEPT ![o] = "leaving"]
      /\ UNCHANGED <<closing, ops, current, conn, connVars, managerVars, connectVars, callerVars, closerVars>>
  BY DEF ServerKillsTask
<1>2. Queues'
  BY <1>1, QueuesStay, CallsUnchanged DEF Types, Connections, connVars
<1> QED
  BY <1>1, <1>2 DEF Types, Managers, Owners, Connections, Calls, Closers, managerVars, connectVars,
     connVars, wrapperVars, callerVars, closerVars

-----------------------------------------------------------------------------
(* Types, for the calls.  A call's own step changes nothing of the others.  *)
OnlyCall(r) ==
    /\ \A q \in Caller \ {r} : /\ caller'[q] = caller[q] /\ held'[q] = held[q] /\ used'[q] = used[q]
                               /\ error'[q] = error[q] /\ answer'[q] = answer[q]
    /\ caller' \in [Caller -> {"idle", "calling", "sleeping", "waiting", "handed", "done"}]
    /\ held' \in [Caller -> Conn \cup {None}] /\ answer' \in [Caller -> Conn \cup {None}]
    /\ used' \in [Caller -> SUBSET Trait] /\ error' \in [Caller -> SUBSET Trait]
    /\ \/ caller[r] = "idle" /\ caller'[r] = "calling" /\ held'[r] = tool /\ tool # None
                             /\ answer'[r] = answer[r]
       \/ caller'[r] = "done" /\ held'[r] = None /\ answer'[r] = None
       \/ caller[r] \notin {"idle", "done"} /\ caller'[r] \notin {"idle", "done"}
             /\ held'[r] = held[r] /\ answer'[r] \in {answer[r], None}

LEMMA CallKeeps ==
    ASSUME Types, NEW r \in Caller, OnlyCall(r), opened' = opened
    PROVE  Calls' /\ CallsMoveOn
<1>1. CallsMoveOn
  BY DEF OnlyCall, CallsMoveOn, Types, Calls
<1>2. ASSUME NEW q \in Caller
      PROVE  /\ caller'[q] \in {"idle", "done"} <=> held'[q] = None
             /\ held'[q] <= opened'
             /\ answer'[q] # None => held'[q] # None /\ held'[q] < answer'[q]
  <2>1. CASE q # r
    BY <1>2, <2>1 DEF OnlyCall, Types, Calls
  <2>2. CASE q = r
    <3>1. opened \in Nat /\ tool \in {None, opened} /\ None <= opened
      BY Numbers DEF Types, Connections, None
    <3>2. tool # None => tool <= opened
      BY <3>1
    <3>3. caller[r] = "idle" => answer[r] = None
      BY DEF Types, Calls
    <3> QED
      BY <2>2, <3>1, <3>2, <3>3 DEF OnlyCall, Types, Calls
  <2> QED
    BY <2>1, <2>2
<1> QED
  BY <1>1, <1>2 DEF OnlyCall, Calls

LEMMA DoneIsOnlyCall ==
    ASSUME Types, NEW r \in Caller, Done(r)
    PROVE  OnlyCall(r)
  BY DEF Done, OnlyCall, Types, Calls

LEMMA NoSessionIsOnlyCall ==
    ASSUME Types, NEW r \in Caller, NEW traits, caller[r] \notin {"idle", "done"},
           WithoutNewSession(r, traits)
    PROVE  OnlyCall(r)
<1>1. CASE "transient" \in traits \ used[r]
  BY <1>1 DEF WithoutNewSession, OnlyCall, Types, Calls, Trait
<1>2. CASE "transient" \notin traits \ used[r]
  BY <1>2, DoneIsOnlyCall DEF WithoutNewSession
<1> QED
  BY <1>1, <1>2

(* Steps of a call that leave the queues alone.                             *)
LEMMA QuietCallTypes ==
    ASSUME Types, NEW r \in Caller, OnlyCall(r), Connections',
           UNCHANGED <<opened, managerVars, ownerVars, connectVars, closerVars>>
    PROVE  Types'
<1>1. Calls' /\ CallsMoveOn
  BY CallKeeps
<1>2. Queues'
  BY <1>1, QueuesStay DEF ownerVars, Types, Connections
<1> QED
  BY <1>1, <1>2 DEF Types, Managers, Owners, Closers, managerVars, ownerVars, connectVars, closerVars

LEMMA CallTypes ==
    ASSUME Types, NEW r \in Caller, UsesTool(r) \/ CallEnds(r) \/ HandedNothing(r) \/ CallsAgain(r)
    PROVE  Types'
<1>1. UNCHANGED <<managerVars, ownerVars, connVars, connectVars, closerVars>>
  BY DEF UsesTool, CallEnds, HandedNothing, CallsAgain
<1>2. Connections'
  BY <1>1 DEF connVars, wrapperVars, Types, Connections
<1>3. OnlyCall(r)
  <2>1. CASE UsesTool(r)
    <3>1. tool \in Conn
      BY <2>1, Numbers DEF UsesTool, Types, Connections, Conn, None
    <3> QED
      BY <2>1, <3>1 DEF UsesTool, OnlyCall, Types, Calls
  <2>2. CASE CallEnds(r)
    BY <2>2, DoneIsOnlyCall DEF CallEnds
  <2>3. CASE HandedNothing(r)
    BY <2>3, NoSessionIsOnlyCall DEF HandedNothing
  <2>4. CASE CallsAgain(r)
    BY <2>4 DEF CallsAgain, OnlyCall, Types, Calls
  <2> QED
    BY <2>1, <2>2, <2>3, <2>4
<1> QED
  BY <1>1, <1>2, <1>3, QuietCallTypes DEF connVars

LEMMA NewSessionTypes == ASSUME Types, NEW r \in Caller, TakesNewSession(r) PROVE Types'
<1>1. /\ caller[r] = "handed" /\ answer[r] # None
      /\ session' = [session EXCEPT ![held[r]] = session[answer[r]]]
      /\ UNCHANGED <<held, opened, live, leaked, tool, handler, managerVars, ownerVars,
                     connectVars, closerVars>>
  BY DEF TakesNewSession
<1>2. OnlyCall(r)
  BY DEF TakesNewSession, OnlyCall, Types, Calls, Trait
<1>3. held[r] \in Conn /\ answer[r] \in Conn /\ held[r] < answer[r]
  BY <1>1 DEF Types, Calls
<1>4. session[answer[r]] >= answer[r] /\ session[answer[r]] \in Conn
  BY <1>3 DEF Types, Connections
<1>5. session[answer[r]] >= held[r]
  <2>1. held[r] \in Nat /\ answer[r] \in Nat /\ session[answer[r]] \in Nat
    BY <1>3, <1>4, Numbers
  <2> QED
    BY <1>3, <1>4, <2>1
<1>6. Connections'
  BY <1>1, <1>3, <1>4, <1>5 DEF Types, Connections
<1> QED
  BY <1>1, <1>2, <1>6, QuietCallTypes

LEMMA RaisesTypes ==
    ASSUME Types, NEW r \in Caller, NEW traits \in SUBSET Trait, CallRaises(r, traits)
    PROVE  Types'
<1>1. /\ caller[r] = "calling"
      /\ UNCHANGED <<job, closing, current, conn, connVars, managerVars, connectVars, closerVars>>
  BY DEF CallRaises
<1>2. Connections' /\ opened' = opened
  BY <1>1 DEF connVars, wrapperVars, Types, Connections
<1>3. CASE MayRefresh(r, traits)
  <2> DEFINE op == [kind |-> "reconnect", by |-> r, stale |-> held[r]]
  <2>1. /\ caller' = [caller EXCEPT ![r] = "waiting"]
        /\ error' = [error EXCEPT ![r] = traits]
        /\ ops' = [ops EXCEPT ![handler[held[r]]] = Append(@, op)]
        /\ UNCHANGED <<held, used, answer>>
    BY <1>3 DEF CallRaises
  <2>2. OnlyCall(r)
    BY <1>1, <2>1 DEF OnlyCall, Types, Calls
  <2>3. Calls' /\ CallsMoveOn
    BY <1>2, <2>2, CallKeeps
  <2>4. Good \subseteq Good' /\ \A s \in Seq(Good) : s \in Seq(Good')
    BY <1>2, <2>3, GoodStays DEF Types, Connections
  <2>5. op \in Good'
    <3>1. held[r] \in Conn /\ held[r] <= opened
      BY <1>1 DEF Types, Calls
    <3>2. op \in Op
      BY <3>1 DEF Op
    <3> QED
      BY <1>1, <1>2, <2>1, <3>1, <3>2 DEF Good, Types, Calls
  <2> HIDE DEF op
  <2>6. ops' \in [Owner -> Seq(Good')]
    <3>1. \A o \in Owner : ops[o] \in Seq(Good') /\ Append(ops[o], op) \in Seq(Good')
      BY <2>4, <2>5 DEF Types, Queues
    <3> QED
      BY <2>1, <3>1 DEF Types, Queues
  <2>7. Queues'
    BY <1>1, <2>4, <2>6 DEF Types, Queues
  <2> QED
    BY <1>1, <1>2, <2>3, <2>7 DEF Types, Managers, Owners, Closers, managerVars, connectVars, closerVars
<1>4. CASE ~MayRefresh(r, traits)
  <2>1. WithoutNewSession(r, traits) /\ UNCHANGED ops
    BY <1>4 DEF CallRaises
  <2>2. OnlyCall(r)
    BY <1>1, <2>1, NoSessionIsOnlyCall
  <2> QED
    BY <1>1, <1>2, <2>1, <2>2, QuietCallTypes DEF ownerVars
<1> QED
  BY <1>3, <1>4

(* An abandoned operation is nobody's.                                      *)
Abandoned(op, r) == IF op.by = r THEN [op EXCEPT !.by = None] ELSE op

LEMMA AbandonedIsGood ==
    ASSUME NEW r \in Caller, NEW op \in Good
    PROVE  /\ Abandoned(op, r) \in Good /\ Abandoned(op, r).stale = op.stale
           /\ Abandoned(op, r).by # r
<1>1. CASE op.by = r
  <2>1. op.kind = "reconnect" /\ op \in [kind : {"reconnect"}, by : Caller \cup {None}, stale : Conn]
    BY <1>1, McpAssumption DEF Good, Op
  <2>2. Abandoned(op, r) = [kind |-> "reconnect", by |-> None, stale |-> op.stale]
    BY <1>1, <2>1 DEF Abandoned
  <2>3. Abandoned(op, r) \in Op
    BY <2>1, <2>2 DEF Op
  <2> QED
    BY <2>2, <2>3, Numbers DEF Good
<1>2. CASE op.by # r
  BY <1>2 DEF Abandoned
<1> QED
  BY <1>1, <1>2

LEMMA TimeoutTypes == ASSUME Types, NEW r \in Caller, ReconnectTimeout(r) PROVE Types'
<1>1. /\ caller[r] = "waiting"
      /\ ops' = [o \in Owner |-> [i \in DOMAIN ops[o] |-> Abandoned(ops[o][i], r)]]
      /\ current' = [o \in Owner |-> Abandoned(current[o], r)]
      /\ UNCHANGED <<held, used, error, job, closing, conn, managerVars, connVars,
                     connectVars, closerVars>>
  BY DEF ReconnectTimeout, Abandoned
<1>2. OnlyCall(r)
  BY DEF ReconnectTimeout, OnlyCall, Types, Calls
<1>3. Connections' /\ opened' = opened
  BY <1>1 DEF connVars, wrapperVars, Types, Connections
<1>4. Calls' /\ CallsMoveOn
  BY <1>2, <1>3, CallKeeps
<1>5. Good \subseteq Good'
  BY <1>3, <1>4, GoodStays DEF Types, Connections
<1>6. ops' \in [Owner -> Seq(Good')]
  <2>1. ASSUME NEW o \in Owner PROVE [i \in DOMAIN ops[o] |-> Abandoned(ops[o][i], r)] \in Seq(Good')
    <3>1. ops[o] \in Seq(Good)
      BY DEF Types, Queues
    <3>2. Len(ops[o]) \in Nat /\ DOMAIN ops[o] = 1 .. Len(ops[o])
      BY <3>1
    <3>3. \A i \in 1 .. Len(ops[o]) : Abandoned(ops[o][i], r) \in Good'
      BY <1>5, <3>1, <3>2, ElementOfSeq, AbandonedIsGood
    <3>4. [i \in 1 .. Len(ops[o]) |-> Abandoned(ops[o][i], r)] \in [1 .. Len(ops[o]) -> Good']
      BY <3>3
    <3> QED
      BY <3>2, <3>4, SeqDef
  <2> QED
    BY <1>1, <2>1
<1>7. current' \in [Owner -> Good' \cup {NoOp}]
  <2>1. Abandoned(NoOp, r) = NoOp
    BY Numbers DEF Abandoned, NoOp
  <2> QED
    BY <1>1, <1>5, <2>1, AbandonedIsGood DEF Types, Queues
<1> QED
  BY <1>1, <1>3, <1>4, <1>6, <1>7 DEF Types, Queues, Managers, Owners, Closers, managerVars, connectVars, closerVars

-----------------------------------------------------------------------------
(* Types, for close.                                                        *)
LEMMA CloseTypes ==
    ASSUME Types, NEW k \in Closer, CloseBegins(k) \/ CloseTimeout(k) \/ CloseReturns(k)
    PROVE  Types'
<1>1. UNCHANGED <<cooling, made, ownerVars, opened, live, leaked, handler, session, connectVars, callerVars>>
  BY DEF CloseBegins, CloseTimeout, CloseReturns, managerVars, connVars, wrapperVars, Unregisters
<1>2. tool' \in {tool, None} /\ registered' \in {registered, None}
  BY DEF CloseBegins, CloseTimeout, CloseReturns, managerVars, connVars, wrapperVars, Unregisters
<1>3. Queues'
  BY <1>1, QueuesStay, CallsUnchanged DEF ownerVars, Types, Connections
<1>4. Closers'
  BY DEF CloseBegins, CloseTimeout, CloseReturns, Types, Closers, Managers
<1> QED
  BY <1>1, <1>2, <1>3, <1>4 DEF Types, Managers, Owners, Connections, Calls, ownerVars, connectVars, callerVars

LEMMA RequestTypes == ASSUME Types, NEW k \in Closer, RequestClose(k) PROVE Types'
<1>1. /\ closer[k] = "begun" /\ joined[k] \in Owner
      /\ UNCHANGED <<joined, job, current, conn, managerVars, connVars, connectVars, callerVars>>
  BY DEF RequestClose, Types, Closers
<1> DEFINE op == [kind |-> "close", by |-> k, stale |-> None]
<1>2. \/ closer' = [closer EXCEPT ![k] = "joined"] /\ UNCHANGED <<closing, ops>>
      \/ /\ closer' = [closer EXCEPT ![k] = "asked"] /\ closing' = closing \cup {joined[k]}
         /\ ops' = [ops EXCEPT ![joined[k]] = Append(@, op)]
  BY DEF RequestClose
<1>3. Good' = Good
  BY <1>1 DEF Good, connVars, callerVars
<1>4. op \in Good
  <2>1. op \in Op /\ op.by \notin Caller /\ op.stale <= opened
    BY McpAssumption DEF Op, Types, Connections, None
  <2> QED
    BY <2>1 DEF Good
<1> HIDE DEF op
<1>5. Queues'
  <2>1. \A o \in Owner : Append(ops[o], op) \in Seq(Good)
    BY <1>4 DEF Types, Queues
  <2> QED
    BY <1>1, <1>2, <1>3, <2>1 DEF Types, Queues
<1>6. Closers' /\ Owners'
  BY <1>1, <1>2 DEF Types, Closers, Owners
<1> QED
  BY <1>1, <1>5, <1>6 DEF Types, Managers, Connections, Calls, managerVars, connVars, wrapperVars, connectVars, callerVars

-----------------------------------------------------------------------------
(* Stacks and Latest.  Most steps change none of what they are about.       *)
LEMMA StacksStay ==
    ASSUME IInv, UNCHANGED <<conn, job, opened, live, leaked, tool>>,
           orphans' = orphans,
           registered' = registered \/ (~AliveOwner(registered) /\ registered' \in Owner \cup {None})
                                    \/ (registered = None /\ registered' \in Owner \cup {None}),
           \A o \in Owner : current'[o].stale = current[o].stale
    PROVE  Stacks' /\ Latest'
<1>1. \A o \in Owner : AliveOwner(o)' = AliveOwner(o)
  BY DEF AliveOwner
<1>2. Stacks'
  BY <1>1, Numbers DEF IInv, Stacks
<1>3. Latest'
  BY DEF IInv, Latest
<1> QED
  BY <1>2, <1>3

LEMMA ConnectKeeps ==
    ASSUME IInv, NEW c \in Connector,
           Connect(c) \/ Start(c) \/ ConnectReturn(c) \/ ConnectCancelled(c)
    PROVE  IInv'
<1>1. Types'
  BY ConnectTypes DEF IInv
<1>2. CASE Connect(c)
  <2>1. UNCHANGED <<conn, job, opened, live, leaked, tool, current, orphans>>
    BY <1>2 DEF Connect, ownerVars, connVars, wrapperVars
  <2>2. registered' = registered \/ (registered = None /\ registered' \in Owner)
    BY <1>2 DEF Connect, Lookup, managerVars
  <2> QED
    BY <1>1, <2>1, <2>2, StacksStay DEF IInv
<1>3. CASE Start(c)
  <2> DEFINE o == target[c]
  <2>1. /\ UNCHANGED <<conn, opened, live, leaked, tool, current, registered>>
        /\ \/ job' = job
           \/ ~AliveOwner(o) /\ job' = [job EXCEPT ![o] = "opening"]
        /\ orphans' = IF ~AliveOwner(o) /\ registered # o THEN orphans \cup {o} ELSE orphans
    BY <1>3 DEF Start, StartOwner, Noting, managerVars, connVars, wrapperVars
  <2>2. o \in Owner
    BY <1>3 DEF Start, IInv, Types, Managers
  <2>3. ~AliveOwner(o) => conn[o] = None
    BY <2>2 DEF IInv, Stacks
  <2>4. \A q \in Owner : /\ AliveOwner(q) => AliveOwner(q)'
                         /\ AliveOwner(q)' => AliveOwner(q) \/ (q = o /\ ~AliveOwner(o))
                         /\ job'[q] = job[q] \/ (q = o /\ job'[q] = "opening" /\ conn[q] = None)
    BY <2>1, <2>3 DEF AliveOwner, IInv, Types, Owners
  <2> HIDE DEF o
  <2>5. Stacks'
    BY <2>1, <2>2, <2>4 DEF IInv, Stacks
  <2>6. Latest'
    BY <2>1, <2>4 DEF IInv, Latest
  <2> QED
    BY <1>1, <2>5, <2>6 DEF IInv
<1>4. CASE ConnectReturn(c)
  <2>1. UNCHANGED <<conn, job, opened, live, leaked, tool, current, orphans>>
    BY <1>4 DEF ConnectReturn, ownerVars, connVars, wrapperVars
  <2>2. registered' = registered \/ (~AliveOwner(registered) /\ registered' = None)
    BY <1>4 DEF ConnectReturn
  <2> QED
    BY <1>1, <2>1, <2>2, StacksStay DEF IInv
<1>5. CASE ConnectCancelled(c)
  <2>1. UNCHANGED <<conn, job, opened, live, leaked, tool, current, orphans, registered>>
    BY <1>5 DEF ConnectCancelled, ownerVars, connVars, wrapperVars, managerVars
  <2> QED
    BY <1>1, <2>1, StacksStay DEF IInv
<1> QED
  BY <1>2, <1>3, <1>4, <1>5

LEMMA CoolDownKeeps == ASSUME IInv, CoolDown PROVE IInv'
<1>1. UNCHANGED <<registered, made, ownerVars, connVars, connectVars, callerVars, closerVars>> /\ cooling' = FALSE
  BY DEF CoolDown
<1>2. Queues'
  BY <1>1, QueuesStay, CallsUnchanged DEF IInv, ownerVars, connVars, Types, Connections
<1>3. Types'
  BY <1>1, <1>2 DEF IInv, Types, Managers, Owners, Connections, Calls, Closers, ownerVars, connVars,
     wrapperVars, connectVars, callerVars, closerVars
<1>4. Stacks' /\ Latest'
  BY <1>1, StacksStay DEF ownerVars, connVars, wrapperVars, connectVars
<1> QED
  BY <1>3, <1>4 DEF IInv

(* An owner that exits takes its connection with it, or gives it up.        *)
LEMMA ExitKeeps == ASSUME IInv, NEW o \in Owner, ExitStep(o) PROVE IInv'
<1>1. Types'
  BY ExitTypes DEF IInv
<1>2. /\ UNCHANGED <<opened, tool, registered, orphans>>
      /\ job' = [job EXCEPT ![o] = "done"] /\ conn' = [conn EXCEPT ![o] = None]
      /\ current' = [current EXCEPT ![o] = NoOp]
      /\ \/ live' = live \ {conn[o]} /\ leaked' = leaked
         \/ live' = live /\ leaked' = leaked \cup {conn[o]}
  BY ExitFacts, Exiting DEF IInv
<1>3. /\ job'[o] = "done" /\ conn'[o] = None
      /\ \A q \in Owner : q # o => job'[q] = job[q] /\ conn'[q] = conn[q] /\ current'[q] = current[q]
  BY <1>2 DEF IInv, Types, Owners, Queues
<1>4. (live \ leaked) \ {conn[o]} = live' \ leaked'
  BY <1>2
<1>5. Stacks'
  <2>1. \A q \in Owner : AliveOwner(q)' <=> AliveOwner(q) /\ q # o
    BY <1>3 DEF AliveOwner
  <2>2. \A q \in Owner : conn'[q] # None => AliveOwner(q)' /\ conn'[q] \in live' \ leaked'
    BY <1>3, <1>4, <2>1 DEF IInv, Stacks
  <2>3. \A k \in live' \ leaked' : \E q \in Owner : conn'[q] = k
    BY <1>3, <1>4 DEF IInv, Stacks
  <2>4. \A p, q \in Owner : conn'[p] # None /\ conn'[p] = conn'[q] => p = q
    BY <1>3 DEF IInv, Stacks
  <2>5. \A q \in Owner : job'[q] \in {"serving", "closing", "swapping", "leaving"} => conn'[q] # None
    BY <1>3 DEF IInv, Stacks
  <2>6. \A q \in Owner : AliveOwner(q)' => q \in orphans' \/ q = registered'
    BY <1>2, <2>1 DEF IInv, Stacks
  <2> QED
    BY <2>2, <2>3, <2>4, <2>5, <2>6 DEF Stacks
<1>6. Latest'
  BY <1>2, <1>3 DEF IInv, Latest
<1> QED
  BY <1>1, <1>5, <1>6 DEF IInv

(* An attempt registers its wrappers: a number no connection ever had.      *)
LEMMA RegistersKeeps == ASSUME IInv, NEW o \in Owner, Registers(o) PROVE IInv'
<1>1. Types'
  BY RegistersTypes DEF IInv
<1> DEFINE n == opened + 1
<1>2. /\ job[o] \in {"opening", "reopening"} /\ conn[o] = None
      /\ opened' = n /\ tool' = n /\ live' = live \cup {n} /\ conn' = [conn EXCEPT ![o] = n]
      /\ UNCHANGED <<job, current, leaked, registered, orphans>>
  BY DEF Registers, managerVars, connectVars
<1>3. /\ conn'[o] = n /\ \A q \in Owner : q # o => conn'[q] = conn[q]
  BY <1>2 DEF IInv, Types, Owners
<1>4. n \in Nat /\ n # None /\ n \notin live /\ opened \in Nat /\ n \notin leaked
  <2>1. opened \in Nat /\ \A k \in live : k <= opened
    BY DEF IInv, Types, Connections
  <2>2. leaked \subseteq live
    BY DEF IInv, Types, Connections
  <2> QED
    BY <2>1, <2>2 DEF None
<1>5. \A q \in Owner : AliveOwner(q)' = AliveOwner(q)
  BY <1>2 DEF AliveOwner
<1>6. AliveOwner(o)
  BY <1>2 DEF AliveOwner
<1> HIDE DEF n
<1>7. Stacks'
  <2>1. \A q \in Owner : conn[q] # n
    BY <1>4 DEF IInv, Stacks
  <2>2. live' \ leaked' = (live \ leaked) \cup {n}
    BY <1>2, <1>4
  <2>3. \A q \in Owner : conn'[q] # None => AliveOwner(q)' /\ conn'[q] \in live' \ leaked'
    BY <1>3, <1>5, <1>6, <2>2 DEF IInv, Stacks
  <2>4. \A q, u \in Owner : conn'[q] # None /\ conn'[q] = conn'[u] => q = u
    BY <1>3, <2>1 DEF IInv, Stacks
  <2>5. \A k \in live' \ leaked' : \E q \in Owner : conn'[q] = k
    <3>1. ASSUME NEW k \in live \ leaked PROVE \E q \in Owner : conn'[q] = k
      <4>1. PICK q \in Owner : conn[q] = k
        BY <3>1 DEF IInv, Stacks
      <4>2. k # None
        BY <3>1, Numbers DEF IInv, Types, Connections
      <4>3. q # o
        BY <1>2, <4>1, <4>2
      <4> QED
        BY <1>3, <4>1, <4>3
    <3> QED
      BY <1>3, <2>2, <3>1
  <2>6. \A q \in Owner : job'[q] \in {"serving", "closing", "swapping", "leaving"} => conn'[q] # None
    BY <1>2, <1>3, <1>4 DEF IInv, Stacks
  <2> QED
    BY <1>2, <1>5, <2>3, <2>4, <2>5, <2>6 DEF IInv, Stacks
<1>8. Latest'
  <2>1. ASSUME orphans' = {}, NEW q \in Owner, conn'[q] # None, job'[q] # "swapping"
        PROVE  tool' = conn'[q]
    <3>1. AliveOwner(q) /\ AliveOwner(o)
      BY <1>3, <1>6, <2>1 DEF IInv, Stacks
    <3>2. q = o
      BY <1>2, <2>1, <3>1 DEF IInv, Stacks
    <3> QED
      BY <1>2, <1>3, <3>2
  <2>2. ASSUME NEW q \in Owner, job'[q] = "reopening", conn'[q] # None
        PROVE  current'[q].stale < conn'[q]
    <3>1. CASE q = o
      <4>1. current[q] \in Good \cup {NoOp}
        BY DEF IInv, Types, Queues
      <4>2. current[q].stale \in Nat /\ current[q].stale <= opened
        <5>1. CASE current[q] \in Good
          BY <5>1, Numbers DEF Good, Op
        <5>2. CASE current[q] = NoOp
          BY <1>4, <5>2 DEF NoOp, None
        <5> QED
          BY <4>1, <5>1, <5>2
      <4> QED
        BY <1>2, <1>3, <1>4, <3>1, <4>2 DEF n
    <3>2. CASE q # o
      BY <1>2, <1>3, <2>2, <3>2 DEF IInv, Latest
    <3> QED
      BY <3>1, <3>2
  <2> QED
    BY <2>1, <2>2 DEF Latest
<1> QED
  BY <1>1, <1>7, <1>8 DEF IInv

(* An owner with a connection moves on to something else.                   *)
LEMMA OwnerMoves ==
    ASSUME IInv, NEW o \in Owner, conn[o] # None,
           NEW next \in {"serving", "closing", "leaving", "swapping"},
           job' = [job EXCEPT ![o] = next], job[o] # "swapping",
           UNCHANGED <<conn, opened, live, leaked, registered, orphans>>,
           tool' = tool \/ next = "swapping",
           \A q \in Owner : q # o => current'[q] = current[q]
    PROVE  Stacks' /\ Latest'
<1>1. job'[o] = next /\ \A q \in Owner : q # o => job'[q] = job[q]
  BY DEF IInv, Types, Owners
<1>2. \A q \in Owner : AliveOwner(q)' = AliveOwner(q)
  BY <1>1 DEF AliveOwner, IInv, Stacks
<1>3. Stacks'
  BY <1>1, <1>2 DEF IInv, Stacks
<1>4. Latest'
  <2>1. ASSUME orphans = {}, NEW q \in Owner, conn[q] # None, job'[q] # "swapping"
        PROVE  tool' = conn[q]
    <3>1. q = o
      BY <2>1 DEF IInv, Stacks
    <3> QED
      BY <1>1, <2>1, <3>1 DEF IInv, Latest
  <2>2. ASSUME NEW q \in Owner, job'[q] = "reopening", conn[q] # None
        PROVE  current'[q].stale < conn[q]
    BY <1>1, <2>2 DEF IInv, Latest
  <2> QED
    BY <2>1, <2>2 DEF Latest
<1> QED
  BY <1>3, <1>4

LEMMA OwnerKeeps ==
    ASSUME IInv, NEW o \in Owner,
           Opens(o) \/ TakesClose(o) \/ TakesReconnect(o) \/ Reopens(o) \/ ServerKillsTask(o)
    PROVE  IInv'
<1>1. Types'
  BY OpensTypes, TakesTypes, ReopensTypes, KillTypes DEF IInv
<1>2. conn[o] # None /\ job[o] # "swapping"
  BY DEF Opens, Reopens, Established, TakesClose, TakesReconnect, NextReconnect, ServerKillsTask,
     Connected, IInv, Stacks
<1>3. UNCHANGED <<conn, opened, live, leaked, registered, orphans>>
  BY DEF Opens, Reopens, Established, ResolveReady, TakesClose, TakesReconnect, ServerKillsTask,
     connVars, managerVars, connectVars
<1>4. \A q \in Owner : q # o => current'[q] = current[q]
  BY DEF Opens, Reopens, TakesClose, TakesReconnect, ServerKillsTask, IInv, Types, Queues
<1>5. \E next \in {"serving", "closing", "leaving", "swapping"} :
         job' = [job EXCEPT ![o] = next] /\ (tool' = tool \/ next = "swapping")
  BY DEF Opens, Reopens, Established, TakesClose, TakesReconnect, ServerKillsTask, connVars, wrapperVars
<1>6. Stacks' /\ Latest'
  BY <1>2, <1>3, <1>4, <1>5, OwnerMoves
<1> QED
  BY <1>1, <1>6 DEF IInv

LEMMA SwapKeeps == ASSUME IInv, NEW o \in Owner, SwapClosed(o) PROVE IInv'
<1>1. Types'
  BY SwapTypes DEF IInv
<1>2. /\ job[o] = "swapping" /\ live' = live \ {conn[o]}
      /\ UNCHANGED <<leaked, current, opened, tool, registered, orphans>>
      /\ conn'[o] = None /\ job'[o] = "reopening"
      /\ \A q \in Owner : q # o => conn'[q] = conn[q] /\ job'[q] = job[q]
  BY DEF SwapClosed, wrapperVars, managerVars, connectVars, IInv, Types, Owners
<1>3. \A q \in Owner : AliveOwner(q)' = AliveOwner(q)
  BY <1>2 DEF AliveOwner
<1>4. live' \ leaked' = (live \ leaked) \ {conn[o]}
  BY <1>2
<1>5. Stacks'
  BY <1>2, <1>3, <1>4 DEF IInv, Stacks
<1>6. Latest'
  BY <1>2 DEF IInv, Latest
<1> QED
  BY <1>1, <1>5, <1>6 DEF IInv

LEMMA QuietKeeps ==
    ASSUME IInv, Types', UNCHANGED <<job, conn, opened, live, leaked, tool, registered, orphans>>,
           \A o \in Owner : current'[o].stale = current[o].stale
    PROVE  IInv'
  BY StacksStay DEF IInv

LEMMA HandsBackKeeps == ASSUME IInv, NEW o \in Owner, HandsBackTool(o) PROVE IInv'
<1>1. Types'
  BY HandsBackTypes DEF IInv
<1> QED
  BY <1>1, QuietKeeps DEF HandsBackTool, connVars, wrapperVars, managerVars, connectVars

LEMMA CallerKeeps ==
    ASSUME IInv, NEW r \in Caller, UsesTool(r) \/ CallStep(r) \/ ReconnectTimeout(r)
    PROVE  IInv'
<1>1. Types'
  BY CallTypes, RaisesTypes, NewSessionTypes, TimeoutTypes DEF CallStep, IInv
<1>2. UNCHANGED <<job, conn, opened, live, leaked, tool, registered, orphans>>
  BY DEF UsesTool, CallStep, CallEnds, CallRaises, TakesNewSession, HandedNothing, CallsAgain,
     ReconnectTimeout, ownerVars, connVars, wrapperVars, managerVars, connectVars
<1>3. ASSUME NEW o \in Owner PROVE current'[o].stale = current[o].stale
  <2>1. CASE ReconnectTimeout(r)
    <3>1. current'[o] = Abandoned(current[o], r)
      BY <2>1 DEF ReconnectTimeout, Abandoned
    <3>2. CASE current[o] \in Good
      BY <3>1, <3>2, AbandonedIsGood
    <3>3. CASE current[o] = NoOp
      BY <3>1, <3>3, Numbers DEF Abandoned, NoOp
    <3> QED
      BY <3>2, <3>3 DEF IInv, Types, Queues
  <2>2. CASE ~ReconnectTimeout(r)
    BY <2>2 DEF UsesTool, CallStep, CallEnds, CallRaises, TakesNewSession, HandedNothing, CallsAgain, ownerVars
  <2> QED
    BY <2>1, <2>2
<1> QED
  BY <1>1, <1>2, <1>3, QuietKeeps

LEMMA CloserKeeps ==
    ASSUME IInv, NEW k \in Closer,
           CloseBegins(k) \/ RequestClose(k) \/ CloseTimeout(k) \/ CloseReturns(k)
    PROVE  IInv'
<1>1. Types'
  BY CloseTypes, RequestTypes DEF IInv
<1>2. UNCHANGED <<job, conn, opened, live, leaked, current, orphans>>
  BY DEF CloseBegins, RequestClose, CloseTimeout, CloseReturns, ownerVars, connVars, connectVars
<1>3. CASE UNCHANGED <<tool, registered>>
  BY <1>1, <1>2, <1>3, QuietKeeps
<1>4. CASE ~AliveOwner(registered) /\ registered' = None
  <2>1. Stacks'
    BY <1>2, <1>4 DEF IInv, Stacks, AliveOwner
  <2>2. orphans = {} => \A o \in Owner : conn[o] = None
    BY <1>4 DEF IInv, Stacks
  <2>3. Latest'
    BY <1>2, <2>2 DEF IInv, Latest
  <2> QED
    BY <1>1, <2>1, <2>3 DEF IInv
<1> QED
  BY <1>3, <1>4 DEF CloseBegins, RequestClose, CloseTimeout, CloseReturns, managerVars, connVars, wrapperVars, Unregisters

-----------------------------------------------------------------------------
LEMMA Invariant == Spec => []IInv
<1>1. Init => IInv
  <2> SUFFICES ASSUME Init PROVE IInv
    OBVIOUS
  <2>1. Managers /\ Owners
    <3>1. 0 \in 0 .. MaxOwner
      BY Numbers
    <3>2. Managers
      BY <3>1 DEF Init, Managers
    <3> QED
      BY <3>2 DEF Init, Owners
  <2>2. Queues
    BY DEF Init, Queues
  <2>3. Connections
    BY Numbers DEF Init, Connections, None
  <2>4. Calls /\ Closers
    BY DEF Init, Calls, Closers, None
  <2>5. Stacks /\ Latest
    BY DEF Init, Stacks, Latest, AliveOwner
  <2> QED
    BY <2>1, <2>2, <2>3, <2>4, <2>5 DEF IInv, Types
<1>2. IInv /\ [Next]_vars => IInv'
  <2> SUFFICES ASSUME IInv, [Next]_vars PROVE IInv'
    OBVIOUS
  <2>1. ASSUME NEW c \in Connector,
               Connect(c) \/ Start(c) \/ ConnectReturn(c) \/ ConnectCancelled(c)
        PROVE  IInv'
    BY <2>1, ConnectKeeps
  <2>2. CASE CoolDown
    BY <2>2, CoolDownKeeps
  <2>3. ASSUME NEW o \in Owner, OwnerStep(o) \/ ServerKillsTask(o) PROVE IInv'
    BY <2>3, RegistersKeeps, OwnerKeeps, ExitKeeps, HandsBackKeeps, SwapKeeps DEF OwnerStep, ExitStep
  <2>4. ASSUME NEW r \in Caller, UsesTool(r) \/ CallStep(r) \/ ReconnectTimeout(r) PROVE IInv'
    BY <2>4, CallerKeeps
  <2>5. ASSUME NEW k \in Closer,
               CloseBegins(k) \/ RequestClose(k) \/ CloseTimeout(k) \/ CloseReturns(k)
        PROVE  IInv'
    BY <2>5, CloserKeeps
  <2>6. CASE UNCHANGED vars
    <3>1. Queues'
      BY <2>6, QueuesStay, CallsUnchanged DEF vars, ownerVars, connVars, IInv, Types, Connections
    <3>2. Types'
      BY <2>6, <3>1 DEF vars, IInv, Types, Managers, Owners, Connections, Calls, Closers, ownerVars,
         connVars, wrapperVars, connectVars, callerVars, closerVars, managerVars
    <3> QED
      BY <2>6, <3>2, QuietKeeps DEF vars, ownerVars, connVars, wrapperVars, connectVars, managerVars
  <2> QED
    BY <2>1, <2>2, <2>3, <2>4, <2>5, <2>6 DEF Next
<1> QED
  BY <1>1, <1>2, PTL DEF Spec

(* A server never has two connections at once, but for those whose teardown *)
(* was given up and those of orphans, and each is the _stack of a running   *)
(* owner: for any number of messages that connect, calls and closes.        *)
THEOREM OneStack == Spec => []OneConnection
<1>1. IInv => OneConnection
  <2> SUFFICES ASSUME IInv PROVE OneConnection
    OBVIOUS
  <2>1. TypeOK
    BY TypesImplied DEF IInv
  <2>2. \A k \in live \ leaked : \E o \in Owner : AliveOwner(o) /\ conn[o] = k
    <3>1. \A k \in live : k # None
      BY Numbers DEF IInv, Types, Connections
    <3> QED
      BY <3>1 DEF IInv, Stacks
  <2>3. Cardinality({conn[o] : o \in Owner \ orphans} \cap (live \ leaked)) <= 1
    <3> DEFINE S == {conn[o] : o \in Owner \ orphans} \cap (live \ leaked)
    <3>1. \A k \in S : k = conn[registered]
      <4>1. ASSUME NEW o \in Owner \ orphans, conn[o] \in live PROVE conn[o] = conn[registered]
        <5>1. conn[o] # None
          BY <4>1, Numbers DEF IInv, Types, Connections
        <5> QED
          BY <5>1 DEF IInv, Stacks
      <4> QED
        BY <4>1
    <3> HIDE DEF S
    <3>2. CASE S = {}
      BY <3>2, FS_EmptySet DEF S
    <3>3. CASE S # {}
      <4>1. S = {conn[registered]}
        BY <3>1, <3>3
      <4>2. Cardinality({conn[registered]}) = 1
        BY FS_Singleton
      <4> QED
        BY <4>1, <4>2 DEF S
    <3> QED
      BY <3>2, <3>3
  <2> QED
    BY <2>1, <2>2, <2>3 DEF OneConnection
<1> QED
  BY <1>1, Invariant, PTL

(* The only step that begins a rebuild, and the only one that takes a call   *)
(* that was handed an answer back to calling.                               *)
LEMMA SwapBegins ==
    ASSUME IInv, Next, NEW o \in Owner, job[o] = "serving", job'[o] = "swapping"
    PROVE  TakesReconnect(o)
<1> USE DEF IInv, Types, Owners
<1>1. ASSUME NEW c \in Connector,
             Connect(c) \/ Start(c) \/ ConnectReturn(c) \/ ConnectCancelled(c)
      PROVE  FALSE
  BY <1>1 DEF Connect, Start, StartOwner, ConnectReturn, ConnectCancelled, ownerVars
<1>2. ~CoolDown
  BY DEF CoolDown, ownerVars
<1>3. ASSUME NEW q \in Owner, ExitStep(q) PROVE FALSE
  BY <1>3, ExitFacts, Exiting
<1>4. ASSUME NEW q \in Owner,
             \/ Registers(q) \/ Opens(q) \/ TakesClose(q) \/ HandsBackTool(q)
             \/ SwapClosed(q) \/ Reopens(q) \/ ServerKillsTask(q)
      PROVE  FALSE
  BY <1>4 DEF Registers, Opens, Reopens, Established, TakesClose, HandsBackTool, SwapClosed, ServerKillsTask
<1>5. ASSUME NEW q \in Owner, TakesReconnect(q) PROVE q = o
  BY <1>5 DEF TakesReconnect
<1>6. ASSUME NEW r \in Caller, UsesTool(r) \/ CallStep(r) \/ ReconnectTimeout(r) PROVE FALSE
  BY <1>6 DEF UsesTool, CallStep, CallEnds, CallRaises, TakesNewSession, HandedNothing, CallsAgain,
     ReconnectTimeout, ownerVars
<1>7. ASSUME NEW k \in Closer,
             CloseBegins(k) \/ RequestClose(k) \/ CloseTimeout(k) \/ CloseReturns(k)
      PROVE  FALSE
  BY <1>7 DEF CloseBegins, RequestClose, CloseTimeout, CloseReturns, ownerVars
<1> QED
  BY <1>1, <1>2, <1>3, <1>4, <1>5, <1>6, <1>7 DEF Next, OwnerStep, ExitStep

LEMMA CallResumes ==
    ASSUME IInv, Next, NEW r \in Caller, caller[r] = "handed", caller'[r] = "calling"
    PROVE  TakesNewSession(r)
<1> USE DEF IInv, Types, Calls
<1>1. \/ UNCHANGED caller
      \/ \E done, wrapper : Settle(done, wrapper)
      \/ \E q \in Caller : UsesTool(q) \/ CallStep(q) \/ ReconnectTimeout(q)
  <2>1. ASSUME NEW c \in Connector,
               Connect(c) \/ Start(c) \/ ConnectReturn(c) \/ ConnectCancelled(c)
        PROVE  UNCHANGED caller
    BY <2>1 DEF Connect, Start, ConnectReturn, ConnectCancelled, callerVars
  <2>2. CoolDown => UNCHANGED caller
    BY DEF CoolDown, callerVars
  <2>3. ASSUME NEW q \in Owner, ExitStep(q) PROVE \E done, wrapper : Settle(done, wrapper)
    BY <2>3, ExitFacts DEF Exit
  <2>4. ASSUME NEW q \in Owner, HandsBackTool(q) \/ Reopens(q)
        PROVE  \E done, wrapper : Settle(done, wrapper)
    BY <2>4 DEF HandsBackTool, Reopens
  <2>5. ASSUME NEW q \in Owner,
               \/ Registers(q) \/ Opens(q) \/ TakesClose(q) \/ TakesReconnect(q)
               \/ SwapClosed(q) \/ ServerKillsTask(q)
        PROVE  UNCHANGED caller
    BY <2>5 DEF Registers, Opens, TakesClose, TakesReconnect, SwapClosed, ServerKillsTask, callerVars
  <2>6. ASSUME NEW k \in Closer,
               CloseBegins(k) \/ RequestClose(k) \/ CloseTimeout(k) \/ CloseReturns(k)
        PROVE  UNCHANGED caller
    BY <2>6 DEF CloseBegins, RequestClose, CloseTimeout, CloseReturns, callerVars
  <2> QED
    BY <2>1, <2>2, <2>3, <2>4, <2>5, <2>6 DEF Next, OwnerStep, ExitStep
<1>2. ASSUME NEW done, NEW wrapper, Settle(done, wrapper) PROVE FALSE
  BY <1>2 DEF Settle
<1>3. ASSUME NEW q \in Caller,
             UsesTool(q) \/ CallEnds(q) \/ HandedNothing(q) \/ CallsAgain(q) \/ ReconnectTimeout(q)
      PROVE  FALSE
  BY <1>3 DEF UsesTool, CallEnds, HandedNothing, WithoutNewSession, Done, CallsAgain, ReconnectTimeout
<1>4. ASSUME NEW q \in Caller, NEW traits \in SUBSET Trait \ {{}}, CallRaises(q, traits) PROVE FALSE
  BY <1>4 DEF CallRaises, WithoutNewSession, Done
<1>5. ASSUME NEW q \in Caller, TakesNewSession(q) PROVE q = r
  BY <1>5 DEF TakesNewSession
<1> QED
  BY <1>1, <1>2, <1>3, <1>4, <1>5 DEF CallStep

(* A rebuild tears down the session its caller found dead, and a call that  *)
(* was handed a wrapper calls another one, whichever calls share a wrapper, *)
(* give up waiting or rebuild in between.                                   *)
THEOREM RefreshIsSound == Spec => RefreshIsRight
<1> DEFINE Stale == \A o \in Owner :
              orphans = {} /\ job[o] = "serving" /\ job'[o] = "swapping"
                  => current'[o].stale = conn[o]
           Other == \A r \in Caller :
              caller[r] = "handed" /\ caller'[r] = "calling" /\ session[held[r]] = held[r]
                  => session'[held[r]] # session[held[r]]
<1>1. IInv /\ [Next]_vars => [Stale]_vars
  <2> SUFFICES ASSUME IInv, Next, NEW o \in Owner, orphans = {},
                      job[o] = "serving", job'[o] = "swapping"
               PROVE  current'[o].stale = conn[o]
    OBVIOUS
  <2>1. /\ NextReconnect(o) /\ ~AlreadyRebuilt(Head(ops[o]))
        /\ current' = [current EXCEPT ![o] = Head(ops[o])]
    BY SwapBegins DEF TakesReconnect
  <2>2. Head(ops[o]) \in Good /\ Head(ops[o]).kind = "reconnect"
    BY <2>1, Heads DEF NextReconnect, IInv
  <2>3. current'[o] = Head(ops[o]) /\ Head(ops[o]).stale # None
    BY <2>1, <2>2, Numbers DEF Good, Op, IInv, Types, Queues
  <2>4. conn[o] # None /\ tool = conn[o]
    BY DEF IInv, Stacks, Latest
  <2> QED
    BY <2>1, <2>3, <2>4 DEF AlreadyRebuilt
<1>2. IInv /\ [Next]_vars => [Other]_vars
  <2> SUFFICES ASSUME IInv, Next, NEW r \in Caller, caller[r] = "handed", caller'[r] = "calling",
                      session[held[r]] = held[r]
               PROVE  session'[held[r]] # session[held[r]]
    OBVIOUS
  <2>1. answer[r] # None /\ session' = [session EXCEPT ![held[r]] = session[answer[r]]]
    BY CallResumes DEF TakesNewSession
  <2>2. held[r] \in Conn /\ answer[r] \in Conn /\ held[r] < answer[r]
    BY <2>1 DEF IInv, Types, Calls
  <2>3. session[answer[r]] >= answer[r] /\ session[answer[r]] \in Conn /\ session \in [Conn -> Conn]
    BY <2>2 DEF IInv, Types, Connections
  <2>4. session[answer[r]] # held[r]
    <3>1. held[r] \in Nat /\ answer[r] \in Nat /\ session[answer[r]] \in Nat
      BY <2>2, <2>3, Numbers
    <3> QED
      BY <2>2, <2>3, <3>1
  <2> QED
    BY <2>1, <2>2, <2>3, <2>4
<1>3. Spec => [][Stale]_vars /\ [][Other]_vars
  <2> HIDE DEF Stale, Other
  <2> QED
    BY <1>1, <1>2, Invariant, PTL DEF Spec
<1> QED
  BY <1>3 DEF RefreshIsRight, RebuildsOnlyStale, RetriesElsewhere

-----------------------------------------------------------------------------
(* The tool calls of turns.  The queue of the event loop: a task that is in *)
(* it once at most, and one that is in front of another.                   *)
TaskKind == {"turn", "reply", "batch", "emit", "notify", "hook", "start", "startHook"}
LoopTask == [does : TaskKind, turn : Turn, call : {NoCall}] \cup {CallTask(id) : id \in Id}
Lone(x) == x.does \in {"turn", "reply", "call", "batch"}
InQueue(r, x) == \E i \in 1 .. Len(r) : r[i] = x
Single(r) == \A i, j \in 1 .. Len(r) : Lone(r[i]) /\ r[i] = r[j] => i = j
InFront(r, x, y) == \A i, j \in 1 .. Len(r) : r[i] = x /\ r[j] = y => i < j

LEMMA TaskIs ==
    /\ \A d \in TaskKind, t \in Turn : Task(d, t) \in LoopTask /\ Task(d, t).does = d /\ Task(d, t).turn = t
    /\ \A d, e, t, u : Task(d, t) = Task(e, u) => d = e /\ t = u
    /\ \A d, t : Lone(Task(d, t)) <=> d \in {"turn", "reply", "call", "batch"}
    /\ \A id \in Id : CallTask(id) \in LoopTask /\ CallTask(id).does = "call" /\ CallTask(id).call = id /\ Lone(CallTask(id))
    /\ \A id, o : CallTask(id) = CallTask(o) => id = o
    /\ \A id, d, t : d # "call" => CallTask(id) # Task(d, t)
<1>1. \A d \in TaskKind, t \in Turn : Task(d, t) \in LoopTask /\ Task(d, t).does = d /\ Task(d, t).turn = t
  BY DEF Task, LoopTask
<1>2. /\ \A d, e, t, u : Task(d, t) = Task(e, u) => d = e /\ t = u
      /\ \A d, t : Lone(Task(d, t)) <=> d \in {"turn", "reply", "call", "batch"}
  BY DEF Task, Lone
<1>3. /\ \A id \in Id : CallTask(id) \in LoopTask /\ CallTask(id).does = "call" /\ CallTask(id).call = id /\ Lone(CallTask(id))
      /\ \A id, o : CallTask(id) = CallTask(o) => id = o
      /\ \A id, d, t : d # "call" => CallTask(id) # Task(d, t)
  BY DEF Task, CallTask, LoopTask, Lone
<1> QED
  BY <1>1, <1>2, <1>3

LEMMA EntryIs ==
    ASSUME NEW x \in LoopTask
    PROVE  /\ x.does = "call" => x.call \in Id /\ x = CallTask(x.call)
           /\ x.does # "call" => x.does \in TaskKind /\ x.turn \in Turn /\ x = Task(x.does, x.turn)
           /\ x.does \in TaskKind \cup {"call"}
<1>1. CASE x \in [does : TaskKind, turn : Turn, call : {NoCall}]
  BY <1>1 DEF Task, TaskKind
<1>2. CASE \E id \in Id : x = CallTask(id)
  BY <1>2, TaskIs
<1> QED
  BY <1>1, <1>2 DEF LoopTask

(* What is left when the head is taken off.                                *)
LEMMA TailQueue ==
    ASSUME NEW r \in Seq(LoopTask), r # <<>>, Single(r), NEW s, s = Tail(r)
    PROVE  /\ s \in Seq(LoopTask) /\ Single(s) /\ Head(r) \in LoopTask /\ InQueue(r, Head(r))
           /\ \A x : InQueue(s, x) => InQueue(r, x) /\ (Lone(x) => x # Head(r))
           /\ \A x : InQueue(r, x) /\ x # Head(r) => InQueue(s, x)
           /\ \A x, y : InFront(r, x, y) => InFront(s, x, y)
           /\ \A x : InFront(r, x, Head(r)) => ~InQueue(r, x)
<1>1. /\ s \in Seq(LoopTask) /\ Len(r) \in Nat \ {0} /\ Len(s) = Len(r) - 1 /\ Head(r) = r[1] /\ Head(r) \in LoopTask
      /\ \A i \in 1 .. Len(s) : s[i] = r[i + 1]
  OBVIOUS
<1>2. \A i \in 1 .. Len(s) : i + 1 \in 1 .. Len(r) /\ s[i] = r[i + 1] /\ i + 1 # 1
  BY <1>1
<1>3. Single(s)
  BY <1>1, <1>2 DEF Single
<1>4. 1 \in 1 .. Len(r) /\ InQueue(r, Head(r))
  BY <1>1 DEF InQueue
<1>5. ASSUME NEW x, InQueue(s, x) PROVE InQueue(r, x) /\ (Lone(x) => x # Head(r))
  BY <1>1, <1>2, <1>4, <1>5 DEF InQueue, Single
<1>6. ASSUME NEW x, InQueue(r, x), x # Head(r) PROVE InQueue(s, x)
  <2>1. PICK i \in 1 .. Len(r) : r[i] = x
    BY <1>6 DEF InQueue
  <2>2. i # 1 /\ i - 1 \in 1 .. Len(s) /\ (i - 1) + 1 = i
    BY <1>1, <1>6, <2>1
  <2> QED
    BY <1>2, <2>1, <2>2 DEF InQueue
<1>7. ASSUME NEW x, NEW y, InFront(r, x, y) PROVE InFront(s, x, y)
  <2>1. SUFFICES ASSUME NEW i \in 1 .. Len(s), NEW j \in 1 .. Len(s), s[i] = x, s[j] = y PROVE i < j
    BY DEF InFront
  <2>2. i + 1 < j + 1
    BY <1>2, <1>7, <2>1 DEF InFront
  <2> QED
    BY <2>2
<1>8. ASSUME NEW x, InFront(r, x, Head(r)) PROVE ~InQueue(r, x)
  <2>1. SUFFICES ASSUME NEW i \in 1 .. Len(r), r[i] = x PROVE FALSE
    BY DEF InQueue
  <2>2. i < 1
    BY <1>1, <1>4, <1>8, <2>1 DEF InFront
  <2> QED
    BY <2>2
<1> QED
  BY <1>1, <1>3, <1>4, <1>5, <1>6, <1>7, <1>8

LEMMA ThreeParts ==
    ASSUME NEW E, NEW n \in Seq(E), NEW s \in Seq(E), NEW l \in Seq(E), NEW q, q = n \o s \o l
    PROVE  /\ q \in Seq(E) /\ Len(n) \in Nat /\ Len(s) \in Nat /\ Len(l) \in Nat /\ Len(q) = Len(n) + Len(s) + Len(l)
           /\ \A i \in 1 .. Len(n) : q[i] = n[i]
           /\ \A i \in 1 .. Len(s) : q[Len(n) + i] = s[i]
           /\ \A i \in 1 .. Len(l) : q[Len(n) + Len(s) + i] = l[i]
<1>1. PICK f : f = n \o s
  OBVIOUS
<1>2. /\ f \in Seq(E) /\ Len(f) = Len(n) + Len(s) /\ Len(n) \in Nat /\ Len(s) \in Nat
      /\ (\A i \in 1 .. Len(n) : f[i] = n[i]) /\ \A i \in 1 .. Len(s) : f[Len(n) + i] = s[i]
  BY <1>1
<1>3. q = f \o l
  BY <1>1
<1>4. f \in Seq(E) /\ l \in Seq(E)
  BY <1>2
<1>5. /\ q \in Seq(E) /\ Len(q) = Len(f) + Len(l) /\ Len(l) \in Nat 
      /\ (\A i \in 1 .. Len(f) : q[i] = f[i]) /\ \A i \in 1 .. Len(l) : q[Len(f) + i] = l[i]
  BY <1>3, <1>4
<1>6. /\ \A i \in 1 .. Len(n) : i \in 1 .. Len(f)
      /\ \A i \in 1 .. Len(s) : Len(n) + i \in 1 .. Len(f)
  BY <1>2
<1> QED
  BY <1>2, <1>5, <1>6

(* What is put in front and behind.                                        *)
Strange(n, s, l) == 
    \A x : Lone(x) => /\ ~(InQueue(n, x) /\ InQueue(s, x)) 
                      /\ ~(InQueue(n, x) /\ InQueue(l, x)) 
                      /\ ~(InQueue(s, x) /\ InQueue(l, x))

LEMMA JoinedQueue ==
    ASSUME NEW n \in Seq(LoopTask), NEW s \in Seq(LoopTask), NEW l \in Seq(LoopTask), Single(n), Single(s), Single(l),
           Strange(n, s, l), NEW q, q = n \o s \o l
    PROVE  /\ q \in Seq(LoopTask) /\ Single(q)
           /\ \A x : InQueue(q, x) <=> InQueue(n, x) \/ InQueue(s, x) \/ InQueue(l, x)
           /\ \A x, y : ~InQueue(n, y) /\ ~InQueue(l, x) /\ InFront(s, x, y) => InFront(q, x, y)
<1> DEFINE N == Len(n)
           S == Len(s)
           L == Len(l)
<1>1. /\ q \in Seq(LoopTask) /\ N \in Nat /\ S \in Nat /\ L \in Nat /\ Len(q) = N + S + L
      /\ \A i \in 1 .. N : q[i] = n[i]
      /\ \A i \in 1 .. S : q[N + i] = s[i]
      /\ \A i \in 1 .. L : q[N + S + i] = l[i]
  <2> HIDE DEF N, S, L
  <2> QED
    BY ThreeParts DEF N, S, L
<1>2. \A k \in 1 .. Len(q) : \/ k \in 1 .. N
                             \/ k - N \in 1 .. S /\ k = N + (k - N)
                             \/ k - (N + S) \in 1 .. L /\ k = N + S + (k - (N + S))
  <2> DEFINE Q == Len(q)
  <2>1. N \in Nat /\ S \in Nat /\ L \in Nat /\ Q = N + S + L
    BY <1>1
  <2> HIDE DEF N, S, L, Q
  <2>2. \A k \in 1 .. Q : \/ k \in 1 .. N
                          \/ k - N \in 1 .. S /\ k = N + (k - N)
                          \/ k - (N + S) \in 1 .. L /\ k = N + S + (k - (N + S))
    BY <2>1
  <2> QED
    BY <2>2 DEF Q
<1>3. /\ \A i \in 1 .. N : i \in 1 .. Len(q) 
      /\ \A i \in 1 .. S : N + i \in 1 .. Len(q)
      /\ \A i \in 1 .. L : N + S + i \in 1 .. Len(q)
  <2> DEFINE Q == Len(q)
  <2>1. N \in Nat /\ S \in Nat /\ L \in Nat /\ Q = N + S + L
    BY <1>1
  <2> HIDE DEF N, S, L, Q
  <2>2. /\ \A i \in 1 .. N : i \in 1 .. Q
        /\ \A i \in 1 .. S : N + i \in 1 .. Q
        /\ \A i \in 1 .. L : N + S + i \in 1 .. Q
    BY <2>1
  <2> QED
    BY <2>2 DEF Q
<1>4. \A x : InQueue(q, x) <=> InQueue(n, x) \/ InQueue(s, x) \/ InQueue(l, x)
  <2> SUFFICES ASSUME NEW x PROVE InQueue(q, x) <=> InQueue(n, x) \/ InQueue(s, x) \/ InQueue(l, x)
    OBVIOUS
  <2>1. ASSUME InQueue(q, x) PROVE InQueue(n, x) \/ InQueue(s, x) \/ InQueue(l, x)
    <3>1. PICK k \in 1 .. Len(q) : q[k] = x
      BY <2>1 DEF InQueue
    <3> QED
      BY <1>1, <1>2, <3>1 DEF InQueue
  <2>2. ASSUME InQueue(n, x) \/ InQueue(s, x) \/ InQueue(l, x) PROVE InQueue(q, x)
    <3>1. CASE InQueue(n, x)
      BY <1>1, <1>3, <3>1 DEF InQueue
    <3>2. CASE InQueue(s, x)
      BY <1>1, <1>3, <3>2 DEF InQueue
    <3>3. CASE InQueue(l, x)
      <4>1. PICK i \in 1 .. L : l[i] = x
        BY <3>3 DEF InQueue
      <4>2. N + S + i \in 1 .. Len(q) /\ q[N + S + i] = x
        BY <1>1, <1>3, <4>1
      <4> QED
        BY <4>2 DEF InQueue
    <3> QED
      BY <2>2, <3>1, <3>2, <3>3
  <2> QED
    BY <2>1, <2>2
<1>5. Single(q)
  <2> SUFFICES ASSUME NEW i \in 1 .. Len(q), NEW j \in 1 .. Len(q), Lone(q[i]), q[i] = q[j] PROVE i = j
    BY DEF Single
  <2>1. \A k \in 1 .. N : InQueue(n, n[k])
    BY DEF InQueue
  <2>2. \A k \in 1 .. S : InQueue(s, s[k])
    BY DEF InQueue
  <2>3. \A k \in 1 .. L : InQueue(l, l[k])
    BY DEF InQueue
  <2>4. CASE i \in 1 .. N
    <3>1. j \in 1 .. N
      BY <1>1, <1>2, <2>1, <2>2, <2>3, <2>4 DEF Strange
    <3> QED
      BY <1>1, <2>4, <3>1 DEF Single
  <2>5. CASE i - N \in 1 .. S /\ i = N + (i - N)
    <3>1. j - N \in 1 .. S /\ j = N + (j - N)
      BY <1>1, <1>2, <2>1, <2>2, <2>3, <2>5 DEF Strange
    <3>2. i - N = j - N
      <4>1. q[i] = s[i - N] /\ q[j] = s[j - N]
        BY <1>1, <2>5, <3>1
      <4> QED
        BY <2>5, <3>1, <4>1 DEF Single
    <3> HIDE DEF N, S
    <3> QED
      BY <2>5, <3>1, <3>2
  <2>6. CASE i - (N + S) \in 1 .. L /\ i = N + S + (i - (N + S))
    <3>1. j - (N + S) \in 1 .. L /\ j = N + S + (j - (N + S))
      BY <1>1, <1>2, <2>1, <2>2, <2>3, <2>6 DEF Strange
    <3>2. i - (N + S) = j - (N + S)
      <4>1. q[i] = l[i - (N + S)] /\ q[j] = l[j - (N + S)]
        BY <1>1, <2>6, <3>1
      <4> QED
        BY <2>6, <3>1, <4>1 DEF Single
    <3> HIDE DEF N, S, L
    <3> QED
      BY <2>6, <3>1, <3>2
  <2> QED
    BY <1>2, <2>4, <2>5, <2>6
<1>6. ASSUME NEW x, NEW y, ~InQueue(n, y), ~InQueue(l, x), InFront(s, x, y) PROVE InFront(q, x, y)
  <2> SUFFICES ASSUME NEW i \in 1 .. Len(q), NEW j \in 1 .. Len(q), q[i] = x, q[j] = y PROVE i < j
    BY DEF InFront
  <2>1. i \in 1 .. N \/ (i - N \in 1 .. S /\ q[i] = s[i - N])
    BY <1>1, <1>2, <1>6 DEF InQueue
  <2>2. \/ j - N \in 1 .. S /\ q[j] = s[j - N]
        \/ j - (N + S) \in 1 .. L
    BY <1>1, <1>2, <1>6 DEF InQueue
  <2>3. i - N \in 1 .. S /\ q[i] = s[i - N] /\ j - N \in 1 .. S /\ q[j] = s[j - N] => i - N < j - N
    BY <1>6 DEF InFront
  <2> HIDE DEF N, S, L
  <2> QED
    BY <1>1, <2>1, <2>2, <2>3
<1> QED
  BY <1>1, <1>4, <1>5, <1>6

-----------------------------------------------------------------------------
(* The batches of an answer: every call in one of them, at one place.      *)
Asked == [tool : ToolName, id : Id]
InBatches(B, id) == \E k \in 1 .. Len(B) : \E i \in 1 .. Len(B[k]) : B[k][i].id = id
Apart(B) == 
    \A k, l \in 1 .. Len(B) : \A i \in 1 .. Len(B[k]), j \in 1 .. Len(B[l]) : B[k][i].id = B[l][j].id => k = l /\ i = j
Packed(B, S) == 
    /\ B \in Seq(Seq(Asked)) /\ \A k \in 1 .. Len(B) : B[k] # <<>>
    /\ Apart(B) /\ \A id : InBatches(B, id) <=> id \in S

LEMMA OneMore ==
    ASSUME NEW E, NEW f \in Seq(E), NEW x \in E, NEW g, g = Append(f, x)
    PROVE  /\ g \in Seq(E) /\ Len(f) \in Nat /\ Len(g) = Len(f) + 1 /\ g[Len(f) + 1] = x /\ g # <<>>
           /\ \A i \in 1 .. Len(f) : g[i] = f[i] /\ i \in 1 .. Len(g)
           /\ Len(f) + 1 \in 1 .. Len(g)
           /\ \A i \in 1 .. Len(g) : i \in 1 .. Len(f) \/ i = Len(f) + 1
  OBVIOUS

LEMMA NewBatch ==
    ASSUME NEW B, NEW S, Packed(B, S), NEW c \in Asked, c.id \notin S, NEW D, D = Append(B, <<c>>)
    PROVE  Packed(D, S \cup {c.id})
<1>1. <<c>> \in Seq(Asked) /\ <<c>> # <<>> /\ Len(<<c>>) = 1 /\ <<c>>[1] = c /\ \A i \in 1 .. 1 : i = 1
  OBVIOUS
<1>2. B \in Seq(Seq(Asked))
  BY DEF Packed
<1>3. /\ D \in Seq(Seq(Asked)) /\ Len(B) \in Nat /\ D[Len(B) + 1] = <<c>>
      /\ \A i \in 1 .. Len(B) : D[i] = B[i] /\ i \in 1 .. Len(D)
      /\ Len(B) + 1 \in 1 .. Len(D)
      /\ \A i \in 1 .. Len(D) : i \in 1 .. Len(B) \/ i = Len(B) + 1
  BY <1>1, <1>2, OneMore
<1> DEFINE o == <<c>>
<1> HIDE DEF o
<1>4. \A id : InBatches(D, id) <=> id \in S \cup {c.id}
  <2> SUFFICES ASSUME NEW id PROVE InBatches(D, id) <=> InBatches(B, id) \/ id = c.id
    BY DEF Packed
  <2>1. ASSUME InBatches(D, id) PROVE InBatches(B, id) \/ id = c.id
    BY <1>1, <1>3, <2>1 DEF InBatches
  <2>2. ASSUME InBatches(B, id) PROVE InBatches(D, id)
    BY <1>3, <2>2 DEF InBatches
  <2>3. ASSUME id = c.id PROVE InBatches(D, id)
    <3>1. 1 \in 1 .. Len(D[Len(B) + 1]) /\ D[Len(B) + 1][1].id = id
      BY <1>1, <1>3, <2>3
    <3> QED
      BY <1>3, <3>1 DEF InBatches
  <2> QED
    BY <2>1, <2>2, <2>3
<1>5. Apart(D)
  <2>1. \A k \in 1 .. Len(B) : \A i \in 1 .. Len(B[k]) : B[k][i].id # c.id
    BY DEF Packed, InBatches
  <2> QED
    BY <1>1, <1>3, <2>1 DEF Packed, Apart
<1>6. \A k \in 1 .. Len(D) : D[k] # <<>>
  BY <1>1, <1>3 DEF Packed
<1> QED
  BY <1>3, <1>4, <1>5, <1>6 DEF Packed

LEMMA WiderBatch ==
    ASSUME NEW A \in Seq(Seq(Asked)), NEW b \in Seq(Asked), NEW S, Packed(Append(A, b), S), NEW c \in Asked, c.id \notin S,
           NEW D, D = Append(A, Append(b, c))
    PROVE  Packed(D, S \cup {c.id})
<1> DEFINE B == Append(A, b)
           w == Append(b, c)
           n == Len(A) + 1
           m == Len(b) + 1
<1>1. /\ w \in Seq(Asked) /\ w # <<>> /\ Len(b) \in Nat /\ w[m] = c /\ m \in 1 .. Len(w)
      /\ \A i \in 1 .. Len(b) : w[i] = b[i] /\ i \in 1 .. Len(w)
      /\ \A i \in 1 .. Len(w) : i \in 1 .. Len(b) \/ i = m
  BY OneMore
<1> HIDE DEF w, m
<1>2. /\ D \in Seq(Seq(Asked)) /\ D[n] = w /\ n \in 1 .. Len(D)
      /\ \A i \in 1 .. Len(A) : D[i] = A[i] /\ i \in 1 .. Len(D)
      /\ \A i \in 1 .. Len(D) : i \in 1 .. Len(A) \/ i = n
  BY <1>1, OneMore DEF w
<1>3. /\ B \in Seq(Seq(Asked)) /\ B[n] = b /\ n \in 1 .. Len(B) 
      /\ \A i \in 1 .. Len(A) : B[i] = A[i] /\ i \in 1 .. Len(B)
      /\ \A i \in 1 .. Len(B) : i \in 1 .. Len(A) \/ i = n
  BY OneMore
<1>4. Packed(B, S)
  OBVIOUS
<1> HIDE DEF B, n
<1>5. ASSUME NEW k \in 1 .. Len(D), NEW i \in 1 .. Len(D[k]) 
      PROVE  \/ k \in 1 .. Len(B) /\ i \in 1 .. Len(B[k]) /\ D[k][i] = B[k][i]
             \/ k = n /\ i = m /\ D[k][i] = c
  <2>1. CASE k \in 1 .. Len(A)
    BY <1>2, <1>3, <2>1
  <2>2. CASE k = n
    BY <1>1, <1>2, <1>3, <2>2
  <2> QED
    BY <1>2, <2>1, <2>2
<1>6. ASSUME NEW k \in 1 .. Len(B), NEW i \in 1 .. Len(B[k]) 
      PROVE  k \in 1 .. Len(D) /\ i \in 1 .. Len(D[k]) /\ D[k][i] = B[k][i]
  BY <1>1, <1>2, <1>3
<1>7. n \in 1 .. Len(D) /\ m \in 1 .. Len(D[n]) /\ D[n][m] = c
  BY <1>1, <1>2
<1>8. \A k \in 1 .. Len(B) : \A i \in 1 .. Len(B[k]) : B[k][i].id # c.id
  BY <1>4 DEF Packed, InBatches
<1>9. Apart(D)
  <2> SUFFICES ASSUME NEW k \in 1 .. Len(D), NEW l \in 1 .. Len(D), NEW i \in 1 .. Len(D[k]), NEW j \in 1 .. Len(D[l]),
                      D[k][i].id = D[l][j].id
               PROVE  k = l /\ i = j
    BY DEF Apart
  <2>1. CASE k \in 1 .. Len(B) /\ i \in 1 .. Len(B[k]) /\ D[k][i] = B[k][i]
    <3>1. l \in 1 .. Len(B) /\ j \in 1 .. Len(B[l]) /\ D[l][j] = B[l][j]
      <4>1. D[l][j] # c
        BY <1>8, <2>1
      <4> QED
        BY <1>5, <4>1
    <3>2. Apart(B) /\ B[k][i].id = B[l][j].id
      BY <1>4, <2>1, <3>1 DEF Packed
    <3> QED
      BY <2>1, <3>1, <3>2 DEF Apart
  <2>2. CASE k = n /\ i = m /\ D[k][i] = c
    <3>1. ~(l \in 1 .. Len(B) /\ j \in 1 .. Len(B[l]) /\ D[l][j] = B[l][j])
      BY <1>8, <2>2
    <3> QED
      BY <1>5, <2>2, <3>1
  <2> QED
    BY <1>5, <2>1, <2>2
<1>10. \A id : InBatches(D, id) <=> id \in S \cup {c.id}
  <2> SUFFICES ASSUME NEW id PROVE InBatches(D, id) <=> InBatches(B, id) \/ id = c.id
    BY <1>4 DEF Packed
  <2>1. ASSUME InBatches(D, id) PROVE InBatches(B, id) \/ id = c.id
    <3>1. PICK k \in 1 .. Len(D) : \E i \in 1 .. Len(D[k]) : D[k][i].id = id
      BY <2>1 DEF InBatches
    <3>2. PICK i \in 1 .. Len(D[k]) : D[k][i].id = id
      BY <3>1
    <3> QED
      BY <1>5, <3>2 DEF InBatches
  <2>2. ASSUME InBatches(B, id) PROVE InBatches(D, id)
    <3>1. PICK k \in 1 .. Len(B) : \E i \in 1 .. Len(B[k]) : B[k][i].id = id
      BY <2>2 DEF InBatches
    <3>2. PICK i \in 1 .. Len(B[k]) : B[k][i].id = id
      BY <3>1
    <3> QED
      BY <1>6, <3>2 DEF InBatches
  <2>3. ASSUME id = c.id PROVE InBatches(D, id)
    BY <1>7, <2>3 DEF InBatches
  <2> QED
    BY <2>1, <2>2, <2>3
<1>11. \A k \in 1 .. Len(D) : D[k] # <<>>
  <2> SUFFICES ASSUME NEW k \in 1 .. Len(D) PROVE D[k] # <<>>
    OBVIOUS
  <2>1. CASE k \in 1 .. Len(A)
    <3>1. k \in 1 .. Len(B) /\ D[k] = B[k]
      BY <1>2, <1>3, <2>1
    <3> QED
      BY <1>4, <3>1 DEF Packed
  <2> QED
    BY <1>1, <1>2, <2>1
<1> QED
  BY <1>2, <1>9, <1>10, <1>11 DEF Packed

(* One step of the fold.                                                   *)
Partition == [done : Seq(Seq(Asked)), open : Seq(Asked)]
Join(acc, c) ==
    IF c.tool \in Safe THEN [acc EXCEPT !.open = Append(@, c)]
    ELSE [done |-> acc.done \o (IF acc.open = <<>> THEN <<>> ELSE <<acc.open>>) \o << <<c>> >>, open |-> <<>>]
Closed(acc) == acc.done \o (IF acc.open = <<>> THEN <<>> ELSE <<acc.open>>)

LEMMA BehindIs ==
    ASSUME NEW E, NEW f \in Seq(E), NEW x \in E
    PROVE  f \o <<x>> = Append(f, x) /\ f \o <<>> = f
  OBVIOUS

LEMMA JoinPacks ==
    ASSUME NEW v \in Partition, NEW c \in Asked, NEW S, Packed(Closed(v), S), c.id \notin S, NEW w, w = Join(v, c)
    PROVE  w \in Partition /\ Packed(Closed(w), S \cup {c.id})
<1> DEFINE d == v.done
           o == v.open
           e == Append(o, c)
           one == <<c>>
<1>1. d \in Seq(Seq(Asked)) /\ o \in Seq(Asked) /\ one \in Seq(Asked) /\ v = [done |-> d, open |-> o]
  BY DEF Partition
<1>2. e \in Seq(Asked) /\ e # <<>>
  BY <1>1, OneMore
<1>3. Closed(v) = IF o = <<>> THEN d ELSE Append(d, o)
  <2> HIDE DEF d, o
  <2> QED
    BY <1>1, BehindIs DEF Closed, d, o
<1>4. Closed(v) \in Seq(Seq(Asked))
  BY DEF Packed
<1>5. CASE c.tool \in Safe
  <2>1. w = [done |-> d, open |-> e]
    BY <1>1, <1>5 DEF Join, Partition
  <2> HIDE DEF d, o, e
  <2>2. Closed(w) = Append(d, e)
    <3>1. w.done = d /\ w.open = e
      BY <2>1
    <3>2. d \o <<e>> = Append(d, e)
      BY <1>1, <1>2, BehindIs
    <3> QED
      BY <1>2, <3>1, <3>2 DEF Closed
  <2>3. w \in Partition
    BY <1>1, <1>2, <2>1 DEF Partition
  <2>4. CASE o = <<>>
    <3>1. e = one
      BY <2>4 DEF e
    <3> HIDE DEF one
    <3> QED
      BY <1>3, <2>2, <2>3, <2>4, <3>1, NewBatch DEF one
  <2>5. CASE o # <<>>
    <3>1. Packed(Append(d, o), S)
      BY <1>3, <2>5
    <3> QED
      BY <1>1, <2>2, <2>3, <3>1, WiderBatch DEF e
  <2> QED
    BY <2>4, <2>5
<1>6. CASE c.tool \notin Safe
  <2>1. w = [done |-> Closed(v) \o <<one>>, open |-> <<>>]
    BY <1>6 DEF Join, Closed
  <2> HIDE DEF d, o, e, one
  <2> DEFINE D == Append(Closed(v), one)
  <2>2. Closed(v) \o <<one>> = D /\ D \in Seq(Seq(Asked))
    BY <1>1, <1>4, BehindIs, OneMore
  <2> HIDE DEF D
  <2>3. w \in Partition /\ w.done = D /\ w.open = <<>>
    <3>1. w = [done |-> D, open |-> <<>>]
      BY <2>1, <2>2
    <3>2. PICK T : T = Seq(Seq(Asked))
      OBVIOUS
    <3>3. PICK U : U = Seq(Asked)
      OBVIOUS
    <3>5. <<>> \in U
      BY <3>3
    <3>4. w \in [done : T, open : U]
      BY <2>2, <3>1, <3>2, <3>5
    <3> QED
      BY <3>1, <3>2, <3>3, <3>4 DEF Partition
  <2>4. Closed(w) = D
    <3>1. D \o <<>> = D
      BY <2>2
    <3> QED
      BY <2>3, <3>1 DEF Closed
  <2>5. Packed(D, S \cup {c.id})
    BY NewBatch DEF one, D
  <2> QED
    BY <2>3, <2>4, <2>5
<1> QED
  BY <1>5, <1>6

LEMMA BatchesAre ==
    ASSUME NEW q \in Seq(Asked), q # <<>>, \A i, j \in 1 .. Len(q) : q[i].id = q[j].id => i = j
    PROVE  Batches(q) # <<>> /\ Packed(Batches(q), {q[i].id : i \in 1 .. Len(q)})
<1> DEFINE N == Len(q)
           base == [done |-> <<>>, open |-> <<>>]
           G == CHOOSE iter : iter = [s \in SUBSET (DOMAIN q) |->
                   IF s = {} THEN base ELSE Join(iter[s \ {Max(s)}], q[Max(s)])]
           F == [p \in Partition \X (1 .. N) |-> Join(p[1], q[p[2]])]
<1>1. N \in Nat \ {0} /\ DOMAIN q = 1 .. N /\ \A k \in 1 .. N : q[k] \in Asked
  OBVIOUS
<1>2. Batches(q) = Closed(G[DOMAIN q])
  BY Zenon DEF Batches, FoldLeft, MapThenFoldSet, Join, Closed
<1>3. ASSUME NEW v \in Partition, NEW x \in Asked PROVE Join(v, x) \in Partition
  <2>1. v.done \in Seq(Seq(Asked)) /\ v.open \in Seq(Asked) /\ <<x>> \in Seq(Asked) /\ v = [done |-> v.done, open |-> v.open]
    BY DEF Partition
  <2>2. Append(v.open, x) \in Seq(Asked) /\ <<v.open>> \in Seq(Seq(Asked)) /\ << <<x>> >> \in Seq(Seq(Asked)) /\ <<>> \in Seq(Seq(Asked))
    BY <2>1
  <2>3. v.done \o (IF v.open = <<>> THEN <<>> ELSE <<v.open>>) \in Seq(Seq(Asked))
    BY <2>1, <2>2
  <2>4. v.done \o (IF v.open = <<>> THEN <<>> ELSE <<v.open>>) \o << <<x>> >> \in Seq(Seq(Asked))
    BY <2>2, <2>3
  <2>5. <<>> \in Seq(Asked)
    OBVIOUS
  <2> DEFINE e == Append(v.open, x)
             D == v.done \o (IF v.open = <<>> THEN <<>> ELSE <<v.open>>) \o << <<x>> >>
  <2>6. Join(v, x) = IF x.tool \in Safe THEN [done |-> v.done, open |-> e] ELSE [done |-> D, open |-> <<>>]
    <3>1. [v EXCEPT !.open = e] = [done |-> v.done, open |-> e]
      <4>1. PICK d : d = v.done
        OBVIOUS
      <4>2. PICK o : o = v.open
        OBVIOUS
      <4>3. v = [done |-> d, open |-> o]
        BY <2>1, <4>1, <4>2
      <4> HIDE DEF e
      <4> QED
        BY <4>1, <4>3
    <3> QED
      BY <3>1 DEF Join
  <2>7. e \in Seq(Asked) /\ D \in Seq(Seq(Asked))
    BY <2>2, <2>4
  <2> HIDE DEF e, D
  <2> QED
    BY <2>1, <2>5, <2>6, <2>7 DEF Partition
<1>4. F \in [Partition \X (1 .. N) -> Partition]
  BY <1>1, <1>3
<1>5. base \in Partition
  BY DEF Partition
<1> HIDE DEF base
<1>6. PICK g : Folds(g, Partition, base, N, F)
  <2> HIDE DEF F, N
  <2> QED
    BY <1>1, <1>4, <1>5, FoldExists
<1>7. ASSUME NEW s \in SUBSET (1 .. N)
      PROVE  g[s] \in Partition /\ g[s] = IF s = {} THEN base ELSE Join(g[s \ {Max(s)}], q[Max(s)])
  <2>1. s # {} => Max(s) \in 1 .. N
    BY <1>1, LargestIn
  <2>2. (s # {} => g[s \ {Max(s)}] \in Partition) /\ g[s] \in Partition
    <3> HIDE DEF N, F
    <3> QED
      BY <1>6 DEF Folds
  <2>3. s # {} => F[<<g[s \ {Max(s)}], Max(s)>>] = Join(g[s \ {Max(s)}], q[Max(s)])
    BY <2>1, <2>2
  <2> HIDE DEF F, N
  <2> QED
    BY <1>6, <2>2, <2>3 DEF Folds
<1> HIDE DEF F
<1>8. g = [s \in SUBSET (DOMAIN q) |-> IF s = {} THEN base ELSE Join(g[s \ {Max(s)}], q[Max(s)])]
  <2>1. g = [s \in SUBSET (DOMAIN q) |-> g[s]]
    <3> HIDE DEF N
    <3> QED
      BY <1>1, <1>6 DEF Folds
  <2> HIDE DEF N
  <2> QED
    BY <1>1, <1>7, <2>1
<1>9. G = [s \in SUBSET (DOMAIN q) |-> IF s = {} THEN base ELSE Join(G[s \ {Max(s)}], q[Max(s)])]
  BY <1>8
<1> HIDE DEF G
<1>10. \A s \in SUBSET (1 .. N) : G[s] = IF s = {} THEN base ELSE Join(G[s \ {Max(s)}], q[Max(s)])
  <2> HIDE DEF N
  <2> QED
    BY <1>1, <1>9
<1> DEFINE Until(k) == {q[i].id : i \in 1 .. k}
           K == {k \in 0 .. N : G[1 .. k] \in Partition /\ Packed(Closed(G[1 .. k]), Until(k))}
<1>11. 0 \in K
  <2>1. 1 .. 0 = {} /\ {} \in SUBSET (1 .. N) /\ 0 \in 0 .. N
    BY <1>1
  <2>2. Until(0) = {}
    BY <2>1
  <2>3. G[1 .. 0] = base
    BY <1>10, <2>1
  <2>4. Closed(base) = <<>>
    BY DEF Closed, base
  <2>5. Packed(<<>>, {})
    BY DEF Packed, Apart, InBatches
  <2> HIDE DEF Until
  <2> QED
    BY <1>5, <2>1, <2>2, <2>3, <2>4, <2>5
<1>12. ASSUME NEW k \in 1 .. N, k - 1 \in K PROVE k \in K
  <2>1. k \in Nat \ {0} /\ 1 .. k \in SUBSET (1 .. N) /\ k \in 0 .. N /\ 1 .. k = (1 .. k - 1) \cup {k} /\ q[k] \in Asked
    BY <1>1
  <2>2. G[1 .. k] = Join(G[1 .. k - 1], q[k])
    <3>1. 1 .. k # {} /\ Max(1 .. k) = k /\ (1 .. k) \ {k} = 1 .. k - 1
      BY <2>1, UpToNumber
    <3> QED
      BY <1>10, <2>1, <3>1
  <2>3. G[1 .. k - 1] \in Partition /\ Packed(Closed(G[1 .. k - 1]), Until(k - 1))
    BY <1>12
  <2>4. Until(k) = Until(k - 1) \cup {q[k].id}
    BY <2>1
  <2>5. q[k].id \notin Until(k - 1)
    BY <1>1
  <2> HIDE DEF Until
  <2>6. G[1 .. k] \in Partition /\ Packed(Closed(G[1 .. k]), Until(k))
    <3> HIDE <1>12
    <3>1. PICK v : v = G[1 .. k - 1]
      OBVIOUS
    <3>2. PICK w : w = G[1 .. k]
      OBVIOUS
    <3>3. PICK c : c = q[k]
      OBVIOUS
    <3>4. v \in Partition /\ c \in Asked /\ Packed(Closed(v), Until(k - 1)) /\ c.id \notin Until(k - 1) /\ w = Join(v, c)
      BY <2>1, <2>2, <2>3, <2>5, <3>1, <3>2, <3>3
    <3>5. w \in Partition /\ Packed(Closed(w), Until(k - 1) \cup {c.id})
      BY <3>4, JoinPacks
    <3> QED
      BY <2>4, <3>2, <3>3, <3>5
  <2> QED
    BY <2>1, <2>6
<1>13. N \in K
  <2> HIDE DEF K
  <2>1. 0 .. N \subseteq K
    BY <1>1, <1>11, <1>12, CountingTo
  <2> QED
    BY <1>1, <2>1
<1>14. Packed(Batches(q), Until(N))
  BY <1>1, <1>2, <1>13
<1>15. Batches(q) # <<>>
  <2>1. q[1].id \in Until(N)
    BY <1>1
  <2> HIDE DEF Until
  <2>2. PICK k \in 1 .. Len(Batches(q)) : TRUE
    BY <1>14, <2>1 DEF Packed, InBatches
  <2> QED
    BY <2>2
<1> QED
  BY <1>14, <1>15

-----------------------------------------------------------------------------
(* The calls a cancellation wakes.                                         *)
LEMMA WakesAre ==
    ASSUME NEW t, batch \in Seq(Id), IsInjective(batch), NEW W, W = Wakes(t)
    PROVE  /\ W \in Seq(LoopTask) /\ Single(W)
           /\ \A x : InQueue(W, x) <=> \E id \in ToSet(batch) : x = CallTask(id) /\ id \in Awaited(t) /\ ~Queued(CallTask(id))
<1> DEFINE N == Len(batch)
           Hit(id) == id \in Awaited(t) /\ ~Queued(CallTask(id))
           Step(v, id) == IF Hit(id) THEN Append(v, CallTask(id)) ELSE v
           V == Seq(LoopTask)
           q == batch
           G == CHOOSE iter : iter = [s \in SUBSET (DOMAIN q) |->
                   IF s = {} THEN <<>> ELSE Step(iter[s \ {Max(s)}], q[Max(s)])]
           F == [p \in V \X (1 .. N) |-> Step(p[1], q[p[2]])]
<1>1. N \in Nat /\ DOMAIN q = 1 .. N /\ \A k \in 1 .. N : q[k] \in Id
  OBVIOUS
<1>2. W = G[DOMAIN q]
  BY Zenon DEF Wakes, FoldLeft, MapThenFoldSet
<1> DEFINE Roused(S, x) == \E id \in S : x = CallTask(id) /\ Hit(id)
           Got(v, S) == v \in V /\ Single(v) /\ \A x : InQueue(v, x) <=> Roused(S, x)
<1> HIDE DEF Hit
<1>3. ASSUME NEW v, NEW S, NEW id \in Id, Got(v, S), id \notin S
      PROVE  Got(Step(v, id), S \cup {id})
  <2>1. CASE Hit(id)
    <3> DEFINE x == CallTask(id)
               w == Append(v, x)
    <3>1. x \in LoopTask /\ \A o : CallTask(o) = x => o = id
      BY TaskIs
    <3>2. ~InQueue(v, x)
      BY <1>3, <3>1
    <3>3. Step(v, id) = w
      BY <2>1
    <3>4. Roused(S \cup {id}, x)
      BY <2>1
    <3>5. \A y : y # x => (Roused(S \cup {id}, y) <=> Roused(S, y))
      OBVIOUS
    <3> HIDE DEF x, Step, Roused
    <3>6. /\ w \in V /\ Len(v) \in Nat /\ Len(w) = Len(v) + 1 /\ w[Len(v) + 1] = x
          /\ \A i \in 1 .. Len(v) : w[i] = v[i] /\ i \in 1 .. Len(w)
          /\ Len(v) + 1 \in 1 .. Len(w)
          /\ \A i \in 1 .. Len(w) : i \in 1 .. Len(v) \/ i = Len(v) + 1
      BY <1>3, <3>1, OneMore
    <3> HIDE DEF w
    <3>7. Single(w)
      <4> SUFFICES ASSUME NEW i \in 1 .. Len(w), NEW j \in 1 .. Len(w), Lone(w[i]), w[i] = w[j] PROVE i = j
        BY DEF Single
      <4>1. \A k \in 1 .. Len(v) : v[k] # x
        BY <3>2 DEF InQueue
      <4>2. CASE i \in 1 .. Len(v)
        BY <1>3, <3>6, <4>1, <4>2 DEF Single
      <4>3. CASE i = Len(v) + 1
        BY <3>6, <4>1, <4>3
      <4> QED
        BY <3>6, <4>2, <4>3
    <3>8. \A y : InQueue(w, y) <=> InQueue(v, y) \/ y = x
      BY <3>6 DEF InQueue
    <3> QED
      BY <1>3, <3>3, <3>4, <3>5, <3>6, <3>7, <3>8
  <2>2. CASE ~Hit(id)
    <3>1. Step(v, id) = v
      BY <2>2
    <3>2. \A y : Roused(S \cup {id}, y) <=> Roused(S, y)
      BY <2>2
    <3> HIDE DEF Step, Roused
    <3> QED
      BY <1>3, <3>1, <3>2
  <2> QED
    BY <2>1, <2>2
<1>4. ASSUME NEW v \in V, NEW id \in Id PROVE Step(v, id) \in V
  BY TaskIs
<1>5. F \in [V \X (1 .. N) -> V]
  <2> HIDE DEF V, Step
  <2> QED
    BY <1>1, <1>4
<1> HIDE DEF Step
<1>6. PICK g : Folds(g, V, <<>>, N, F)
  <2>1. <<>> \in V
    OBVIOUS
  <2> HIDE DEF F, N, V
  <2> QED
    BY <1>1, <1>5, <2>1, FoldExists
<1>7. ASSUME NEW s \in SUBSET (1 .. N)
      PROVE  g[s] \in V /\ g[s] = IF s = {} THEN <<>> ELSE Step(g[s \ {Max(s)}], q[Max(s)])
  <2>1. s # {} => Max(s) \in 1 .. N
    BY <1>1, LargestIn
  <2>2. (s # {} => g[s \ {Max(s)}] \in V) /\ g[s] \in V
    <3> HIDE DEF N, F, V
    <3> QED
      BY <1>6 DEF Folds
  <2>3. s # {} => F[<<g[s \ {Max(s)}], Max(s)>>] = Step(g[s \ {Max(s)}], q[Max(s)])
    BY <2>1, <2>2
  <2> HIDE DEF F, N, V
  <2> QED
    BY <1>6, <2>2, <2>3 DEF Folds
<1> HIDE DEF F
<1>8. g = [s \in SUBSET (DOMAIN q) |-> IF s = {} THEN <<>> ELSE Step(g[s \ {Max(s)}], q[Max(s)])]
  <2>1. g = [s \in SUBSET (DOMAIN q) |-> g[s]]
    <3> HIDE DEF N, V
    <3> QED
      BY <1>1, <1>6 DEF Folds
  <2> HIDE DEF N, V
  <2> QED
    BY <1>1, <1>7, <2>1
<1>9. G = [s \in SUBSET (DOMAIN q) |-> IF s = {} THEN <<>> ELSE Step(G[s \ {Max(s)}], q[Max(s)])]
  BY <1>8
<1> HIDE DEF G
<1>10. \A s \in SUBSET (1 .. N) : G[s] = IF s = {} THEN <<>> ELSE Step(G[s \ {Max(s)}], q[Max(s)])
  <2> HIDE DEF N
  <2> QED
    BY <1>1, <1>9
<1> DEFINE Until(k) == {q[i] : i \in 1 .. k}
           K == {k \in 0 .. N : Got(G[1 .. k], Until(k))}
<1>11. 0 \in K
  <2>1. 1 .. 0 = {} /\ {} \in SUBSET (1 .. N) /\ 0 \in 0 .. N
    BY <1>1
  <2>2. Until(0) = {}
    BY <2>1
  <2>3. G[1 .. 0] = <<>>
    BY <1>10, <2>1
  <2>4. Got(<<>>, {})
    BY DEF Single, InQueue
  <2> HIDE DEF Until, Got
  <2> QED
    BY <2>1, <2>2, <2>3, <2>4
<1>12. ASSUME NEW k \in 1 .. N, k - 1 \in K PROVE k \in K
  <2>1. k \in Nat \ {0} /\ 1 .. k \in SUBSET (1 .. N) /\ k \in 0 .. N /\ 1 .. k = (1 .. k - 1) \cup {k} /\ q[k] \in Id
    BY <1>1
  <2>2. G[1 .. k] = Step(G[1 .. k - 1], q[k])
    <3>1. 1 .. k # {} /\ Max(1 .. k) = k /\ (1 .. k) \ {k} = 1 .. k - 1
      BY <2>1, UpToNumber
    <3> QED
      BY <1>10, <2>1, <3>1
  <2>3. Got(G[1 .. k - 1], Until(k - 1))
    BY <1>12
  <2>4. Until(k) = Until(k - 1) \cup {q[k]}
    BY <2>1
  <2>5. q[k] \notin Until(k - 1)
    BY <1>1 DEF IsInjective
  <2> HIDE DEF Until, Got
  <2>6. Got(G[1 .. k], Until(k))
    BY <1>3, <2>1, <2>2, <2>3, <2>4, <2>5
  <2> QED
    BY <2>1, <2>6
<1>13. N \in K
  <2> HIDE DEF K
  <2>1. 0 .. N \subseteq K
    BY <1>1, <1>11, <1>12, CountingTo
  <2> QED
    BY <1>1, <2>1
<1>14. Got(W, Until(N))
  BY <1>1, <1>2, <1>13
<1>15. Until(N) = ToSet(batch)
  BY <1>1 DEF ToSet
<1> HIDE DEF Until
<1> QED
  BY <1>14, <1>15 DEF Hit

-----------------------------------------------------------------------------
(* The invariant.  Types; the turn in the lock is the one that has a        *)
(* request or tools under way, and who is woken is next in line.           *)
QueueTyped == ready \in Seq(LoopTask) /\ Single(ready)
TurnsTyped == 
    /\ lock \in Turn \cup {NoTurn} /\ stopped \subseteq Turn /\ rounds \in [Turn -> Nat]
    /\ phase \in [Turn -> {"new", "queued", "waiting", "model", "tools", "over"}]
    /\ exit \in [Turn -> {"none", "answer", "error", "abandoned"}]
    /\ waiters \in Seq(Turn) /\ IsInjective(waiters)
TurnsLined ==
    /\ \A t \in Turn : phase[t] \in {"model", "tools"} <=> lock = t
    /\ \A t \in Turn : phase[t] = "over" <=> exit[t] # "none"
    /\ \A t \in ToSet(waiters) : phase[t] = "waiting"
    /\ \A t \in Turn : InQueue(ready, Task("turn", t)) => 
          phase[t] = "queued" \/ (lock = NoTurn /\ waiters # <<>> /\ Head(waiters) = t)
    /\ \A t \in Turn : InQueue(ready, Task("reply", t)) => phase[t] = "model"
    /\ \A t \in Turn : InQueue(ready, Task("batch", t)) => phase[t] = "tools" /\ settled # "open"

(* What a call has shown and returned.                                     *)
CallRecord == 
    [tool : ToolName, state : {"waiting", "running", "done", "raised", "cut"}, cancelled : BOOLEAN,
     shown : {"no", "start", "end", "error", "silent"},
     result : {"none", "ok", "error", "boundary", "escalated", "throttled", "refused"}]
CallFits(c) ==
    /\ c \in CallRecord
    /\ c.state = "waiting" => c.shown = "no" /\ c.result = "none"
    /\ c.state = "running" => c.shown \in {"start", "silent"} /\ c.result = "none"
    /\ c.state = "done" => c.shown # "start" /\ c.result # "none" /\ (c.shown = "end" => c.result = "ok")
CallsFit ==
    /\ DOMAIN call \subseteq Id
    /\ \A id \in DOMAIN call : /\ CallFits(call[id]) /\ id.round <= rounds[id.turn]
                               /\ call[id].cancelled => id.turn \in stopped
                               /\ InQueue(ready, CallTask(id)) => Undone(id)
    /\ \A id \in Id : InQueue(ready, CallTask(id)) => id \in DOMAIN call

(* Batches of turn t that did not start.                                   *)
Prepared(B, t, calls, r) ==
    /\ B \in Seq(Seq(Asked)) /\ (\A k \in 1 .. Len(B) : B[k] # <<>>) /\ Apart(B)
    /\ \A id : InBatches(B, id) => /\ id \in DOMAIN calls /\ calls[id].state = "waiting" /\ ~calls[id].cancelled
                                   /\ ~InQueue(r, CallTask(id)) /\ id.turn = t

(* The batch that is executed.  If no call of the turn was broken by the    *)
(* progress callback, every call of the turn that is not done is in a      *)
(* batch, what waits in the batch is queued, and so is all of it once the   *)
(* turn is cancelled.                                                      *)
BatchSound(t) == 
    /\ Prepared(batches, t, call, ready)
    /\ batch # <<>>
    /\ \A id \in ToSet(batch) : id.turn = t /\ ~InBatches(batches, id)
    /\ settled = "done" => \A id \in ToSet(batch) : call[id].state = "done"
BatchWhole(t) ==
    /\ settled = "raised" => t \in stopped
    /\ \A id \in DOMAIN call : id.turn = t => call[id].state = "done" \/ id \in ToSet(batch) \/ InBatches(batches, id)
    /\ \A id \in ToSet(batch) : Undone(id) =>
          /\ call[id].state = "waiting" => InQueue(ready, CallTask(id))
          /\ t \in stopped => call[id].cancelled /\ InQueue(ready, CallTask(id))
BatchTyped ==
    /\ settled \in {"open", "done", "raised"} /\ batch \in Seq(Id) /\ IsInjective(batch) /\ ToSet(batch) \subseteq DOMAIN call
    /\ (\A t \in Turn : phase[t] # "tools") => batches = <<>> /\ batch = <<>> /\ settled = "open"
    /\ \A t \in Turn : phase[t] = "tools" => BatchSound(t) /\ (~Broken(t) => BatchWhole(t))

(* A call that may still run is ahead of the step in which its turn goes on, *)
(* and the turns that have no tools under way have no calls either.        *)
CallsAhead == 
    \A id \in Id : ~Broken(id.turn) => InFront(ready, CallTask(id), Task("batch", id.turn))
CallsHome ==
    \A t \in Turn : ~Broken(t) => 
       /\ \A id \in DOMAIN call : id.turn = t /\ (InQueue(ready, CallTask(id)) \/ call[id].state = "running") => 
             id \in ToSet(batch) /\ phase[t] = "tools"
       /\ phase[t] \notin {"tools", "over"} \/ exit[t] = "answer" => \A id \in DOMAIN call : id.turn = t => call[id].state = "done"
CallsInv == QueueTyped /\ TurnsTyped /\ TurnsLined /\ CallsFit /\ BatchTyped /\ CallsAhead /\ CallsHome

LEMMA QueuedIs ==
    ASSUME QueueTyped, NEW x
    PROVE  Queued(x) <=> InQueue(ready, x)
  BY DEF QueueTyped, Queued, InQueue

LEMMA IdIs ==
    ASSUME NEW id \in Id
    PROVE  id.turn \in Turn /\ id.turn # NoTurn
  BY TurnAssumption DEF Id

LEMMA CallsImplied ==
    ASSUME CallsInv
    PROVE  CallsEndWithTurn
<1> SUFFICES ASSUME NEW id \in DOMAIN call, ~Broken(id.turn)
             PROVE  /\ call[id].state = "running" => lock = id.turn /\ phase[id.turn] = "tools"
                    /\ exit[id.turn] = "answer" => 
                          /\ call[id].shown # "start" /\ call[id].result # "none"
                          /\ call[id].shown = "end" => call[id].result = "ok"
  BY DEF CallsEndWithTurn
<1>1. id \in Id /\ id.turn \in Turn /\ CallFits(call[id])
  BY IdIs DEF CallsInv, CallsFit
<1>2. ASSUME call[id].state = "running" PROVE phase[id.turn] = "tools"
  BY <1>1, <1>2 DEF CallsInv, CallsHome
<1>3. ASSUME exit[id.turn] = "answer" PROVE call[id].state = "done"
  BY <1>1, <1>3 DEF CallsInv, CallsHome
<1> QED
  BY <1>1, <1>2, <1>3 DEF CallsInv, TurnsLined, CallFits

LEMMA CallsInit ==
    ASSUME AuditedInit
    PROVE  CallsInv
<1>1. QueueTyped /\ \A x : ~InQueue(ready, x)
  BY DEF AuditedInit, QueueTyped, Single, InQueue
<1>2. DOMAIN call = {}
  BY DEF AuditedInit
<1>3. /\ lock = NoTurn /\ waiters = <<>> /\ phase = [t \in Turn |-> "new"] /\ stopped = {} 
      /\ exit = [t \in Turn |-> "none"] /\ rounds = [t \in Turn |-> 0]
      /\ batches = <<>> /\ batch = <<>> /\ settled = "open" /\ ready = <<>>
  BY DEF AuditedInit
<1>4. TurnsTyped
  BY <1>3 DEF TurnsTyped, IsInjective
<1>5. TurnsLined
  BY <1>1, <1>3, TurnAssumption DEF TurnsLined, ToSet
<1>6. CallsFit
  BY <1>1, <1>2 DEF CallsFit
<1>7. BatchTyped
  BY <1>3 DEF BatchTyped, IsInjective, ToSet
<1>8. CallsAhead /\ CallsHome
  BY <1>2, <1>3 DEF CallsAhead, CallsHome, InFront
<1> QED
  BY <1>1, <1>4, <1>5, <1>6, <1>7, <1>8 DEF CallsInv

-----------------------------------------------------------------------------
(* What a step does to the queue.                                          *)
LEMMA FewTasks ==
    /\ <<>> \in Seq(LoopTask) /\ Single(<<>>) /\ \A y : ~InQueue(<<>>, y)
    /\ \A x \in LoopTask : <<x>> \in Seq(LoopTask) /\ Single(<<x>>) /\ \A y : InQueue(<<x>>, y) <=> y = x
    /\ \A x, y \in LoopTask : <<x>> \o <<y>> \in Seq(LoopTask) /\ (x # y => Single(<<x>> \o <<y>>)) 
                           /\ \A z : InQueue(<<x>> \o <<y>>, z) <=> z = x \/ z = y
<1>1. <<>> \in Seq(LoopTask) /\ Single(<<>>) /\ \A y : ~InQueue(<<>>, y)
  BY DEF Single, InQueue
<1>2. ASSUME NEW x \in LoopTask PROVE <<x>> \in Seq(LoopTask) /\ Single(<<x>>) /\ \A y : InQueue(<<x>>, y) <=> y = x
  <2>1. <<x>> \in Seq(LoopTask) /\ Len(<<x>>) = 1 /\ <<x>>[1] = x /\ \A i \in 1 .. 1 : i = 1
    OBVIOUS
  <2>2. 1 \in 1 .. Len(<<x>>)
    BY <2>1
  <2> QED
    BY <2>1, <2>2 DEF Single, InQueue
<1>3. ASSUME NEW x \in LoopTask, NEW y \in LoopTask 
      PROVE  /\ <<x>> \o <<y>> \in Seq(LoopTask) /\ (x # y => Single(<<x>> \o <<y>>)) 
             /\ \A z : InQueue(<<x>> \o <<y>>, z) <=> z = x \/ z = y
  <2>1. PICK f : f = <<x>>
    OBVIOUS
  <2>2. PICK g : g = <<y>>
    OBVIOUS
  <2>3. PICK l : l = f \o g
    OBVIOUS
  <2>4. f \in Seq(LoopTask) /\ Len(f) = 1 /\ f[1] = x /\ g \in Seq(LoopTask) /\ Len(g) = 1 /\ g[1] = y
    BY <2>1, <2>2
  <2>5. /\ l \in Seq(LoopTask) /\ Len(l) = Len(f) + Len(g)
        /\ (\A i \in 1 .. Len(f) : l[i] = f[i]) /\ \A i \in 1 .. Len(g) : l[Len(f) + i] = g[i]
    <3>1. f \in Seq(LoopTask) /\ g \in Seq(LoopTask)
      BY <2>4
    <3> QED
      BY <2>3, <3>1
  <2>6. 1 \in 1 .. 1 /\ 1 + 1 = 2 /\ 1 \in 1 .. 2 /\ 2 \in 1 .. 2 /\ \A i \in 1 .. 2 : i = 1 \/ i = 2
    OBVIOUS
  <2>7. Len(l) = 2 /\ l[1] = x /\ l[2] = y
    BY <2>4, <2>5, <2>6
  <2>8. (x # y => Single(l)) /\ \A z : InQueue(l, z) <=> z = x \/ z = y
    BY <2>6, <2>7 DEF Single, InQueue
  <2>9. l = <<x>> \o <<y>>
    BY <2>1, <2>2, <2>3
  <2> QED
    BY <2>5, <2>8, <2>9
<1> QED
  BY <1>1, <1>2, <1>3

LEMMA InFrontIs ==
    ASSUME NEW r, NEW x, NEW y, ~InQueue(r, x) \/ ~InQueue(r, y)
    PROVE  InFront(r, x, y)
  BY DEF InFront, InQueue

LEMMA YieldsIs ==
    ASSUME QueueTyped, ready # <<>>, NEW n \in Seq(LoopTask), NEW l \in Seq(LoopTask), Yields(n, l), Single(n), Single(l),
           \A x : Lone(x) => /\ ~(InQueue(n, x) /\ InQueue(l, x))
                             /\ InQueue(n, x) \/ InQueue(l, x) => ~InQueue(ready, x) \/ x = Head(ready)
    PROVE  /\ QueueTyped' /\ Head(ready) \in LoopTask /\ InQueue(ready, Head(ready))
           /\ \A x : InQueue(ready', x) => \/ InQueue(n, x) \/ InQueue(l, x) 
                                           \/ InQueue(ready, x) /\ (Lone(x) => x # Head(ready))
           /\ \A x : InQueue(n, x) \/ InQueue(l, x) \/ (InQueue(ready, x) /\ x # Head(ready)) => InQueue(ready', x)
           /\ \A x, y : ~InQueue(n, y) /\ ~InQueue(l, x) /\ InFront(ready, x, y) => InFront(ready', x, y)
           /\ \A x : InFront(ready, x, Head(ready)) => ~InQueue(ready, x)
<1>1. PICK s : s = Tail(ready)
  OBVIOUS
<1>2. ready' = n \o s \o l
  BY <1>1 DEF Yields
<1>3. /\ s \in Seq(LoopTask) /\ Single(s) /\ Head(ready) \in LoopTask /\ InQueue(ready, Head(ready))
      /\ \A x : InQueue(s, x) => InQueue(ready, x) /\ (Lone(x) => x # Head(ready))
      /\ \A x : InQueue(ready, x) /\ x # Head(ready) => InQueue(s, x)
      /\ \A x, y : InFront(ready, x, y) => InFront(s, x, y)
      /\ \A x : InFront(ready, x, Head(ready)) => ~InQueue(ready, x)
  BY <1>1, TailQueue DEF QueueTyped
<1>4. Strange(n, s, l)
  BY <1>3 DEF Strange
<1>5. PICK q : q = n \o s \o l
  OBVIOUS
<1>6. /\ q \in Seq(LoopTask) /\ Single(q)
      /\ \A x : InQueue(q, x) <=> InQueue(n, x) \/ InQueue(s, x) \/ InQueue(l, x)
      /\ \A x, y : ~InQueue(n, y) /\ ~InQueue(l, x) /\ InFront(s, x, y) => InFront(q, x, y)
  <2>1. s \in Seq(LoopTask) /\ Single(s)
    BY <1>3
  <2> QED
    BY <1>4, <1>5, <2>1, JoinedQueue
<1>7. ready' = q
  BY <1>2, <1>5
<1> QED
  BY <1>3, <1>6, <1>7 DEF QueueTyped

LEMMA AddsIs ==
    ASSUME QueueTyped, NEW l \in Seq(LoopTask), AddsReady(l), Single(l),
           \A x : Lone(x) => ~(InQueue(ready, x) /\ InQueue(l, x))
    PROVE  /\ QueueTyped'
           /\ \A x : InQueue(ready', x) <=> InQueue(ready, x) \/ InQueue(l, x)
           /\ \A x, y : ~InQueue(l, x) /\ InFront(ready, x, y) => InFront(ready', x, y)
<1>1. ready' = <<>> \o ready \o l
  BY DEF AddsReady, QueueTyped
<1>2. PICK q : q = <<>> \o ready \o l
  OBVIOUS
<1>3. PICK n : n = <<>>
  OBVIOUS
<1>4. n \in Seq(LoopTask) /\ Single(n) /\ \A y : ~InQueue(n, y)
  BY <1>3, FewTasks
<1>5. /\ q \in Seq(LoopTask) /\ Single(q)
      /\ \A x : InQueue(q, x) <=> InQueue(n, x) \/ InQueue(ready, x) \/ InQueue(l, x)
      /\ \A x, y : ~InQueue(n, y) /\ ~InQueue(l, x) /\ InFront(ready, x, y) => InFront(q, x, y)
  <2>1. Strange(n, ready, l)
    BY <1>4 DEF Strange
  <2> QED
    BY <1>2, <1>3, <1>4, <2>1, JoinedQueue DEF QueueTyped
<1>6. ready' = q
  BY <1>1, <1>2
<1> QED
  BY <1>4, <1>5, <1>6 DEF QueueTyped

(* Steps that change nothing but the queue.                                *)
LEMMA PreparedStays ==
    ASSUME NEW B, NEW t, NEW c, NEW r, Prepared(B, t, c, r), NEW d, NEW q,
           \A id : InBatches(B, id) /\ id \in DOMAIN c => id \in DOMAIN d /\ d[id] = c[id],
           \A id \in Id : InBatches(B, id) /\ InQueue(q, CallTask(id)) => InQueue(r, CallTask(id)),
           \A id \in DOMAIN c : id \in Id
    PROVE  Prepared(B, t, d, q)
<1> SUFFICES ASSUME NEW id, InBatches(B, id)
             PROVE  /\ id \in DOMAIN d /\ d[id].state = "waiting" /\ ~d[id].cancelled
                    /\ ~InQueue(q, CallTask(id)) /\ id.turn = t
  BY DEF Prepared
<1>1. id \in DOMAIN c /\ c[id].state = "waiting" /\ ~c[id].cancelled /\ ~InQueue(r, CallTask(id)) /\ id.turn = t
  BY DEF Prepared
<1> QED
  BY <1>1

LEMMA QueueStep ==
    ASSUME CallsInv, QueueTyped', UNCHANGED <<lock, waiters, phase, stopped, exit, rounds, batches, batch, settled, call>>,
           \A t \in Turn : InQueue(ready', Task("turn", t)) => InQueue(ready, Task("turn", t)),
           \A t \in Turn : InQueue(ready', Task("batch", t)) => InQueue(ready, Task("batch", t)),
           \A t \in Turn : InQueue(ready', Task("reply", t)) => phase[t] = "model",
           \A id \in Id : InQueue(ready, CallTask(id)) => InQueue(ready', CallTask(id)),
           \A id \in Id : InQueue(ready', CallTask(id)) => 
               InQueue(ready, CallTask(id)) \/ (id \in DOMAIN call /\ call[id].state = "running"),
           \A id \in Id : ~Broken(id.turn) => InFront(ready', CallTask(id), Task("batch", id.turn))
    PROVE  CallsInv'
<1> USE DEF CallsInv
<1>1. TurnsTyped'
  BY DEF TurnsTyped
<1>2. TurnsLined'
  BY DEF TurnsLined
<1>3. /\ \A t : Broken(t)' <=> Broken(t) 
      /\ \A id : Undone(id)' <=> Undone(id)
      /\ \A id : call[id].state = "running" => Undone(id)
  BY DEF Broken, Undone
<1>4. CallsFit'
  BY <1>3 DEF CallsFit
<1>5. ASSUME NEW t \in Turn, phase[t] = "tools" 
      PROVE  BatchSound(t)' /\ (~Broken(t) => BatchWhole(t)')
  <2>1. BatchSound(t) /\ (~Broken(t) => BatchWhole(t))
    BY <1>5 DEF BatchTyped
  <2>2. \A id \in Id : InBatches(batches, id) /\ InQueue(ready', CallTask(id)) => InQueue(ready, CallTask(id))
    BY <2>1 DEF BatchSound, Prepared
  <2>3. Prepared(batches, t, call, ready')
    BY <2>1, <2>2, PreparedStays DEF BatchSound, CallsFit
  <2>4. BatchSound(t)'
    BY <2>1, <2>3 DEF BatchSound
  <2>5. \A id \in ToSet(batch) : id \in Id
    BY DEF BatchTyped, CallsFit
  <2>6. ~Broken(t) => BatchWhole(t)'
    BY <1>3, <2>1, <2>5 DEF BatchWhole
  <2> QED
    BY <2>4, <2>6
<1>6. BatchTyped'
  BY <1>3, <1>5 DEF BatchTyped
<1>7. CallsAhead'
  BY <1>3 DEF CallsAhead
<1>8. CallsHome'
  <2>1. DOMAIN call \subseteq Id
    BY DEF CallsFit
  <2> QED
    BY <1>3, <2>1 DEF CallsHome
<1> QED
  BY <1>1, <1>2, <1>4, <1>6, <1>7, <1>8

(* The tasks of the hooks change the queue alone.                          *)
LEMMA HookStep ==
    ASSUME CallsInv, NEW d \in {"emit", "notify", "start", "startHook", "hook"}, Runs(d),
           NEW l \in Seq(LoopTask), Single(l), \A x : InQueue(l, x) => ~Lone(x), Yields(<<>>, l),
           UNCHANGED <<lock, waiters, phase, stopped, exit, rounds, batches, batch, settled, call>>
    PROVE  CallsInv'
<1>1. ready # <<>> /\ Head(ready).does = d /\ ~Lone(Head(ready))
  BY DEF Runs, Lone
<1>2. PICK n : n = <<>>
  OBVIOUS
<1>3. n \in Seq(LoopTask) /\ Single(n) /\ \A y : ~InQueue(n, y)
  BY <1>2, FewTasks
<1>4. Yields(n, l)
  BY <1>2
<1>5. \A x : Lone(x) => /\ ~(InQueue(n, x) /\ InQueue(l, x))
                        /\ InQueue(n, x) \/ InQueue(l, x) => ~InQueue(ready, x) \/ x = Head(ready)
  BY <1>3
<1>6. /\ QueueTyped'
      /\ \A x : InQueue(ready', x) => \/ InQueue(n, x) \/ InQueue(l, x) 
                                      \/ InQueue(ready, x) /\ (Lone(x) => x # Head(ready))
      /\ \A x : InQueue(n, x) \/ InQueue(l, x) \/ (InQueue(ready, x) /\ x # Head(ready)) => InQueue(ready', x)
      /\ \A x, y : ~InQueue(n, y) /\ ~InQueue(l, x) /\ InFront(ready, x, y) => InFront(ready', x, y)
  <2>1. QueueTyped
    BY DEF CallsInv
  <2> QED
    BY <1>1, <1>3, <1>4, <1>5, <2>1, YieldsIs
<1>7. \A x : Lone(x) => (InQueue(ready', x) <=> InQueue(ready, x))
  BY <1>1, <1>3, <1>6
<1>8. /\ \A t \in Turn : Lone(Task("turn", t)) /\ Lone(Task("batch", t)) /\ Lone(Task("reply", t))
      /\ \A id \in Id : Lone(CallTask(id))
  BY TaskIs
<1>9. /\ \A t \in Turn : InQueue(ready', Task("turn", t)) => InQueue(ready, Task("turn", t))
      /\ \A t \in Turn : InQueue(ready', Task("batch", t)) => InQueue(ready, Task("batch", t))
      /\ \A id \in Id : InQueue(ready, CallTask(id)) => InQueue(ready', CallTask(id))
      /\ \A id \in Id : InQueue(ready', CallTask(id)) => InQueue(ready, CallTask(id))
      /\ \A t \in Turn : InQueue(ready', Task("reply", t)) => InQueue(ready, Task("reply", t))
  BY <1>7, <1>8
<1>10. \A t \in Turn : InQueue(ready', Task("reply", t)) => phase[t] = "model"
  BY <1>9 DEF CallsInv, TurnsLined
<1>11. \A id \in Id : ~Broken(id.turn) => InFront(ready', CallTask(id), Task("batch", id.turn))
  BY <1>3, <1>6, <1>8 DEF CallsInv, CallsAhead
<1> QED
  BY <1>6, <1>9, <1>10, <1>11, QueueStep

LEMMA HooksKeep ==
    ASSUME CallsInv, EmitAbandoned \/ NotifyCompleted \/ NotifyStarted \/ MessageStarted \/ MessageCompleted
    PROVE  CallsInv'
<1>1. ASSUME NEW d \in {"emit", "notify", "start"}, NEW e \in {"notify", "hook", "startHook"}, Passes(d, e)
      PROVE  CallsInv'
  <2>1. Runs(d) /\ ready # <<>> /\ Head(ready).does = d
    BY <1>1 DEF Passes, Runs
  <2>2. Head(ready) \in LoopTask /\ Head(ready).turn \in Turn
    <3>1. Head(ready) \in LoopTask
      BY <2>1, TailQueue DEF CallsInv, QueueTyped
    <3> QED
      BY <2>1, <3>1, EntryIs
  <2>3. PICK x : x = Task(e, Head(ready).turn)
    OBVIOUS
  <2>4. x \in LoopTask /\ ~Lone(x)
    BY <2>2, <2>3, TaskIs DEF TaskKind
  <2>5. <<x>> \in Seq(LoopTask) /\ Single(<<x>>) /\ \A y : InQueue(<<x>>, y) => ~Lone(y)
    BY <2>4, FewTasks
  <2>6. Yields(<<>>, <<x>>)
    BY <1>1, <2>3 DEF Passes
  <2> QED
    BY <1>1, <2>1, <2>5, <2>6, HookStep DEF Passes, turnVars, batchVars
<1>2. ASSUME NEW d \in {"startHook", "hook"}, Runs(d), Yields(<<>>, <<>>), 
             UNCHANGED <<lock, waiters, phase, stopped, turnVars, batchVars>>
      PROVE  CallsInv'
  <2>1. <<>> \in Seq(LoopTask) /\ Single(<<>>) /\ \A y : InQueue(<<>>, y) => ~Lone(y)
    BY FewTasks
  <2> QED
    BY <1>2, <2>1, HookStep DEF turnVars, batchVars
<1> QED
  BY <1>1, <1>2 DEF EmitAbandoned, NotifyCompleted, NotifyStarted, MessageStarted, MessageCompleted

LEMMA ModelRepliesKeeps ==
    ASSUME CallsInv, NEW t \in Turn, ModelReplies(t)
    PROVE  CallsInv'
<1>1. PICK x : x = Task("reply", t)
  OBVIOUS
<1>2. x \in LoopTask /\ (\A u \in Turn : x = Task("reply", u) => u = t)
      /\ (\A u \in Turn : x # Task("turn", u) /\ x # Task("batch", u)) /\ \A id \in Id : x # CallTask(id)
  BY <1>1, TaskIs DEF TaskKind
<1>3. <<x>> \in Seq(LoopTask) /\ Single(<<x>>) /\ \A y : InQueue(<<x>>, y) <=> y = x
  BY <1>2, FewTasks
<1>4. ~InQueue(ready, x) /\ phase[t] = "model" /\ AddsReady(<<x>>)
  BY <1>1, QueuedIs DEF CallsInv, ModelReplies
<1>5. PICK l : l = <<x>>
  OBVIOUS
<1>6. \A z : Lone(z) => ~(InQueue(ready, z) /\ InQueue(l, z))
  BY <1>3, <1>4, <1>5
<1>7. /\ QueueTyped'
      /\ \A z : InQueue(ready', z) <=> InQueue(ready, z) \/ z = x
      /\ \A z, y : z # x /\ InFront(ready, z, y) => InFront(ready', z, y)
  <2>1. l \in Seq(LoopTask) /\ AddsReady(l) /\ Single(l) /\ QueueTyped
    BY <1>3, <1>4, <1>5 DEF CallsInv
  <2>2. /\ QueueTyped'
        /\ \A z : InQueue(ready', z) <=> InQueue(ready, z) \/ InQueue(l, z)
        /\ \A z, y : ~InQueue(l, z) /\ InFront(ready, z, y) => InFront(ready', z, y)
    BY <1>6, <2>1, AddsIs
  <2> QED
    BY <1>3, <1>5, <2>2
<1>8. UNCHANGED <<lock, waiters, phase, stopped, exit, rounds, batches, batch, settled, call>>
  BY DEF ModelReplies, turnVars, batchVars
<1>9. /\ \A u \in Turn : InQueue(ready', Task("turn", u)) => InQueue(ready, Task("turn", u))
      /\ \A u \in Turn : InQueue(ready', Task("batch", u)) => InQueue(ready, Task("batch", u))
      /\ \A id \in Id : InQueue(ready, CallTask(id)) => InQueue(ready', CallTask(id))
      /\ \A id \in Id : InQueue(ready', CallTask(id)) => InQueue(ready, CallTask(id))
  BY <1>2, <1>7
<1>10. \A u \in Turn : InQueue(ready', Task("reply", u)) => phase[u] = "model"
  BY <1>2, <1>4, <1>7 DEF CallsInv, TurnsLined
<1>11. \A id \in Id : ~Broken(id.turn) => InFront(ready', CallTask(id), Task("batch", id.turn))
  BY <1>2, <1>7 DEF CallsInv, CallsAhead
<1> QED
  BY <1>7, <1>8, <1>9, <1>10, <1>11, QueueStep

(* While a call of the batch of an unbroken turn is running, and not in the *)
(* queue, the turn waits for it.                                           *)
LEMMA StillOpen ==
    ASSUME CallsInv, NEW id \in DOMAIN call, ~Broken(id.turn), call[id].state = "running", ~InQueue(ready, CallTask(id))
    PROVE  ~InQueue(ready, Task("batch", id.turn))
<1>1. id \in Id /\ id.turn \in Turn /\ Undone(id) /\ call[id].state # "done"
  BY IdIs DEF CallsInv, CallsFit, Undone
<1>2. id \in ToSet(batch) /\ phase[id.turn] = "tools"
  BY <1>1 DEF CallsInv, CallsHome
<1>3. BatchSound(id.turn) /\ BatchWhole(id.turn)
  BY <1>1, <1>2 DEF CallsInv, BatchTyped
<1>4. id.turn \notin stopped
  BY <1>1, <1>2, <1>3 DEF BatchWhole
<1>5. settled # "raised" /\ settled # "done"
  BY <1>1, <1>2, <1>3, <1>4 DEF BatchWhole, BatchSound
<1>6. settled = "open"
  BY <1>5 DEF CallsInv, BatchTyped
<1> QED
  BY <1>1, <1>6 DEF CallsInv, TurnsLined

LEMMA ToolReturnsKeeps ==
    ASSUME CallsInv, NEW id \in DOMAIN call, ToolReturns(id)
    PROVE  CallsInv'
<1>1. PICK x : x = CallTask(id)
  OBVIOUS
<1>2. id \in Id /\ x \in LoopTask /\ (\A o \in Id : x = CallTask(o) => o = id)
      /\ \A u \in Turn : x # Task("turn", u) /\ x # Task("batch", u) /\ x # Task("reply", u)
  BY <1>1, TaskIs DEF CallsInv, CallsFit
<1>3. <<x>> \in Seq(LoopTask) /\ Single(<<x>>) /\ \A y : InQueue(<<x>>, y) <=> y = x
  BY <1>2, FewTasks
<1>4. ~InQueue(ready, x) /\ call[id].state = "running" /\ AddsReady(<<x>>)
  BY <1>1, QueuedIs DEF CallsInv, ToolReturns
<1>5. PICK l : l = <<x>>
  OBVIOUS
<1>6. \A z : Lone(z) => ~(InQueue(ready, z) /\ InQueue(l, z))
  BY <1>3, <1>4, <1>5
<1>7. /\ QueueTyped'
      /\ \A z : InQueue(ready', z) <=> InQueue(ready, z) \/ z = x
      /\ \A z, y : z # x /\ InFront(ready, z, y) => InFront(ready', z, y)
  <2>1. l \in Seq(LoopTask) /\ AddsReady(l) /\ Single(l) /\ QueueTyped
    BY <1>3, <1>4, <1>5 DEF CallsInv
  <2>2. /\ QueueTyped'
        /\ \A z : InQueue(ready', z) <=> InQueue(ready, z) \/ InQueue(l, z)
        /\ \A z, y : ~InQueue(l, z) /\ InFront(ready, z, y) => InFront(ready', z, y)
    BY <1>6, <2>1, AddsIs
  <2> QED
    BY <1>3, <1>5, <2>2
<1>8. UNCHANGED <<lock, waiters, phase, stopped, exit, rounds, batches, batch, settled, call>>
  BY DEF ToolReturns, turnVars, batchVars
<1>9. /\ \A u \in Turn : InQueue(ready', Task("turn", u)) => InQueue(ready, Task("turn", u))
      /\ \A u \in Turn : InQueue(ready', Task("batch", u)) => InQueue(ready, Task("batch", u))
      /\ \A u \in Turn : InQueue(ready', Task("reply", u)) => InQueue(ready, Task("reply", u))
      /\ \A o \in Id : InQueue(ready, CallTask(o)) => InQueue(ready', CallTask(o))
      /\ \A o \in Id : InQueue(ready', CallTask(o)) => InQueue(ready, CallTask(o)) \/ o = id
  BY <1>2, <1>7
<1>10. \A u \in Turn : InQueue(ready', Task("reply", u)) => phase[u] = "model"
  BY <1>9 DEF CallsInv, TurnsLined
<1>11. ASSUME NEW o \in Id, ~Broken(o.turn) PROVE InFront(ready', CallTask(o), Task("batch", o.turn))
  <2>1. CASE o = id
    <3>1. ~InQueue(ready, Task("batch", o.turn))
      BY <1>1, <1>4, <1>11, <2>1, StillOpen
    <3>2. ~InQueue(ready', Task("batch", o.turn))
      BY <1>9, <1>11, <3>1, IdIs
    <3> QED
      BY <3>2, InFrontIs
  <2>2. CASE o # id
    BY <1>1, <1>2, <1>7, <1>11, <2>2 DEF CallsInv, CallsAhead
  <2> QED
    BY <2>1, <2>2
<1> QED
  BY <1>4, <1>7, <1>8, <1>9, <1>10, <1>11, QueueStep

(* Steps that leave the calls as they are.                                 *)
LEMMA TurnStep ==
    ASSUME CallsInv, QueueTyped', TurnsTyped', TurnsLined', CallsHome', UNCHANGED <<stopped, rounds, call>>,
           \/ /\ UNCHANGED <<batches, batch, settled>> /\ \A t \in Turn : phase'[t] = "tools" <=> phase[t] = "tools"
              /\ \A id \in Id : InQueue(ready, CallTask(id)) => InQueue(ready', CallTask(id))
           \/ /\ batches' = <<>> /\ batch' = <<>> /\ settled' = "open" /\ \A t \in Turn : phase'[t] # "tools",
           \A id \in Id : InQueue(ready', CallTask(id)) => InQueue(ready, CallTask(id)),
           \A id \in Id : ~Broken(id.turn) => InFront(ready', CallTask(id), Task("batch", id.turn))
    PROVE  CallsInv'
<1> USE DEF CallsInv
<1>1. /\ \A t : Broken(t)' <=> Broken(t) 
      /\ \A id : Undone(id)' <=> Undone(id)
  BY DEF Broken, Undone
<1>2. CallsFit'
  BY <1>1 DEF CallsFit
<1>3. CallsAhead'
  BY <1>1 DEF CallsAhead
<1>4. BatchTyped'
  <2>1. CASE /\ UNCHANGED <<batches, batch, settled>> /\ \A t \in Turn : phase'[t] = "tools" <=> phase[t] = "tools"
             /\ \A id \in Id : InQueue(ready, CallTask(id)) => InQueue(ready', CallTask(id))
    <3>1. ASSUME NEW t \in Turn, phase[t] = "tools" 
          PROVE  BatchSound(t)' /\ (~Broken(t) => BatchWhole(t)')
      <4>1. BatchSound(t) /\ (~Broken(t) => BatchWhole(t))
        BY <3>1 DEF BatchTyped
      <4>2. Prepared(batches, t, call, ready')
        BY <4>1, PreparedStays DEF BatchSound, CallsFit
      <4>3. BatchSound(t)'
        BY <2>1, <4>1, <4>2 DEF BatchSound
      <4>4. \A id \in ToSet(batch) : id \in Id
        BY DEF BatchTyped, CallsFit
      <4>5. ~Broken(t) => BatchWhole(t)'
        BY <1>1, <2>1, <4>1, <4>4 DEF BatchWhole
      <4> QED
        BY <4>3, <4>5
    <3> QED
      BY <1>1, <2>1, <3>1 DEF BatchTyped
  <2>2. CASE batches' = <<>> /\ batch' = <<>> /\ settled' = "open" /\ \A t \in Turn : phase'[t] # "tools"
    <3>1. batch' \in Seq(Id) /\ IsInjective(batch') /\ ToSet(batch') = {}
      BY <2>2 DEF IsInjective, ToSet
    <3> QED
      BY <2>2, <3>1 DEF BatchTyped
  <2> QED
    BY <2>1, <2>2
<1> QED
  BY <1>2, <1>3, <1>4

LEMMA ArriveKeeps ==
    ASSUME CallsInv, NEW t \in Turn, Arrive(t)
    PROVE  CallsInv'
<1> USE DEF CallsInv
<1>1. PICK x : x = Task("turn", t)
  OBVIOUS
<1>2. x \in LoopTask /\ (\A u \in Turn : x = Task("turn", u) => u = t)
      /\ (\A u \in Turn : x # Task("reply", u) /\ x # Task("batch", u)) /\ \A id \in Id : x # CallTask(id)
  BY <1>1, TaskIs DEF TaskKind
<1>3. <<x>> \in Seq(LoopTask) /\ Single(<<x>>) /\ \A y : InQueue(<<x>>, y) <=> y = x
  BY <1>2, FewTasks
<1>4. t \notin ToSet(waiters)
  BY DEF TurnsLined, Arrive
<1>5. /\ phase[t] = "new" /\ phase' = [phase EXCEPT ![t] = "queued"] /\ AddsReady(<<x>>)
      /\ UNCHANGED <<lock, waiters, stopped, exit, rounds, batches, batch, settled, call>>
  BY <1>1 DEF Arrive, turnVars, batchVars
<1>6. ~InQueue(ready, x)
  <2>1. Head(waiters) \in ToSet(waiters) \/ waiters = <<>>
    BY DEF TurnsTyped, ToSet
  <2> QED
    BY <1>1, <1>4, <1>5, <2>1 DEF TurnsLined
<1>7. PICK l : l = <<x>>
  OBVIOUS
<1>8. \A z : Lone(z) => ~(InQueue(ready, z) /\ InQueue(l, z))
  BY <1>3, <1>6, <1>7
<1>9. /\ QueueTyped'
      /\ \A z : InQueue(ready', z) <=> InQueue(ready, z) \/ z = x
      /\ \A z, y : z # x /\ InFront(ready, z, y) => InFront(ready', z, y)
  <2>1. l \in Seq(LoopTask) /\ AddsReady(l) /\ Single(l) /\ QueueTyped
    BY <1>3, <1>5, <1>7
  <2>2. /\ QueueTyped'
        /\ \A z : InQueue(ready', z) <=> InQueue(ready, z) \/ InQueue(l, z)
        /\ \A z, y : ~InQueue(l, z) /\ InFront(ready, z, y) => InFront(ready', z, y)
    BY <1>8, <2>1, AddsIs
  <2> QED
    BY <1>3, <1>7, <2>2
<1>10. phase' \in [Turn -> {"new", "queued", "waiting", "model", "tools", "over"}] 
       /\ phase'[t] = "queued" /\ \A u \in Turn : u # t => phase'[u] = phase[u]
  BY <1>5 DEF TurnsTyped
<1>11. TurnsTyped'
  BY <1>5, <1>10 DEF TurnsTyped
<1>12. TurnsLined'
  <2>1. \A u \in Turn : phase'[u] \in {"model", "tools"} <=> lock' = u
    BY <1>5, <1>10 DEF TurnsLined
  <2>2. \A u \in Turn : phase'[u] = "over" <=> exit'[u] # "none"
    BY <1>5, <1>10 DEF TurnsLined
  <2>3. \A u \in ToSet(waiters) : u \in Turn /\ phase'[u] = "waiting"
    <3>1. \A u \in ToSet(waiters) : u \in Turn
      BY DEF TurnsTyped, ToSet
    <3> QED
      BY <1>4, <1>10, <3>1 DEF TurnsLined
  <2>4. \A u \in Turn : InQueue(ready', Task("turn", u)) => 
           phase'[u] = "queued" \/ (lock' = NoTurn /\ waiters' # <<>> /\ Head(waiters') = u)
    BY <1>1, <1>2, <1>5, <1>9, <1>10 DEF TurnsLined
  <2>5. \A u \in Turn : /\ InQueue(ready', Task("reply", u)) => phase'[u] = "model"
                        /\ InQueue(ready', Task("batch", u)) => phase'[u] = "tools" /\ settled' # "open"
    BY <1>2, <1>5, <1>9, <1>10 DEF TurnsLined
  <2> QED
    BY <1>5, <2>1, <2>2, <2>3, <2>4, <2>5 DEF TurnsLined
<1>13. \A id \in Id : InQueue(ready', CallTask(id)) <=> InQueue(ready, CallTask(id))
  BY <1>2, <1>9
<1>14. CallsHome'
  <2>1. \A u : Broken(u)' <=> Broken(u)
    BY <1>5 DEF Broken
  <2>2. DOMAIN call \subseteq Id
    BY DEF CallsFit
  <2> QED
    BY <1>5, <1>10, <1>13, <2>1, <2>2 DEF CallsHome
<1>15. \A id \in Id : ~Broken(id.turn) => InFront(ready', CallTask(id), Task("batch", id.turn))
  BY <1>2, <1>9 DEF CallsAhead
<1> QED
  BY <1>5, <1>9, <1>10, <1>11, <1>12, <1>13, <1>14, <1>15, TurnStep

LEMMA PlainYield ==
    ASSUME QueueTyped, ready # <<>>, NEW l \in Seq(LoopTask), Single(l), Yields(<<>>, l),
           \A x : Lone(x) /\ InQueue(l, x) => ~InQueue(ready, x)
    PROVE  /\ QueueTyped'
           /\ \A x : Lone(x) => (InQueue(ready', x) <=> InQueue(l, x) \/ (InQueue(ready, x) /\ x # Head(ready)))
           /\ \A x, y : ~InQueue(l, x) /\ InFront(ready, x, y) => InFront(ready', x, y)
           /\ \A x : InFront(ready, x, Head(ready)) => ~InQueue(ready, x)
<1>1. PICK n : n = <<>>
  OBVIOUS
<1>2. n \in Seq(LoopTask) /\ Single(n) /\ \A y : ~InQueue(n, y)
  BY <1>1, FewTasks
<1>3. Yields(n, l)
  BY <1>1
<1>4. \A x : Lone(x) => /\ ~(InQueue(n, x) /\ InQueue(l, x))
                        /\ InQueue(n, x) \/ InQueue(l, x) => ~InQueue(ready, x) \/ x = Head(ready)
  BY <1>2
<1>5. /\ QueueTyped'
      /\ \A x : InQueue(ready', x) => \/ InQueue(n, x) \/ InQueue(l, x) 
                                      \/ InQueue(ready, x) /\ (Lone(x) => x # Head(ready))
      /\ \A x : InQueue(n, x) \/ InQueue(l, x) \/ (InQueue(ready, x) /\ x # Head(ready)) => InQueue(ready', x)
      /\ \A x, y : ~InQueue(n, y) /\ ~InQueue(l, x) /\ InFront(ready, x, y) => InFront(ready', x, y)
      /\ \A x : InFront(ready, x, Head(ready)) => ~InQueue(ready, x)
  BY <1>2, <1>3, <1>4, YieldsIs
<1> QED
  BY <1>2, <1>5

LEMMA HeadIs ==
    ASSUME QueueTyped, NEW d \in TaskKind, Runs(d)
    PROVE  /\ ready # <<>> /\ Head(ready) \in LoopTask /\ InQueue(ready, Head(ready))
           /\ Head(ready).turn \in Turn /\ Head(ready) = Task(d, Head(ready).turn)
<1>1. ready # <<>> /\ Head(ready) \in LoopTask /\ InQueue(ready, Head(ready)) /\ Head(ready).does = d
  BY TailQueue DEF QueueTyped, Runs
<1> QED
  BY <1>1, EntryIs DEF TaskKind

LEMMA LineIs ==
    ASSUME NEW w \in Seq(Turn), IsInjective(w)
    PROVE  /\ ToSet(w) \subseteq Turn
           /\ w # <<>> => /\ Tail(w) \in Seq(Turn) /\ IsInjective(Tail(w)) /\ Head(w) \in ToSet(w)
                          /\ ToSet(Tail(w)) \subseteq ToSet(w) \ {Head(w)}
           /\ \A t \in Turn \ ToSet(w) : 
                 /\ Append(w, t) \in Seq(Turn) /\ IsInjective(Append(w, t)) /\ ToSet(Append(w, t)) \subseteq ToSet(w) \cup {t}
                 /\ Append(w, t) # <<>> /\ w # <<>> => Head(Append(w, t)) = Head(w)
<1>1. DOMAIN w = 1 .. Len(w) /\ Len(w) \in Nat /\ \A i \in 1 .. Len(w) : w[i] \in Turn
  OBVIOUS
<1>2. ToSet(w) \subseteq Turn
  BY <1>1 DEF ToSet
<1>3. ASSUME w # <<>>
      PROVE  /\ Tail(w) \in Seq(Turn) /\ IsInjective(Tail(w)) /\ Head(w) \in ToSet(w)
             /\ ToSet(Tail(w)) \subseteq ToSet(w) \ {Head(w)}
  <2> DEFINE s == Tail(w)
  <2>1. /\ s \in Seq(Turn) /\ DOMAIN s = 1 .. Len(s) /\ Len(w) \in Nat \ {0} /\ Len(s) = Len(w) - 1 /\ Head(w) = w[1]
        /\ \A i \in 1 .. Len(s) : s[i] = w[i + 1]
    BY <1>3
  <2> HIDE DEF s
  <2>2. \A i \in 1 .. Len(s) : i + 1 \in 1 .. Len(w) /\ s[i] = w[i + 1] /\ i + 1 # 1
    BY <2>1
  <2>3. 1 \in 1 .. Len(w)
    BY <2>1
  <2>4. \A i, j \in 1 .. Len(w) : w[i] = w[j] => i = j
    BY <1>1 DEF IsInjective
  <2>5. IsInjective(s)
    <3> SUFFICES ASSUME NEW i \in 1 .. Len(s), NEW j \in 1 .. Len(s), s[i] = s[j] PROVE i = j
      BY <2>1 DEF IsInjective
    <3>1. i + 1 = j + 1
      BY <2>2, <2>4
    <3> QED
      BY <3>1
  <2>6. ToSet(s) \subseteq ToSet(w) \ {Head(w)}
    BY <1>1, <2>1, <2>2, <2>3, <2>4 DEF ToSet
  <2> QED
    BY <1>1, <2>1, <2>3, <2>5, <2>6 DEF s, ToSet
<1>4. ASSUME NEW t \in Turn \ ToSet(w)
      PROVE  /\ Append(w, t) \in Seq(Turn) /\ IsInjective(Append(w, t)) /\ ToSet(Append(w, t)) \subseteq ToSet(w) \cup {t}
             /\ Append(w, t) # <<>> /\ w # <<>> => Head(Append(w, t)) = Head(w)
  <2> DEFINE s == Append(w, t)
  <2>1. /\ s \in Seq(Turn) /\ s[Len(w) + 1] = t /\ s # <<>> /\ DOMAIN s = 1 .. Len(s)
        /\ \A i \in 1 .. Len(w) : s[i] = w[i] /\ i \in 1 .. Len(s)
        /\ \A i \in 1 .. Len(s) : i \in 1 .. Len(w) \/ i = Len(w) + 1
    BY OneMore
  <2>2. w # <<>> => Head(s) = Head(w)
    BY <1>1
  <2> HIDE DEF s
  <2>3. \A i \in 1 .. Len(w) : w[i] # t
    BY <1>1, <1>4 DEF ToSet
  <2>4. IsInjective(s)
    BY <1>1, <2>1, <2>3 DEF IsInjective
  <2>5. ToSet(s) \subseteq ToSet(w) \cup {t}
    BY <1>1, <2>1 DEF ToSet
  <2> QED
    BY <2>1, <2>2, <2>4, <2>5 DEF s
<1> QED
  BY <1>2, <1>3, <1>4

(* A turn takes the lock, or joins the line.                               *)
LEMMA BeginKeeps ==
    ASSUME CallsInv, Begin
    PROVE  CallsInv'
<1> USE DEF CallsInv
<1>1. PICK t : t = Head(ready).turn
  OBVIOUS
<1>2. ready # <<>> /\ t \in Turn /\ Head(ready) = Task("turn", t) /\ InQueue(ready, Task("turn", t))
  <2>1. Runs("turn") /\ "turn" \in TaskKind
    BY DEF Begin, TaskKind
  <2> QED
    BY <1>1, <2>1, HeadIs
<1>3. /\ UNCHANGED <<stopped, exit, rounds, batches, batch, settled, call>>
      /\ \/ /\ LockFree(t) /\ lock' = t /\ waiters' = IF waiters = <<>> THEN <<>> ELSE Tail(waiters)
            /\ phase' = [phase EXCEPT ![t] = "model"] /\ Yields(<<>>, <<Task("start", t)>>)
         \/ /\ ~LockFree(t) /\ waiters' = Append(waiters, t) /\ phase' = [phase EXCEPT ![t] = "waiting"]
            /\ Yields(<<>>, <<>>) /\ lock' = lock
  BY <1>1 DEF Begin, turnVars, batchVars
<1>4. /\ ToSet(waiters) \subseteq Turn
      /\ waiters # <<>> => /\ Tail(waiters) \in Seq(Turn) /\ IsInjective(Tail(waiters)) /\ Head(waiters) \in ToSet(waiters)
                           /\ ToSet(Tail(waiters)) \subseteq ToSet(waiters) \ {Head(waiters)}
      /\ t \notin ToSet(waiters) => 
            /\ Append(waiters, t) \in Seq(Turn) /\ IsInjective(Append(waiters, t)) 
            /\ ToSet(Append(waiters, t)) \subseteq ToSet(waiters) \cup {t}
            /\ Append(waiters, t) # <<>> /\ waiters # <<>> => Head(Append(waiters, t)) = Head(waiters)
  <2>1. waiters \in Seq(Turn) /\ IsInjective(waiters)
    BY DEF TurnsTyped
  <2> QED
    BY <1>2, <2>1, LineIs
<1>5. PICK l : l = (IF LockFree(t) THEN <<Task("start", t)>> ELSE <<>>)
  OBVIOUS
<1>6. l \in Seq(LoopTask) /\ Single(l) /\ \A x : InQueue(l, x) => ~Lone(x)
  <2>1. Task("start", t) \in LoopTask /\ ~Lone(Task("start", t))
    BY <1>2, TaskIs DEF TaskKind
  <2> QED
    BY <1>5, <2>1, FewTasks
<1>7. /\ QueueTyped'
      /\ \A x : Lone(x) => (InQueue(ready', x) <=> InQueue(ready, x) /\ x # Head(ready))
      /\ \A x, y : ~InQueue(l, x) /\ InFront(ready, x, y) => InFront(ready', x, y)
  <2>1. Yields(<<>>, l) /\ QueueTyped
    BY <1>3, <1>5
  <2>2. /\ QueueTyped'
        /\ \A x : Lone(x) => (InQueue(ready', x) <=> InQueue(l, x) \/ (InQueue(ready, x) /\ x # Head(ready)))
        /\ \A x, y : ~InQueue(l, x) /\ InFront(ready, x, y) => InFront(ready', x, y)
    BY <1>2, <1>6, <2>1, PlainYield
  <2> QED
    BY <1>6, <2>2
<1>8. /\ \A u \in Turn : InQueue(ready', Task("turn", u)) => InQueue(ready, Task("turn", u)) /\ u # t
      /\ \A u \in Turn : InQueue(ready', Task("reply", u)) => InQueue(ready, Task("reply", u))
      /\ \A u \in Turn : InQueue(ready', Task("batch", u)) => InQueue(ready, Task("batch", u))
      /\ \A id \in Id : InQueue(ready', CallTask(id)) <=> InQueue(ready, CallTask(id))
  BY <1>2, <1>7, TaskIs
<1>9. \A id \in Id : ~Broken(id.turn) => InFront(ready', CallTask(id), Task("batch", id.turn))
  BY <1>6, <1>7, TaskIs DEF CallsAhead
<1>10. phase[t] = "queued" \/ (phase[t] = "waiting" /\ lock = NoTurn /\ waiters # <<>> /\ Head(waiters) = t)
  BY <1>2, <1>4 DEF TurnsLined
<1>11. /\ phase' \in [Turn -> {"new", "queued", "waiting", "model", "tools", "over"}] 
       /\ phase'[t] \in {"waiting", "model"} /\ \A u \in Turn : u # t => phase'[u] = phase[u]
  BY <1>2, <1>3 DEF TurnsTyped
<1>12. TurnsTyped' /\ TurnsLined'
  <2>1. CASE /\ LockFree(t) /\ lock' = t /\ waiters' = IF waiters = <<>> THEN <<>> ELSE Tail(waiters)
             /\ phase' = [phase EXCEPT ![t] = "model"]
    <3>1. lock = NoTurn /\ (waiters = <<>> \/ Head(waiters) = t)
      BY <2>1 DEF LockFree
    <3>2. waiters' \in Seq(Turn) /\ IsInjective(waiters') /\ ToSet(waiters') \subseteq ToSet(waiters) \ {t}
      <4>1. CASE waiters = <<>>
        BY <2>1, <4>1 DEF IsInjective, ToSet
      <4>2. CASE waiters # <<>>
        BY <1>4, <2>1, <3>1, <4>2
      <4> QED
        BY <4>1, <4>2
    <3>3. phase'[t] = "model" /\ \A u \in Turn : phase[u] \notin {"model", "tools"}
      BY <1>2, <2>1, <3>1, TurnAssumption DEF TurnsTyped, TurnsLined
    <3>4. TurnsTyped'
      BY <1>2, <1>3, <1>11, <2>1, <3>2 DEF TurnsTyped
    <3>5. \A u \in Turn : phase'[u] \in {"model", "tools"} <=> lock' = u
      BY <1>11, <2>1, <3>3
    <3>6. \A u \in Turn : phase'[u] = "over" <=> exit'[u] # "none"
      BY <1>3, <1>10, <1>11 DEF TurnsLined
    <3>7. \A u \in ToSet(waiters') : phase'[u] = "waiting"
      BY <1>4, <1>11, <3>2 DEF TurnsLined
    <3>8. \A u \in Turn : InQueue(ready', Task("turn", u)) => phase'[u] = "queued"
      BY <1>8, <1>11, <3>1 DEF TurnsLined
    <3>9. \A u \in Turn : ~InQueue(ready', Task("reply", u)) /\ ~InQueue(ready', Task("batch", u))
      BY <1>8, <3>3 DEF TurnsLined
    <3> QED
      BY <3>4, <3>5, <3>6, <3>7, <3>8, <3>9 DEF TurnsLined
  <2>2. CASE ~LockFree(t) /\ waiters' = Append(waiters, t) /\ phase' = [phase EXCEPT ![t] = "waiting"] /\ lock' = lock
    <3>1. phase[t] = "queued"
      BY <1>10, <2>2 DEF LockFree
    <3>2. t \notin ToSet(waiters)
      BY <3>1 DEF TurnsLined
    <3>3. /\ waiters' \in Seq(Turn) /\ IsInjective(waiters') /\ ToSet(waiters') \subseteq ToSet(waiters) \cup {t}
          /\ waiters' # <<>> /\ (waiters # <<>> => Head(waiters') = Head(waiters))
      BY <1>4, <2>2, <3>2
    <3>4. phase'[t] = "waiting"
      BY <1>2, <2>2 DEF TurnsTyped
    <3>5. TurnsTyped'
      BY <1>3, <1>11, <2>2, <3>3 DEF TurnsTyped
    <3>6. \A u \in Turn : phase'[u] \in {"model", "tools"} <=> lock' = u
      BY <1>11, <2>2, <3>1, <3>4 DEF TurnsLined
    <3>7. \A u \in Turn : phase'[u] = "over" <=> exit'[u] # "none"
      BY <1>3, <1>11, <3>1, <3>4 DEF TurnsLined
    <3>8. \A u \in ToSet(waiters') : phase'[u] = "waiting"
      BY <1>4, <1>11, <3>3, <3>4 DEF TurnsLined
    <3>9. \A u \in Turn : InQueue(ready', Task("turn", u)) => 
             phase'[u] = "queued" \/ (lock' = NoTurn /\ waiters' # <<>> /\ Head(waiters') = u)
      BY <1>8, <1>11, <2>2, <3>3 DEF TurnsLined
    <3>10. \A u \in Turn : /\ InQueue(ready', Task("reply", u)) => phase'[u] = "model"
                           /\ InQueue(ready', Task("batch", u)) => phase'[u] = "tools" /\ settled' # "open"
      BY <1>3, <1>8, <1>11, <3>1 DEF TurnsLined
    <3> QED
      BY <3>5, <3>6, <3>7, <3>8, <3>9, <3>10 DEF TurnsLined
  <2> QED
    BY <1>3, <2>1, <2>2
<1>13. CallsHome'
  <2>1. \A u : Broken(u)' <=> Broken(u)
    BY <1>3 DEF Broken
  <2>2. DOMAIN call \subseteq Id
    BY DEF CallsFit
  <2>3. \A u \in Turn : (phase'[u] = "tools" <=> phase[u] = "tools") /\ (phase'[u] \notin {"tools", "over"} <=> phase[u] \notin {"tools", "over"})
    BY <1>10, <1>11
  <2> QED
    BY <1>3, <1>8, <2>1, <2>2, <2>3 DEF CallsHome
<1>14. \A u \in Turn : phase'[u] = "tools" <=> phase[u] = "tools"
  BY <1>10, <1>11
<1> QED
  BY <1>3, <1>7, <1>8, <1>9, <1>12, <1>13, <1>14, TurnStep

(* When the turn goes on with the results of a batch, or not at all, none   *)
(* of its calls is left over, unless one was broken by the callback.       *)
LEMMA NoneLeft ==
    ASSUME CallsInv, NEW t \in Turn, ready # <<>>, Head(ready) = Task("batch", t), ~Broken(t),
           NEW id \in DOMAIN call, id.turn = t
    PROVE  ~InQueue(ready, CallTask(id)) /\ call[id].state # "running"
<1>1. id \in Id /\ InQueue(ready, Task("batch", t))
  BY TailQueue DEF CallsInv, CallsFit, QueueTyped
<1>2. ~InQueue(ready, CallTask(id))
  <2>1. InFront(ready, CallTask(id), Head(ready))
    BY <1>1 DEF CallsInv, CallsAhead
  <2> QED
    BY <2>1, TailQueue DEF CallsInv, QueueTyped
<1>3. ASSUME call[id].state = "running" PROVE FALSE
  BY <1>1, <1>2, <1>3, StillOpen
<1> QED
  BY <1>2, <1>3

(* What the reply of the model and the end of a batch are taken for.       *)
LEMMA TurnRuns ==
    ASSUME CallsInv, NEW d \in {"reply", "batch"}, Runs(d), NEW t, t = Head(ready).turn
    PROVE  /\ ready # <<>> /\ t \in Turn /\ Head(ready) = Task(d, t) /\ Lone(Head(ready)) 
           /\ phase[t] = (IF d = "reply" THEN "model" ELSE "tools") /\ lock = t
           /\ d = "batch" => settled # "open"
           /\ d = "reply" => batches = <<>> /\ batch = <<>> /\ settled = "open"
<1>1. d \in TaskKind /\ QueueTyped
  BY DEF TaskKind, CallsInv
<1>2. ready # <<>> /\ t \in Turn /\ Head(ready) = Task(d, t) /\ InQueue(ready, Task(d, t))
  BY <1>1, HeadIs
<1>3. phase[t] = (IF d = "reply" THEN "model" ELSE "tools") /\ (d = "batch" => settled # "open")
  BY <1>2 DEF CallsInv, TurnsLined
<1>4. lock = t /\ \A u \in Turn : phase[u] = "tools" => u = t
  BY <1>2, <1>3 DEF CallsInv, TurnsLined
<1>5. d = "reply" => batches = <<>> /\ batch = <<>> /\ settled = "open"
  BY <1>3, <1>4 DEF CallsInv, BatchTyped
<1> QED
  BY <1>2, <1>3, <1>4, <1>5, TaskIs

LEMMA EndTurnKeeps ==
    ASSUME CallsInv, NEW d \in {"reply", "batch"}, Runs(d), NEW t, t = Head(ready).turn, 
           NEW how \in {"answer", "error", "abandoned"}, how = "answer" => d = "reply", EndTurn(t, how), UNCHANGED call
    PROVE  CallsInv'
<1> USE DEF CallsInv
<1>1. /\ ready # <<>> /\ t \in Turn /\ Head(ready) = Task(d, t) /\ Lone(Head(ready)) 
      /\ phase[t] = (IF d = "reply" THEN "model" ELSE "tools") /\ lock = t
      /\ d = "batch" => settled # "open"
  BY TurnRuns
<1>2. /\ phase' = [phase EXCEPT ![t] = "over"] /\ exit' = [exit EXCEPT ![t] = how] /\ lock' = NoTurn
      /\ Yields(<<>>, ReportTask(t, how) \o Woken)
      /\ batches' = <<>> /\ batch' = <<>> /\ settled' = "open"
      /\ UNCHANGED <<waiters, stopped, rounds, call>>
  BY DEF EndTurn
<1>3. /\ phase' \in [Turn -> {"new", "queued", "waiting", "model", "tools", "over"}] 
      /\ phase'[t] = "over" /\ \A u \in Turn : u # t => phase'[u] = phase[u] /\ phase[u] \notin {"model", "tools"}
  BY <1>1, <1>2 DEF TurnsTyped, TurnsLined
<1>4. /\ exit' \in [Turn -> {"none", "answer", "error", "abandoned"}] 
      /\ exit'[t] = how /\ \A u \in Turn : u # t => exit'[u] = exit[u]
  BY <1>1, <1>2 DEF TurnsTyped
<1>5. lock # NoTurn
  BY <1>1, TurnAssumption
<1>6. waiters # <<>> => Head(waiters) \in Turn /\ phase[Head(waiters)] = "waiting" 
                        /\ ~InQueue(ready, Task("turn", Head(waiters)))
  <2>1. waiters # <<>> => Head(waiters) \in Turn /\ Head(waiters) \in ToSet(waiters)
    BY LineIs DEF TurnsTyped
  <2> QED
    BY <1>5, <2>1 DEF TurnsLined
<1>7. PICK l : l = ReportTask(t, how) \o Woken
  OBVIOUS
<1>8. PICK r : r = Task(IF how = "abandoned" THEN "emit" ELSE "notify", t)
  OBVIOUS
<1>9. r \in LoopTask /\ ~Lone(r) /\ \A u : r # Task("turn", u)
  BY <1>1, <1>8, TaskIs DEF TaskKind
<1>10. /\ l \in Seq(LoopTask) /\ Single(l) 
       /\ \A x : InQueue(l, x) => x = r \/ (waiters # <<>> /\ x = Task("turn", Head(waiters)))
  <2>1. CASE waiters = <<>>
    <3>1. l = <<r>>
      BY <1>7, <1>8, <2>1 DEF ReportTask, Woken
    <3> QED
      BY <1>9, <3>1, FewTasks
  <2>2. CASE waiters # <<>>
    <3>1. PICK w : w = Task("turn", Head(waiters))
      OBVIOUS
    <3>2. w \in LoopTask /\ w # r
      BY <1>6, <1>9, <2>2, <3>1, TaskIs DEF TaskKind
    <3>3. l = <<r>> \o <<w>>
      BY <1>7, <1>8, <2>2, <3>1 DEF ReportTask, Woken
    <3> QED
      BY <1>9, <2>2, <3>1, <3>2, <3>3, FewTasks
  <2> QED
    BY <2>1, <2>2
<1>11. \A x : Lone(x) /\ InQueue(l, x) => ~InQueue(ready, x)
  BY <1>6, <1>9, <1>10
<1>12. /\ QueueTyped'
       /\ \A x : Lone(x) => (InQueue(ready', x) <=> InQueue(l, x) \/ (InQueue(ready, x) /\ x # Head(ready)))
       /\ \A x, y : ~InQueue(l, x) /\ InFront(ready, x, y) => InFront(ready', x, y)
  <2>1. Yields(<<>>, l) /\ QueueTyped
    BY <1>2, <1>7
  <2> QED
    BY <1>1, <1>10, <1>11, <2>1, PlainYield
<1>13. /\ \A u \in Turn : InQueue(ready', Task("turn", u)) => 
              InQueue(ready, Task("turn", u)) \/ (waiters # <<>> /\ u = Head(waiters))
       /\ \A u \in Turn : InQueue(ready', Task("reply", u)) => InQueue(ready, Task("reply", u)) /\ Task("reply", u) # Head(ready)
       /\ \A u \in Turn : InQueue(ready', Task("batch", u)) => InQueue(ready, Task("batch", u)) /\ Task("batch", u) # Head(ready)
       /\ \A id \in Id : InQueue(ready', CallTask(id)) => InQueue(ready, CallTask(id))
  <2>1. \A u \in Turn : Lone(Task("turn", u)) /\ Lone(Task("reply", u)) /\ Lone(Task("batch", u))
                        /\ r # Task("reply", u) /\ r # Task("batch", u) /\ Task("turn", u) # Task("reply", u) 
                        /\ Task("turn", u) # Task("batch", u)
    BY <1>9, TaskIs
  <2>2. \A id \in Id : Lone(CallTask(id)) /\ r # CallTask(id) /\ \A u : Task("turn", u) # CallTask(id)
    BY <1>9, TaskIs
  <2>3. \A u, v : Task("turn", u) = Task("turn", v) => u = v
    BY TaskIs
  <2>4. /\ \A u : r # Task("turn", u)
        /\ \A u, v : Task("turn", u) # Task("reply", v) /\ Task("turn", u) # Task("batch", v)
    BY <1>9, TaskIs
  <2> QED
    BY <1>10, <1>12, <2>1, <2>2, <2>3, <2>4
<1>14. \A id \in Id : ~Broken(id.turn) => InFront(ready', CallTask(id), Task("batch", id.turn))
  <2>1. \A id \in Id : ~InQueue(l, CallTask(id))
    BY <1>9, <1>10, TaskIs
  <2> QED
    BY <1>12, <2>1 DEF CallsAhead
<1>15. TurnsTyped'
  BY <1>2, <1>3, <1>4 DEF TurnsTyped
<1>16. TurnsLined'
  <2>1. \A u \in Turn : phase'[u] \in {"model", "tools"} <=> lock' = u
    BY <1>2, <1>3, TurnAssumption
  <2>2. \A u \in Turn : phase'[u] = "over" <=> exit'[u] # "none"
    BY <1>3, <1>4 DEF TurnsLined
  <2>3. \A u \in ToSet(waiters) : phase'[u] = "waiting"
    <3>1. \A u \in ToSet(waiters) : u \in Turn /\ phase[u] = "waiting" /\ u # t
      BY <1>1, LineIs DEF TurnsTyped, TurnsLined
    <3> QED
      BY <1>3, <3>1
  <2>4. ASSUME NEW u \in Turn, InQueue(ready', Task("turn", u))
        PROVE  phase'[u] = "queued" \/ (lock' = NoTurn /\ waiters' # <<>> /\ Head(waiters') = u)
    <3>1. CASE InQueue(ready, Task("turn", u))
      <4>1. phase[u] = "queued"
        BY <1>5, <3>1 DEF TurnsLined
      <4> QED
        BY <1>1, <1>3, <4>1
    <3> QED
      BY <1>2, <1>13, <2>4, <3>1
  <2>5. \A u \in Turn : ~InQueue(ready', Task("reply", u)) /\ ~InQueue(ready', Task("batch", u))
    <3>1. ASSUME NEW u \in Turn, InQueue(ready', Task("reply", u)) PROVE FALSE
      <4>1. phase[u] = "model"
        BY <1>13, <3>1 DEF TurnsLined
      <4>2. u = t /\ d = "reply"
        BY <1>1, <1>3, <4>1
      <4> QED
        BY <1>1, <1>13, <3>1, <4>2
    <3>2. ASSUME NEW u \in Turn, InQueue(ready', Task("batch", u)) PROVE FALSE
      <4>1. phase[u] = "tools"
        BY <1>13, <3>2 DEF TurnsLined
      <4>2. u = t /\ d = "batch"
        BY <1>1, <1>3, <4>1
      <4> QED
        BY <1>1, <1>13, <3>2, <4>2
    <3> QED
      BY <3>1, <3>2
  <2> QED
    BY <1>2, <2>1, <2>2, <2>3, <2>4, <2>5 DEF TurnsLined
<1>17. CallsHome'
  <2>1. \A u : Broken(u)' <=> Broken(u)
    BY <1>2 DEF Broken
  <2>2. DOMAIN call \subseteq Id
    BY DEF CallsFit
  <2> SUFFICES ASSUME NEW u \in Turn, ~Broken(u), NEW id \in DOMAIN call, id.turn = u
               PROVE  /\ ~InQueue(ready', CallTask(id)) /\ call[id].state # "running"
                      /\ phase'[u] \notin {"tools", "over"} \/ exit'[u] = "answer" => call[id].state = "done"
    BY <1>2, <2>1 DEF CallsHome
  <2>3. ~InQueue(ready, CallTask(id)) /\ call[id].state # "running"
    <3>1. CASE u = t /\ d = "batch"
      BY <1>1, <3>1, NoneLeft
    <3>2. CASE u # t \/ d = "reply"
      <4>1. phase[u] # "tools"
        BY <1>1, <1>3, <3>2
      <4> QED
        BY <4>1 DEF CallsHome
    <3> QED
      BY <3>1, <3>2
  <2>4. phase'[u] \notin {"tools", "over"} \/ exit'[u] = "answer" => phase[u] \notin {"tools", "over"} \/ exit[u] = "answer"
    BY <1>1, <1>3, <1>4
  <2> QED
    BY <1>13, <2>2, <2>3, <2>4 DEF CallsHome
<1>18. \A u \in Turn : phase'[u] # "tools"
  BY <1>3
<1> QED
  BY <1>2, <1>12, <1>13, <1>14, <1>15, <1>16, <1>17, <1>18, TurnStep

(* All the calls of the answer are done: the model is asked again.         *)
LEMMA ResumeKeeps ==
    ASSUME CallsInv, Runs("batch"), NEW t, t = Head(ready).turn, settled = "done", batches = <<>>,
           phase' = [phase EXCEPT ![t] = "model"], batch' = <<>>, settled' = "open", Yields(<<>>, <<>>),
           UNCHANGED <<lock, waiters, stopped, exit, rounds, batches, call>>
    PROVE  CallsInv'
<1> USE DEF CallsInv
<1>1. /\ ready # <<>> /\ t \in Turn /\ Head(ready) = Task("batch", t) /\ Lone(Head(ready)) 
      /\ phase[t] = "tools" /\ lock = t
  BY TurnRuns
<1>2. /\ phase' \in [Turn -> {"new", "queued", "waiting", "model", "tools", "over"}] 
      /\ phase'[t] = "model" /\ \A u \in Turn : u # t => phase'[u] = phase[u] /\ phase[u] \notin {"model", "tools"}
  BY <1>1 DEF TurnsTyped, TurnsLined
<1>3. PICK l : l = <<>>
  OBVIOUS
<1>4. l \in Seq(LoopTask) /\ Single(l) /\ \A x : ~InQueue(l, x)
  BY <1>3, FewTasks
<1>5. /\ QueueTyped'
      /\ \A x : Lone(x) => (InQueue(ready', x) <=> InQueue(ready, x) /\ x # Head(ready))
      /\ \A x, y : InFront(ready, x, y) => InFront(ready', x, y)
  <2>1. Yields(<<>>, l) /\ QueueTyped
    BY <1>3
  <2>2. /\ QueueTyped'
        /\ \A x : Lone(x) => (InQueue(ready', x) <=> InQueue(l, x) \/ (InQueue(ready, x) /\ x # Head(ready)))
        /\ \A x, y : ~InQueue(l, x) /\ InFront(ready, x, y) => InFront(ready', x, y)
    BY <1>1, <1>4, <2>1, PlainYield
  <2> QED
    BY <1>4, <2>2
<1>6. /\ \A u \in Turn : InQueue(ready', Task("turn", u)) => InQueue(ready, Task("turn", u))
      /\ \A u \in Turn : InQueue(ready', Task("reply", u)) => InQueue(ready, Task("reply", u))
      /\ \A u \in Turn : InQueue(ready', Task("batch", u)) => InQueue(ready, Task("batch", u)) /\ u # t
      /\ \A id \in Id : InQueue(ready', CallTask(id)) => InQueue(ready, CallTask(id))
  BY <1>1, <1>5, TaskIs
<1>7. TurnsTyped'
  BY <1>2 DEF TurnsTyped
<1>8. TurnsLined'
  <2>1. \A u \in Turn : phase'[u] \in {"model", "tools"} <=> lock' = u
    BY <1>1, <1>2
  <2>2. \A u \in Turn : phase'[u] = "over" <=> exit'[u] # "none"
    BY <1>1, <1>2 DEF TurnsLined
  <2>3. \A u \in ToSet(waiters) : phase'[u] = "waiting"
    <3>1. \A u \in ToSet(waiters) : u \in Turn /\ phase[u] = "waiting" /\ u # t
      BY <1>1, LineIs DEF TurnsTyped, TurnsLined
    <3> QED
      BY <1>2, <3>1
  <2>4. \A u \in Turn : InQueue(ready', Task("turn", u)) => phase'[u] = "queued"
    <3>1. lock # NoTurn
      BY <1>1, TurnAssumption
    <3> QED
      BY <1>1, <1>2, <1>6, <3>1 DEF TurnsLined
  <2>5. \A u \in Turn : ~InQueue(ready', Task("reply", u)) /\ ~InQueue(ready', Task("batch", u))
    BY <1>1, <1>2, <1>6 DEF TurnsLined
  <2> QED
    BY <2>1, <2>2, <2>3, <2>4, <2>5 DEF TurnsLined
<1>9. ASSUME NEW id \in DOMAIN call, id.turn = t, ~Broken(t) PROVE call[id].state = "done"
  <2>1. BatchSound(t) /\ BatchWhole(t)
    BY <1>1, <1>9 DEF BatchTyped
  <2>2. ~InBatches(batches, id)
    BY DEF InBatches
  <2> QED
    BY <1>9, <2>1, <2>2 DEF BatchSound, BatchWhole
<1>10. CallsHome'
  <2>1. \A u : Broken(u)' <=> Broken(u)
    BY DEF Broken
  <2>2. DOMAIN call \subseteq Id
    BY DEF CallsFit
  <2> SUFFICES ASSUME NEW u \in Turn, ~Broken(u), NEW id \in DOMAIN call, id.turn = u
               PROVE  /\ ~InQueue(ready', CallTask(id)) /\ call[id].state # "running"
                      /\ phase'[u] \notin {"tools", "over"} \/ exit'[u] = "answer" => call[id].state = "done"
    BY <2>1 DEF CallsHome
  <2>3. CASE u = t
    <3>1. call[id].state = "done"
      BY <1>9, <2>3
    <3>2. ~InQueue(ready, CallTask(id))
      BY <3>1, <2>2 DEF CallsFit, Undone
    <3> QED
      BY <1>6, <2>2, <3>1, <3>2
  <2>4. CASE u # t
    <3>1. phase[u] # "tools" /\ phase'[u] = phase[u]
      BY <1>2, <2>4
    <3> QED
      BY <1>6, <2>2, <3>1 DEF CallsHome
  <2> QED
    BY <2>3, <2>4
<1>11. \A u \in Turn : phase'[u] # "tools"
  BY <1>2
<1>12. \A id \in Id : ~Broken(id.turn) => InFront(ready', CallTask(id), Task("batch", id.turn))
  BY <1>5 DEF CallsAhead
<1> QED
  BY <1>5, <1>6, <1>7, <1>8, <1>10, <1>11, <1>12, TurnStep

(* A step of a call: it begins to run, or comes to its end, which may       *)
(* settle the batch and let the turn go on.                                *)
LEMMA CallMoves ==
    ASSUME CallsInv, Runs("call"), NEW id, id = Head(ready).call, NEW c, CallFits(c), c.state # "waiting",
           call' = [call EXCEPT ![id] = c], c.cancelled = call[id].cancelled,
           c.state = "running" => ~c.cancelled, c.state = "cut" => c.cancelled,
           NEW n \in {<<>>, <<Task("batch", id.turn)>>}, NEW l \in {<<>>, <<Task("batch", id.turn)>>}, Yields(n, l),
           n = <<>> /\ l = <<>> => settled' = settled,
           n # <<>> \/ l # <<>> => 
              /\ settled = "open" /\ id \in ToSet(batch) /\ c.state # "running" /\ (n = <<>> \/ l = <<>>)
              /\ settled' = (IF c.state = "done" THEN "done" ELSE "raised")
              /\ c.state = "done" => \A o \in ToSet(batch) : o # id => call[o].state = "done",
           n # <<>> => ToSet(batch) = {id},
           UNCHANGED <<lock, waiters, phase, stopped, exit, rounds, batches, batch>>
    PROVE  CallsInv'
<1> USE DEF CallsInv
<1>1. /\ ready # <<>> /\ id \in Id /\ Head(ready) = CallTask(id) /\ InQueue(ready, CallTask(id))
      /\ id \in DOMAIN call /\ id.turn \in Turn
  <2>1. ready # <<>> /\ Head(ready) \in LoopTask /\ InQueue(ready, Head(ready)) /\ Head(ready).does = "call"
    BY TailQueue DEF QueueTyped, Runs
  <2>2. id \in Id /\ Head(ready) = CallTask(id)
    BY <2>1, EntryIs
  <2> QED
    BY <2>1, <2>2, IdIs DEF CallsFit
<1>2. Undone(id) /\ call[id].state \notin {"done", "raised"}
  BY <1>1 DEF CallsFit, Undone
<1>3. /\ DOMAIN call' = DOMAIN call /\ call'[id] = c /\ \A o \in DOMAIN call : o # id => call'[o] = call[o]
  BY <1>1
<1>4. /\ \A t : ~Broken(t)' => ~Broken(t)
      /\ c.state = "raised" => Broken(id.turn)'
  <2>1. ASSUME NEW t, Broken(t) PROVE Broken(t)'
    <3>1. PICK o \in DOMAIN call : o.turn = t /\ call[o].state = "raised"
      BY <2>1 DEF Broken
    <3>2. o # id
      BY <1>2, <3>1
    <3> QED
      BY <1>3, <3>1, <3>2 DEF Broken
  <2> QED
    BY <1>1, <1>3, <2>1 DEF Broken
<1>5. /\ \A o \in DOMAIN call : o # id => (Undone(o)' <=> Undone(o))
      /\ Undone(id)' <=> c.state = "running"
  BY <1>1, <1>3 DEF Undone, CallFits
<1>6. PICK b : b = Task("batch", id.turn)
  OBVIOUS
<1>7. b \in LoopTask /\ (\A u \in Turn : b = Task("batch", u) => u = id.turn) 
      /\ (\A u \in Turn : b # Task("turn", u) /\ b # Task("reply", u)) /\ \A o \in Id : b # CallTask(o)
  BY <1>1, <1>6, TaskIs DEF TaskKind
<1>8. n # <<>> \/ l # <<>> => ~InQueue(ready, b)
  BY <1>1, <1>6 DEF TurnsLined
<1>9. /\ n \in Seq(LoopTask) /\ Single(n) /\ (\A x : InQueue(n, x) <=> n # <<>> /\ x = b)
      /\ l \in Seq(LoopTask) /\ Single(l) /\ (\A x : InQueue(l, x) <=> l # <<>> /\ x = b)
  <2>1. \A m \in {<<>>, <<b>>} : m \in Seq(LoopTask) /\ Single(m) /\ \A x : InQueue(m, x) <=> m # <<>> /\ x = b
    <3>1. <<b>> # <<>>
      OBVIOUS
    <3>2. <<b>> \in Seq(LoopTask) /\ Single(<<b>>) /\ \A x : InQueue(<<b>>, x) <=> x = b
      BY <1>7, FewTasks
    <3>3. <<>> \in Seq(LoopTask) /\ Single(<<>>) /\ \A x : ~InQueue(<<>>, x)
      BY FewTasks
    <3> QED
      BY <3>1, <3>2, <3>3
  <2> QED
    BY <1>6, <2>1
<1>10. /\ QueueTyped'
       /\ \A x : InQueue(ready', x) => \/ InQueue(n, x) \/ InQueue(l, x) 
                                       \/ InQueue(ready, x) /\ (Lone(x) => x # Head(ready))
       /\ \A x : InQueue(n, x) \/ InQueue(l, x) \/ (InQueue(ready, x) /\ x # Head(ready)) => InQueue(ready', x)
       /\ \A x, y : ~InQueue(n, y) /\ ~InQueue(l, x) /\ InFront(ready, x, y) => InFront(ready', x, y)
  <2>1. \A x : Lone(x) => /\ ~(InQueue(n, x) /\ InQueue(l, x))
                          /\ InQueue(n, x) \/ InQueue(l, x) => ~InQueue(ready, x) \/ x = Head(ready)
    BY <1>8, <1>9
  <2>2. QueueTyped /\ n \in Seq(LoopTask) /\ Single(n) /\ l \in Seq(LoopTask) /\ Single(l)
    BY <1>9
  <2> QED
    BY <1>1, <2>1, <2>2, YieldsIs
<1>11. /\ \A u \in Turn : InQueue(ready', Task("turn", u)) => InQueue(ready, Task("turn", u))
       /\ \A u \in Turn : InQueue(ready', Task("reply", u)) => InQueue(ready, Task("reply", u))
       /\ \A u \in Turn : InQueue(ready', Task("batch", u)) => 
             InQueue(ready, Task("batch", u)) \/ (u = id.turn /\ (n # <<>> \/ l # <<>>))
       /\ \A o \in Id : InQueue(ready', CallTask(o)) <=> InQueue(ready, CallTask(o)) /\ o # id
  BY <1>1, <1>7, <1>9, <1>10, TaskIs
<1>12. \A o \in ToSet(batch) : o \in DOMAIN call /\ o \in Id
  BY DEF BatchTyped, CallsFit
<1>13. id \in ToSet(batch) => phase[id.turn] = "tools" 
  <2>1. ASSUME id \in ToSet(batch) PROVE \E t \in Turn : phase[t] = "tools"
    <3>1. batch # <<>>
      BY <2>1 DEF ToSet
    <3> QED
      BY <3>1 DEF BatchTyped
  <2> QED
    BY <2>1 DEF BatchTyped, BatchSound
<1>14. c \in CallRecord
  BY DEF CallFits
<1>15. settled \in {"open", "done", "raised"} /\ settled' \in {"open", "done", "raised"}
  BY DEF BatchTyped
<1>16. TurnsTyped'
  BY DEF TurnsTyped
<1>17. TurnsLined'
  <2>1. ASSUME NEW u \in Turn, InQueue(ready', Task("batch", u)) PROVE phase[u] = "tools" /\ settled' # "open"
    <3>1. CASE n # <<>> \/ l # <<>>
      <4>1. ~InQueue(ready, Task("batch", u))
        BY <3>1 DEF TurnsLined
      <4> QED
        BY <1>11, <1>13, <2>1, <3>1, <4>1
    <3>2. CASE n = <<>> /\ l = <<>>
      BY <1>11, <2>1, <3>2 DEF TurnsLined
    <3> QED
      BY <3>1, <3>2
  <2> QED
    BY <1>11, <2>1 DEF TurnsLined
<1>18. CallsFit'
  <2>1. ASSUME NEW o \in DOMAIN call
        PROVE  /\ CallFits(call'[o]) /\ o.round <= rounds[o.turn] /\ (call'[o].cancelled => o.turn \in stopped)
               /\ InQueue(ready', CallTask(o)) => Undone(o)'
    BY <1>3, <1>5, <1>11 DEF CallsFit
  <2>2. \A o \in Id : InQueue(ready', CallTask(o)) => o \in DOMAIN call
    BY <1>11 DEF CallsFit
  <2> QED
    BY <1>3, <2>1, <2>2 DEF CallsFit
<1>19. ASSUME NEW t \in Turn, phase[t] = "tools" PROVE BatchSound(t)' /\ (~Broken(t)' => BatchWhole(t)')
  <2>1. BatchSound(t) /\ (~Broken(t)' => BatchWhole(t) /\ ~Broken(t))
    BY <1>4, <1>19 DEF BatchTyped
  <2>2. ~InBatches(batches, id)
    BY <1>1, <2>1 DEF BatchSound, Prepared
  <2>3. Prepared(batches, t, call', ready')
    <3>1. \A o \in DOMAIN call : o \in Id
      BY DEF CallsFit
    <3>2. \A o : InBatches(batches, o) /\ o \in DOMAIN call => o \in DOMAIN call' /\ call'[o] = call[o]
      BY <1>3, <2>2
    <3>3. Prepared(batches, t, call, ready)
      BY <2>1 DEF BatchSound
    <3> QED
      BY <1>11, <3>1, <3>2, <3>3, PreparedStays
  <2>4. ASSUME settled' = "done", NEW o \in ToSet(batch) PROVE call'[o].state = "done"
    <3>1. CASE n = <<>> /\ l = <<>>
      <4>1. call[o].state = "done"
        BY <2>1, <2>4, <3>1 DEF BatchSound
      <4> QED
        BY <1>2, <1>3, <1>12, <4>1
    <3>2. CASE n # <<>> \/ l # <<>>
      BY <1>3, <1>12, <2>4, <3>2
    <3> QED
      BY <3>1, <3>2
  <2>5. BatchSound(t)'
    BY <2>1, <2>3, <2>4 DEF BatchSound
  <2>6. ASSUME ~Broken(t)' PROVE BatchWhole(t)'
    <3>1. BatchWhole(t)
      BY <2>1, <2>6
    <3>2. ASSUME settled' = "raised" PROVE t \in stopped
      <4>1. CASE n = <<>> /\ l = <<>>
        BY <3>1, <3>2, <4>1 DEF BatchWhole
      <4>2. CASE n # <<>> \/ l # <<>>
        <5>1. id.turn = t
          BY <2>1, <4>2 DEF BatchSound
        <5>2. c.state \notin {"done", "raised", "running", "waiting"}
          BY <1>4, <2>6, <3>2, <4>2, <5>1
        <5>3. c.state = "cut"
          BY <1>14, <5>2 DEF CallRecord
        <5> QED
          BY <1>1, <5>1, <5>3 DEF CallsFit
      <4> QED
        BY <4>1, <4>2
    <3>3. ASSUME NEW o \in DOMAIN call, o.turn = t 
          PROVE  call'[o].state = "done" \/ o \in ToSet(batch) \/ InBatches(batches, o)
      BY <1>2, <1>3, <3>1, <3>3 DEF BatchWhole
    <3>4. ASSUME NEW o \in ToSet(batch), Undone(o)' 
          PROVE  /\ call'[o].state = "waiting" => InQueue(ready', CallTask(o))
                 /\ t \in stopped => call'[o].cancelled /\ InQueue(ready', CallTask(o))
      <4>1. CASE o = id
        <5>1. c.state = "running" /\ ~call[id].cancelled
          BY <1>5, <3>4, <4>1
        <5>2. t \notin stopped
          BY <1>2, <3>1, <3>4, <4>1, <5>1 DEF BatchWhole
        <5> QED
          BY <1>3, <4>1, <5>1, <5>2
      <4>2. CASE o # id
        BY <1>3, <1>5, <1>11, <1>12, <3>1, <3>4, <4>2 DEF BatchWhole
      <4> QED
        BY <4>1, <4>2
    <3> QED
      BY <1>3, <3>2, <3>3, <3>4 DEF BatchWhole
  <2> QED
    BY <2>5, <2>6
<1>20. BatchTyped'
  <2>1. (\A t \in Turn : phase[t] # "tools") => settled' = "open"
    BY <1>1, <1>13 DEF BatchTyped
  <2> QED
    BY <1>3, <1>15, <1>19, <2>1 DEF BatchTyped
<1>21. CallsAhead'
  <2> SUFFICES ASSUME NEW o \in Id, ~Broken(o.turn)' PROVE InFront(ready', CallTask(o), Task("batch", o.turn))
    BY DEF CallsAhead
  <2>1. InFront(ready, CallTask(o), Task("batch", o.turn)) /\ ~InQueue(l, CallTask(o)) /\ ~Broken(o.turn) /\ o.turn \in Turn
    BY <1>4, <1>7, <1>9, IdIs DEF CallsAhead
  <2>2. CASE n = <<>> \/ o.turn # id.turn
    <3>1. ~InQueue(n, Task("batch", o.turn))
      BY <1>7, <1>9, <2>1, <2>2
    <3> QED
      BY <1>10, <2>1, <3>1
  <2>3. CASE n # <<>> /\ o.turn = id.turn
    <3>1. ASSUME InQueue(ready', CallTask(o)) PROVE FALSE
      <4>1. InQueue(ready, CallTask(o)) /\ o # id /\ o \in DOMAIN call
        BY <1>11, <3>1 DEF CallsFit
      <4>2. o \in ToSet(batch)
        BY <2>1, <4>1 DEF CallsHome
      <4> QED
        BY <2>3, <4>1, <4>2
    <3> QED
      BY <3>1, InFrontIs
  <2> QED
    BY <2>2, <2>3
<1>22. CallsHome'
  <2> SUFFICES ASSUME NEW t \in Turn, ~Broken(t)', NEW o \in DOMAIN call, o.turn = t
               PROVE  /\ InQueue(ready', CallTask(o)) \/ call'[o].state = "running" => o \in ToSet(batch) /\ phase[t] = "tools"
                      /\ phase[t] \notin {"tools", "over"} \/ exit[t] = "answer" => call'[o].state = "done"
    BY <1>3 DEF CallsHome
  <2>1. ~Broken(t) /\ o \in Id
    BY <1>4 DEF CallsFit
  <2>2. /\ InQueue(ready, CallTask(o)) \/ call[o].state = "running" => o \in ToSet(batch) /\ phase[t] = "tools"
        /\ phase[t] \notin {"tools", "over"} \/ exit[t] = "answer" => call[o].state = "done"
    BY <2>1 DEF CallsHome
  <2>3. CASE o = id
    BY <1>1, <1>2, <2>2, <2>3
  <2>4. CASE o # id
    BY <1>3, <1>11, <2>1, <2>2, <2>4
  <2> QED
    BY <2>3, <2>4
<1> QED
  BY <1>10, <1>16, <1>17, <1>18, <1>20, <1>21, <1>22

LEMMA CallOverKeeps ==
    ASSUME CallsInv, Runs("call"), NEW id, id = Head(ready).call, NEW c, CallFits(c), c.state \in {"done", "raised", "cut"},
           c.cancelled = call[id].cancelled, c.state = "cut" => c.cancelled, CallOver(id, c),
           UNCHANGED <<lock, waiters, phase, stopped, exit, rounds, batches, batch>>
    PROVE  CallsInv'
<1> DEFINE others == \A i \in DOMAIN batch : batch[i] # id => call[batch[i]].state = "done"
           now == c.state \in {"raised", "cut"} \/ others
           mine == settled = "open" /\ id \in ToSet(batch) /\ now
           go == <<Task("batch", id.turn)>>
<1>1. /\ call' = [call EXCEPT ![id] = c]
      /\ settled' = IF ~mine THEN settled ELSE IF c.state = "done" THEN "done" ELSE "raised"
      /\ ~mine => Yields(<<>>, <<>>)
      /\ mine /\ Gathered => Yields(<<>>, go)
      /\ mine /\ ~Gathered => Yields(go, <<>>)
  BY DEF CallOver
<1>2. mine => /\ settled = "open" /\ id \in ToSet(batch)
              /\ c.state = "done" => \A o \in ToSet(batch) : o # id => call[o].state = "done"
  BY DEF ToSet
<1>3. mine /\ ~Gathered => ToSet(batch) = {id}
  <2>1. SUFFICES ASSUME id \in ToSet(batch), ~Gathered PROVE ToSet(batch) = {id}
    OBVIOUS
  <2>2. batch \in Seq(Id)
    BY DEF CallsInv, BatchTyped
  <2>3. Len(batch) \in Nat /\ DOMAIN batch = 1 .. Len(batch) /\ ~(Len(batch) > 1)
    BY <2>1, <2>2 DEF Gathered
  <2>4. \A i, j \in DOMAIN batch : i = j
    BY <2>3
  <2> QED
    BY <2>1, <2>4 DEF ToSet
<1> HIDE DEF mine
<1>4. c.state # "waiting" /\ c.state # "running" /\ go # <<>>
  OBVIOUS
<1>5. CASE ~mine
  BY <1>1, <1>4, <1>5, CallMoves
<1>6. CASE mine /\ Gathered
  <2>1. settled' = (IF c.state = "done" THEN "done" ELSE "raised") /\ Yields(<<>>, go)
    BY <1>1, <1>6
  <2> QED
    BY <1>1, <1>2, <1>4, <1>6, <2>1, CallMoves
<1>7. CASE mine /\ ~Gathered
  <2>1. settled' = (IF c.state = "done" THEN "done" ELSE "raised") /\ Yields(go, <<>>)
    BY <1>1, <1>7
  <2> QED
    BY <1>1, <1>2, <1>3, <1>4, <1>7, <2>1, CallMoves
<1> QED
  BY <1>5, <1>6, <1>7

LEMMA StepCallKeeps ==
    ASSUME CallsInv, StepCall
    PROVE  CallsInv'
<1>1. PICK id : id = Head(ready).call
  OBVIOUS
<1>2. Runs("call") /\ UNCHANGED <<lock, waiters, phase, stopped, exit, rounds, batches, batch>>
  BY DEF StepCall, turnVars
<1>3. /\ id \in DOMAIN call /\ CallFits(call[id]) /\ Undone(id)
  <2>1. ready # <<>> /\ Head(ready) \in LoopTask /\ InQueue(ready, Head(ready)) /\ Head(ready).does = "call"
    BY <1>2, TailQueue DEF CallsInv, QueueTyped, Runs
  <2>2. id \in Id /\ Head(ready) = CallTask(id)
    BY <1>1, <2>1, EntryIs
  <2> QED
    BY <2>1, <2>2 DEF CallsInv, CallsFit
<1>4. PICK d : d = call[id]
  OBVIOUS
<1>5. d \in CallRecord /\ CallFits(d) /\ d.state \in {"waiting", "running"}
  BY <1>3, <1>4 DEF CallFits, Undone
<1>6. ASSUME NEW c, CallOver(id, c), CallFits(c), c.state \in {"done", "raised", "cut"}, c.cancelled = d.cancelled,
             c.state = "cut" => c.cancelled
      PROVE  CallsInv'
  BY <1>1, <1>2, <1>4, <1>6, CallOverKeeps
<1>7. CASE d.cancelled
  <2>1. PICK c : c = [d EXCEPT !.state = "cut"]
    OBVIOUS
  <2>2. CallFits(c) /\ c.state = "cut" /\ c.cancelled = d.cancelled
    BY <1>5, <2>1 DEF CallFits, CallRecord
  <2>3. CallOver(id, c)
    BY <1>1, <1>4, <1>7, <2>1 DEF StepCall
  <2> QED
    BY <1>6, <1>7, <2>2, <2>3
<1>8. CASE ~d.cancelled /\ d.state = "waiting"
  <2>1. EnterCall(id)
    BY <1>1, <1>4, <1>8 DEF StepCall
  <2>2. ASSUME CallOver(id, [d EXCEPT !.state = "done", !.result = "throttled"]) PROVE CallsInv'
    <3>1. PICK c : c = [d EXCEPT !.state = "done", !.result = "throttled"]
      OBVIOUS
    <3>2. CallFits(c) /\ c.state = "done" /\ c.cancelled = d.cancelled
      BY <1>5, <1>8, <3>1 DEF CallFits, CallRecord
    <3> QED
      BY <1>6, <2>2, <3>1, <3>2
  <2>3. ASSUME CallOver(id, [d EXCEPT !.state = "done", !.result = "refused"]) PROVE CallsInv'
    <3>1. PICK c : c = [d EXCEPT !.state = "done", !.result = "refused"]
      OBVIOUS
    <3>2. CallFits(c) /\ c.state = "done" /\ c.cancelled = d.cancelled
      BY <1>5, <1>8, <3>1 DEF CallFits, CallRecord
    <3> QED
      BY <1>6, <2>3, <3>1, <3>2
  <2>4. ASSUME CallOver(id, [d EXCEPT !.state = "raised"]) PROVE CallsInv'
    <3>1. PICK c : c = [d EXCEPT !.state = "raised"]
      OBVIOUS
    <3>2. CallFits(c) /\ c.state = "raised" /\ c.cancelled = d.cancelled
      BY <1>5, <1>8, <3>1 DEF CallFits, CallRecord
    <3> QED
      BY <1>6, <2>4, <3>1, <3>2
  <2>5. ASSUME NEW s \in {"start", "silent"}, call' = [call EXCEPT ![id].state = "running", ![id].shown = s],
               Yields(<<>>, <<>>), UNCHANGED settled 
        PROVE  CallsInv'
    <3>1. PICK c : c = [d EXCEPT !.state = "running", !.shown = s]
      OBVIOUS
    <3>2. CallFits(c) /\ c.state = "running" /\ c.cancelled = d.cancelled
      BY <1>5, <1>8, <3>1 DEF CallFits, CallRecord
    <3>3. call' = [call EXCEPT ![id] = c]
      BY <1>3, <1>4, <2>5, <3>1
    <3> QED
      BY <1>1, <1>2, <1>4, <1>8, <2>5, <3>2, <3>3, CallMoves
  <2>6. \/ CallOver(id, [d EXCEPT !.state = "done", !.result = "throttled"])
        \/ CallOver(id, [d EXCEPT !.state = "done", !.result = "refused"])
        \/ CallOver(id, [d EXCEPT !.state = "raised"])
        \/ \E s \in {"start", "silent"} : 
              call' = [call EXCEPT ![id].state = "running", ![id].shown = s] /\ Yields(<<>>, <<>>) /\ UNCHANGED settled
    BY <1>4, <2>1 DEF EnterCall
  <2> QED
    BY <2>2, <2>3, <2>4, <2>5, <2>6
<1>9. CASE ~d.cancelled /\ d.state = "running"
  <2>1. LeaveCall(id)
    BY <1>1, <1>4, <1>9 DEF StepCall
  <2>2. ASSUME NEW r \in {"ok", "error", "boundary", "escalated"}, EndNotice(id, [d EXCEPT !.result = r])
        PROVE  CallsInv'
    <3>1. PICK e : e = [d EXCEPT !.result = r]
      OBVIOUS
    <3>2. e \in CallRecord /\ e.cancelled = d.cancelled /\ e.result = r
      BY <1>5, <3>1 DEF CallRecord
    <3>3. PICK s : s = IF Notified(e.tool) THEN EndPhase(e.result) ELSE "silent"
      OBVIOUS
    <3>4. s \in {"end", "error", "silent"} /\ (s = "end" => r = "ok")
      BY <3>2, <3>3 DEF EndPhase
    <3>5. ASSUME CallOver(id, [e EXCEPT !.state = "done", !.shown = s]) PROVE CallsInv'
      <4>1. PICK c : c = [e EXCEPT !.state = "done", !.shown = s]
        OBVIOUS
      <4>2. CallFits(c) /\ c.state = "done" /\ c.cancelled = d.cancelled
        BY <3>2, <3>4, <4>1 DEF CallFits, CallRecord
      <4> QED
        BY <1>6, <3>5, <4>1, <4>2
    <3>6. ASSUME CallOver(id, [e EXCEPT !.state = "raised"]) PROVE CallsInv'
      <4>1. PICK c : c = [e EXCEPT !.state = "raised"]
        OBVIOUS
      <4>2. CallFits(c) /\ c.state = "raised" /\ c.cancelled = d.cancelled
        BY <3>2, <4>1 DEF CallFits, CallRecord
      <4> QED
        BY <1>6, <3>6, <4>1, <4>2
    <3> QED
      BY <2>2, <3>1, <3>3, <3>5, <3>6 DEF EndNotice
  <2>3. \E r \in {"ok", "error", "boundary", "escalated"} : EndNotice(id, [d EXCEPT !.result = r])
    <3>1. CASE EndNotice(id, [call[id] EXCEPT !.result = "ok"])
      BY <1>4, <3>1
    <3>2. ASSUME NEW fault \in Faults, 
                 EndNotice(id, [call[id] EXCEPT !.result = Classified(violations[id.turn], fault, call[id].tool)])
          PROVE  \E r \in {"ok", "error", "boundary", "escalated"} : EndNotice(id, [d EXCEPT !.result = r])
      <4>1. PICK r : r = Classified(violations[id.turn], fault, call[id].tool)
        OBVIOUS
      <4>2. r \in {"boundary", "escalated", "error"}
        BY <4>1 DEF Classified
      <4> QED
        BY <1>4, <3>2, <4>1, <4>2
    <3> QED
      BY <2>1, <3>1, <3>2 DEF LeaveCall
  <2> QED
    BY <2>2, <2>3
<1> QED
  BY <1>5, <1>7, <1>8, <1>9

(* A cancellation: every call that is awaited is marked, and queued.       *)
LEMMA StopKeeps ==
    ASSUME CallsInv, NEW t \in Turn, Stop(t)
    PROVE  CallsInv'
<1> USE DEF CallsInv
<1>1. /\ phase[t] \in {"model", "tools"} /\ t \notin stopped /\ stopped' = stopped \cup {t} 
      /\ UNCHANGED <<lock, waiters, phase, exit, rounds, batches, batch, settled>>
  BY DEF Stop, turnVars
<1>2. \A u \in Turn : phase[u] \in {"model", "tools"} => u = t
  BY <1>1 DEF TurnsLined
<1>3. PICK A : A = Awaited(t)
  OBVIOUS
<1>4. A \subseteq ToSet(batch) /\ \A id \in A : settled = "open" /\ Undone(id) /\ phase[t] = "tools" /\ id.turn = t
  <2>1. A \subseteq ToSet(batch) /\ \A id \in A : settled = "open" /\ Undone(id)
    BY <1>3 DEF Awaited
  <2>2. phase[t] # "tools" => ToSet(batch) = {}
    <3>1. phase[t] # "tools" => batch = <<>>
      BY <1>1, <1>2 DEF BatchTyped
    <3> QED
      BY <3>1 DEF ToSet
  <2>3. phase[t] = "tools" => \A id \in ToSet(batch) : id.turn = t
    BY DEF BatchTyped, BatchSound
  <2> QED
    BY <2>1, <2>2, <2>3
<1>5. \A id \in ToSet(batch) : id \in DOMAIN call /\ id \in Id
  BY DEF BatchTyped, CallsFit
<1>6. /\ DOMAIN call' = DOMAIN call
      /\ \A id \in DOMAIN call : call'[id] = IF id \in A THEN [call[id] EXCEPT !.cancelled = TRUE] ELSE call[id]
  BY <1>3 DEF Stop
<1>7. \A id \in DOMAIN call : /\ call'[id].state = call[id].state /\ CallFits(call'[id]) /\ (id \notin A => call'[id] = call[id])
                              /\ id \in A => call'[id].cancelled
  <2> SUFFICES ASSUME NEW id \in DOMAIN call
               PROVE  /\ call'[id].state = call[id].state /\ CallFits(call'[id]) /\ (id \notin A => call'[id] = call[id])
                      /\ id \in A => call'[id].cancelled
    OBVIOUS
  <2>1. CallFits(call[id])
    BY DEF CallsFit
  <2>2. PICK d : d = call[id]
    OBVIOUS
  <2>3. PICK e : e = [d EXCEPT !.cancelled = TRUE]
    OBVIOUS
  <2>4. CallFits(e) /\ e.state = d.state /\ e.cancelled
    BY <2>1, <2>2, <2>3 DEF CallFits, CallRecord
  <2> QED
    BY <1>6, <2>1, <2>2, <2>3, <2>4
<1>8. /\ \A u : Broken(u)' <=> Broken(u)
      /\ \A id \in DOMAIN call : Undone(id)' <=> Undone(id)
  BY <1>6, <1>7 DEF Broken, Undone
<1>9. PICK l : l = (IF phase[t] = "tools" THEN Wakes(t)
                    ELSE IF Queued(Task("reply", t)) THEN <<>> ELSE <<Task("reply", t)>>)
  OBVIOUS
<1>10. /\ l \in Seq(LoopTask) /\ Single(l) /\ \A x : InQueue(l, x) => ~InQueue(ready, x)
       /\ \A x : InQueue(l, x) => \/ x = Task("reply", t) /\ phase[t] = "model"
                                  \/ \E id \in A : x = CallTask(id)
       /\ \A id \in A : InQueue(l, CallTask(id)) \/ InQueue(ready, CallTask(id))
  <2>1. CASE phase[t] = "tools"
    <3>1. l = Wakes(t) /\ batch \in Seq(Id) /\ IsInjective(batch)
      BY <1>9, <2>1 DEF BatchTyped
    <3>2. /\ l \in Seq(LoopTask) /\ Single(l)
          /\ \A x : InQueue(l, x) <=> \E id \in ToSet(batch) : x = CallTask(id) /\ id \in Awaited(t) /\ ~Queued(CallTask(id))
      BY <3>1, WakesAre
    <3> QED
      BY <1>3, <1>4, <3>2, QueuedIs
  <2>2. CASE phase[t] # "tools"
    <3>1. A = {} /\ phase[t] = "model"
      BY <1>1, <1>4, <2>2
    <3>2. Task("reply", t) \in LoopTask
      BY TaskIs DEF TaskKind
    <3>3. CASE Queued(Task("reply", t))
      <4>1. l = <<>>
        BY <1>9, <2>2, <3>3
      <4> QED
        BY <3>1, <4>1, FewTasks
    <3>4. CASE ~Queued(Task("reply", t))
      <4>1. l = <<Task("reply", t)>> /\ ~InQueue(ready, Task("reply", t))
        BY <1>9, <2>2, <3>4, QueuedIs
      <4>2. l \in Seq(LoopTask) /\ Single(l) /\ \A x : InQueue(l, x) <=> x = Task("reply", t)
        BY <3>2, <4>1, FewTasks
      <4> QED
        BY <3>1, <4>1, <4>2
    <3> QED
      BY <3>3, <3>4
  <2> QED
    BY <2>1, <2>2
<1>11. /\ QueueTyped'
       /\ \A x : InQueue(ready', x) <=> InQueue(ready, x) \/ InQueue(l, x)
       /\ \A x, y : ~InQueue(l, x) /\ InFront(ready, x, y) => InFront(ready', x, y)
  <2>1. AddsReady(l) /\ QueueTyped /\ l \in Seq(LoopTask) /\ Single(l)
    BY <1>9, <1>10 DEF Stop
  <2>2. \A x : Lone(x) => ~(InQueue(ready, x) /\ InQueue(l, x))
    BY <1>10
  <2> QED
    BY <2>1, <2>2, AddsIs
<1>12. /\ \A u \in Turn : InQueue(ready', Task("turn", u)) => InQueue(ready, Task("turn", u))
       /\ \A u \in Turn : InQueue(ready', Task("batch", u)) => InQueue(ready, Task("batch", u))
       /\ \A u \in Turn : InQueue(ready', Task("reply", u)) => InQueue(ready, Task("reply", u)) \/ (u = t /\ phase[t] = "model")
       /\ \A id \in Id : InQueue(ready', CallTask(id)) <=> InQueue(ready, CallTask(id)) \/ id \in A
  <2>1. /\ \A u, v : Task("turn", u) # Task("reply", v) /\ Task("batch", u) # Task("reply", v)
                     /\ (Task("reply", u) = Task("reply", v) => u = v)
        /\ \A id, u : CallTask(id) # Task("turn", u) /\ CallTask(id) # Task("batch", u) /\ CallTask(id) # Task("reply", u)
        /\ \A id, o : CallTask(id) = CallTask(o) => id = o
    BY TaskIs
  <2> QED
    BY <1>10, <1>11, <2>1
<1>13. TurnsTyped'
  BY <1>1 DEF TurnsTyped
<1>14. TurnsLined'
  BY <1>1, <1>12 DEF TurnsLined
<1>15. CallsFit'
  <2>1. ASSUME NEW id \in DOMAIN call
        PROVE  /\ CallFits(call'[id]) /\ id.round <= rounds[id.turn] /\ (call'[id].cancelled => id.turn \in stopped')
               /\ InQueue(ready', CallTask(id)) => Undone(id)'
    <3>1. id \in Id
      BY DEF CallsFit
    <3> QED
      BY <1>1, <1>4, <1>7, <1>8, <1>12, <2>1, <3>1 DEF CallsFit
  <2>2. \A id \in Id : InQueue(ready', CallTask(id)) => id \in DOMAIN call
    BY <1>4, <1>5, <1>12 DEF CallsFit
  <2> QED
    BY <1>1, <1>6, <2>1, <2>2 DEF CallsFit
<1>16. ASSUME NEW u \in Turn, phase[u] = "tools" PROVE BatchSound(u)' /\ (~Broken(u) => BatchWhole(u)')
  <2>1. u = t /\ BatchSound(t) /\ (~Broken(t) => BatchWhole(t))
    BY <1>2, <1>16 DEF BatchTyped
  <2>2. \A id : InBatches(batches, id) => id \notin A
    BY <1>4, <2>1 DEF BatchSound
  <2>3. Prepared(batches, t, call', ready')
    <3>1. \A id \in DOMAIN call : id \in Id
      BY DEF CallsFit
    <3>2. \A id : InBatches(batches, id) /\ id \in DOMAIN call => id \in DOMAIN call' /\ call'[id] = call[id]
      BY <1>6, <1>7, <2>2
    <3>3. Prepared(batches, t, call, ready)
      BY <2>1 DEF BatchSound
    <3>4. \A id \in Id : InBatches(batches, id) /\ InQueue(ready', CallTask(id)) => InQueue(ready, CallTask(id))
      BY <1>12, <2>2
    <3> QED
      BY <3>1, <3>2, <3>3, <3>4, PreparedStays
  <2>4. BatchSound(t)'
    BY <1>1, <1>5, <1>7, <2>1, <2>3 DEF BatchSound
  <2>5. ASSUME ~Broken(t) PROVE BatchWhole(t)'
    <3>1. BatchWhole(t)
      BY <2>1, <2>5
    <3>2. settled # "raised"
      BY <1>1, <3>1 DEF BatchWhole
    <3>3. ASSUME NEW id \in ToSet(batch), Undone(id)
          PROVE  call'[id].cancelled /\ InQueue(ready', CallTask(id))
      <4>1. settled # "done"
        BY <2>1, <3>3 DEF BatchSound, Undone
      <4>2. settled = "open"
        BY <3>2, <4>1 DEF BatchTyped
      <4>3. id \in A
        BY <1>3, <3>3, <4>2 DEF Awaited
      <4> QED
        BY <1>5, <1>7, <1>12, <4>3
    <3>4. \A id \in DOMAIN call : id.turn = t => call'[id].state = "done" \/ id \in ToSet(batch) \/ InBatches(batches, id)
      BY <1>7, <3>1 DEF BatchWhole
    <3> QED
      BY <1>1, <1>5, <1>6, <1>8, <3>2, <3>3, <3>4 DEF BatchWhole
  <2> QED
    BY <2>1, <2>4, <2>5
<1>17. BatchTyped'
  BY <1>1, <1>6, <1>8, <1>16 DEF BatchTyped
<1>18. CallsAhead'
  <2> SUFFICES ASSUME NEW id \in Id, ~Broken(id.turn) PROVE InFront(ready', CallTask(id), Task("batch", id.turn))
    BY <1>8 DEF CallsAhead
  <2>1. CASE InQueue(l, CallTask(id))
    <3>1. id \in A
      BY <1>10, <2>1, TaskIs
    <3>2. settled = "open" /\ id.turn \in Turn
      BY <1>4, <3>1
    <3>3. ~InQueue(ready', Task("batch", id.turn))
      BY <1>12, <3>2 DEF TurnsLined
    <3> QED
      BY <3>3, InFrontIs
  <2>2. CASE ~InQueue(l, CallTask(id))
    BY <1>11, <2>2 DEF CallsAhead
  <2> QED
    BY <2>1, <2>2
<1>19. CallsHome'
  <2> SUFFICES ASSUME NEW u \in Turn, ~Broken(u), NEW id \in DOMAIN call, id.turn = u
               PROVE  /\ InQueue(ready', CallTask(id)) \/ call'[id].state = "running" => id \in ToSet(batch) /\ phase[u] = "tools"
                      /\ phase[u] \notin {"tools", "over"} \/ exit[u] = "answer" => call'[id].state = "done"
    BY <1>1, <1>6, <1>8 DEF CallsHome
  <2>1. id \in Id
    BY DEF CallsFit
  <2>2. /\ InQueue(ready, CallTask(id)) \/ call[id].state = "running" => id \in ToSet(batch) /\ phase[u] = "tools"
        /\ phase[u] \notin {"tools", "over"} \/ exit[u] = "answer" => call[id].state = "done"
    BY DEF CallsHome
  <2>3. id \in A => id \in ToSet(batch) /\ phase[u] = "tools"
    BY <1>4
  <2> QED
    BY <1>7, <1>12, <2>1, <2>2, <2>3
<1> QED
  BY <1>11, <1>13, <1>14, <1>15, <1>17, <1>18, <1>19

(* The first of the prepared batches, and its tasks.                       *)
LEMMA FirstBatch ==
    ASSUME NEW B, NEW t, NEW c, NEW r, Prepared(B, t, c, r), B # <<>>, NEW h, h = Head(B), NEW T, T = Tail(B)
    PROVE  /\ h \in Seq(Asked) /\ Ids(h) \in Seq(Id) /\ Ids(h) # <<>> /\ IsInjective(Ids(h)) /\ Prepared(T, t, c, r)
           /\ \A id \in ToSet(Ids(h)) : InBatches(B, id) /\ ~InBatches(T, id)
           /\ \A id : InBatches(B, id) => id \in ToSet(Ids(h)) \/ InBatches(T, id)
           /\ \A id : InBatches(T, id) => InBatches(B, id)
<1>1. PICK V : V = Seq(Asked)
  OBVIOUS
<1>2. B \in Seq(V) /\ Apart(B) /\ \A k \in 1 .. Len(B) : B[k] # <<>>
  BY <1>1 DEF Prepared
<1>3. /\ T \in Seq(V) /\ Len(B) \in Nat \ {0} /\ Len(T) = Len(B) - 1 /\ h = B[1] /\ h \in V
      /\ \A k \in 1 .. Len(T) : T[k] = B[k + 1]
  BY <1>2
<1>4. /\ 1 \in 1 .. Len(B) /\ \A k \in 1 .. Len(T) : k + 1 \in 1 .. Len(B) /\ T[k] = B[k + 1] /\ k + 1 # 1
      /\ \A k \in 1 .. Len(B) : k # 1 => k - 1 \in 1 .. Len(T) /\ (k - 1) + 1 = k
  BY <1>3
<1>5. h \in Seq(Asked) /\ h # <<>> /\ DOMAIN h = 1 .. Len(h) /\ Len(h) \in Nat \ {0} 
  <2>1. h \in Seq(Asked) /\ h # <<>>
    BY <1>1, <1>2, <1>3, <1>4
  <2> QED
    BY <2>1
<1>6. PICK q : q = Ids(h)
  OBVIOUS
<1>7. q \in Seq(Id) /\ Len(q) = Len(h) /\ DOMAIN q = 1 .. Len(h) /\ \A i \in 1 .. Len(h) : q[i] = h[i].id
  <2>1. \A i \in 1 .. Len(h) : h[i].id \in Id
    <3>1. \A i \in 1 .. Len(h) : h[i] \in Asked
      BY <1>5
    <3> QED
      BY <3>1 DEF Asked
  <2>2. q = [i \in 1 .. Len(h) |-> h[i].id]
    BY <1>5, <1>6 DEF Ids
  <2> QED
    BY <1>5, <2>1, <2>2
<1>8. q # <<>>
  BY <1>5, <1>7
<1>9. IsInjective(q)
  <2> SUFFICES ASSUME NEW i \in 1 .. Len(h), NEW j \in 1 .. Len(h), q[i] = q[j] PROVE i = j
    BY <1>7 DEF IsInjective
  <2>1. B[1][i].id = B[1][j].id
    BY <1>3, <1>7
  <2> QED
    BY <1>2, <1>3, <1>4, <2>1 DEF Apart
<1>10. \A id : id \in ToSet(q) <=> \E i \in 1 .. Len(h) : h[i].id = id
  BY <1>7 DEF ToSet
<1>11. ASSUME NEW id, InBatches(T, id) PROVE InBatches(B, id)
  BY <1>4, <1>11 DEF InBatches
<1>12. ASSUME NEW id, InBatches(B, id) PROVE id \in ToSet(q) \/ InBatches(T, id)
  <2>1. PICK k \in 1 .. Len(B) : \E i \in 1 .. Len(B[k]) : B[k][i].id = id
    BY <1>12 DEF InBatches
  <2>2. CASE k = 1
    BY <1>3, <1>10, <2>1, <2>2
  <2>3. CASE k # 1
    BY <1>4, <2>1, <2>3 DEF InBatches
  <2> QED
    BY <2>2, <2>3
<1>13. ASSUME NEW id \in ToSet(q) PROVE InBatches(B, id) /\ ~InBatches(T, id)
  <2>1. PICK i \in 1 .. Len(h) : h[i].id = id
    BY <1>10
  <2>2. InBatches(B, id)
    BY <1>3, <1>4, <2>1 DEF InBatches
  <2>3. ASSUME NEW k \in 1 .. Len(T), NEW j \in 1 .. Len(T[k]), T[k][j].id = id PROVE FALSE
    <3>1. B[1][i].id = B[k + 1][j].id /\ j \in 1 .. Len(B[k + 1]) /\ i \in 1 .. Len(B[1])
      BY <1>3, <1>4, <2>1, <2>3
    <3>2. 1 = k + 1
      BY <1>2, <1>4, <3>1 DEF Apart
    <3> QED
      BY <1>4, <3>2
  <2> QED
    BY <2>2, <2>3 DEF InBatches
<1>14. Apart(T)
  <2> SUFFICES ASSUME NEW k \in 1 .. Len(T), NEW j \in 1 .. Len(T), NEW i \in 1 .. Len(T[k]), NEW m \in 1 .. Len(T[j]),
                      T[k][i].id = T[j][m].id
               PROVE  k = j /\ i = m
    BY DEF Apart
  <2>1. k + 1 = j + 1 /\ i = m
    <3>1. k + 1 \in 1 .. Len(B) /\ T[k] = B[k + 1]
      BY <1>4
    <3>2. j + 1 \in 1 .. Len(B) /\ T[j] = B[j + 1]
      BY <1>4
    <3>3. i \in 1 .. Len(B[k + 1]) /\ m \in 1 .. Len(B[j + 1]) /\ B[k + 1][i].id = B[j + 1][m].id
      BY <3>1, <3>2
    <3>4. Apart(B)
      BY <1>2
    <3> QED
      BY <3>1, <3>2, <3>3, <3>4, Zenon DEF Apart
  <2> QED
    BY <2>1
<1>15. Prepared(T, t, c, r)
  <2>1. T \in Seq(Seq(Asked)) /\ \A k \in 1 .. Len(T) : T[k] # <<>>
    BY <1>1, <1>2, <1>3, <1>4
  <2> QED
    BY <1>11, <1>14, <2>1 DEF Prepared
<1> QED
  BY <1>5, <1>6, <1>7, <1>8, <1>9, <1>11, <1>12, <1>13, <1>15

LEMMA TasksAre ==
    ASSUME NEW h \in Seq(Asked), Ids(h) \in Seq(Id), IsInjective(Ids(h)), NEW k, k = [i \in DOMAIN h |-> CallTask(h[i].id)]
    PROVE  k \in Seq(LoopTask) /\ Single(k) /\ \A x : InQueue(k, x) <=> \E id \in ToSet(Ids(h)) : x = CallTask(id)
<1>1. DOMAIN h = 1 .. Len(h) /\ Len(h) \in Nat /\ \A i \in 1 .. Len(h) : h[i].id \in Id
  <2>1. DOMAIN h = 1 .. Len(h) /\ Len(h) \in Nat /\ \A i \in 1 .. Len(h) : h[i] \in Asked
    OBVIOUS
  <2> QED
    BY <2>1 DEF Asked
<1>2. DOMAIN Ids(h) = 1 .. Len(h) /\ \A i \in 1 .. Len(h) : Ids(h)[i] = h[i].id
  BY <1>1 DEF Ids
<1>3. k \in Seq(LoopTask) /\ Len(k) = Len(h) /\ \A i \in 1 .. Len(h) : k[i] = CallTask(h[i].id)
  <2>1. k = [i \in 1 .. Len(h) |-> CallTask(h[i].id)]
    BY <1>1
  <2>2. \A i \in 1 .. Len(h) : CallTask(h[i].id) \in LoopTask
    BY <1>1, TaskIs
  <2> QED
    BY <1>1, <2>1, <2>2
<1>4. \A i, j \in 1 .. Len(h) : h[i].id = h[j].id => i = j
  BY <1>2 DEF IsInjective
<1>5. Single(k)
  <2> SUFFICES ASSUME NEW i \in 1 .. Len(h), NEW j \in 1 .. Len(h), k[i] = k[j] PROVE i = j
    BY <1>3 DEF Single
  <2>1. h[i].id = h[j].id
    BY <1>3, TaskIs
  <2> QED
    BY <1>4, <2>1
<1>6. ASSUME NEW x PROVE InQueue(k, x) <=> \E id \in ToSet(Ids(h)) : x = CallTask(id)
  BY <1>2, <1>3 DEF InQueue, ToSet
<1> QED
  BY <1>3, <1>5, <1>6

(* The first batch of B is started: a single call at once, several as       *)
(* tasks behind what is queued.                                            *)
LEMMA LaunchKeeps ==
    ASSUME CallsInv, NEW d \in {"reply", "batch"}, Runs(d), NEW t, t = Head(ready).turn, t \notin stopped,
           NEW B, B # <<>>, Prepared(B, t, call', ready), Launches(Head(B)), batches' = Tail(B),
           phase' = [phase EXCEPT ![t] = "tools"], UNCHANGED <<lock, waiters, stopped, exit>>,
           rounds' \in [Turn -> Nat], \A u \in Turn : rounds[u] <= rounds'[u],
           DOMAIN call \subseteq DOMAIN call', \A id \in DOMAIN call : call'[id] = call[id],
           \A id \in DOMAIN call' \ DOMAIN call : 
               id \in Id /\ id.turn = t /\ id.round <= rounds'[t] /\ CallFits(call'[id]) /\ InBatches(B, id),
           \A id \in DOMAIN call : id.turn = t /\ ~Broken(t) => call[id].state = "done" \/ InBatches(B, id)
    PROVE  CallsInv'
<1> USE DEF CallsInv
<1>1. /\ ready # <<>> /\ t \in Turn /\ Head(ready) = Task(d, t) /\ Lone(Head(ready)) 
      /\ phase[t] = (IF d = "reply" THEN "model" ELSE "tools") /\ lock = t
  BY TurnRuns
<1>2. /\ phase' \in [Turn -> {"new", "queued", "waiting", "model", "tools", "over"}] 
      /\ phase'[t] = "tools" /\ \A u \in Turn : u # t => phase'[u] = phase[u] /\ phase[u] \notin {"model", "tools"}
  BY <1>1 DEF TurnsTyped, TurnsLined
<1>3. PICK h : h = Head(B)
  OBVIOUS
<1>4. /\ h \in Seq(Asked) /\ Ids(h) \in Seq(Id) /\ Ids(h) # <<>> /\ IsInjective(Ids(h)) /\ Prepared(batches', t, call', ready)
      /\ \A id \in ToSet(Ids(h)) : InBatches(B, id) /\ ~InBatches(batches', id)
      /\ \A id : InBatches(B, id) => id \in ToSet(Ids(h)) \/ InBatches(batches', id)
      /\ \A id : InBatches(batches', id) => InBatches(B, id)
  BY <1>3, FirstBatch
<1>5. batch' = Ids(h) /\ settled' = "open"
  BY <1>3 DEF Launches
<1>6. \A id : InBatches(B, id) => /\ id \in DOMAIN call' /\ call'[id].state = "waiting" /\ ~call'[id].cancelled
                                  /\ ~InQueue(ready, CallTask(id)) /\ id.turn = t
  BY DEF Prepared
<1>7. DOMAIN call \subseteq Id /\ DOMAIN call' \subseteq Id
  BY DEF CallsFit
<1>8. /\ \A u : Broken(u)' <=> Broken(u)
      /\ \A id \in DOMAIN call : Undone(id)' <=> Undone(id)
      /\ \A id : InBatches(B, id) => Undone(id)'
  <2>1. \A id \in DOMAIN call' : call'[id].state = "raised" => id \in DOMAIN call
    BY <1>6
  <2> QED
    BY <1>6, <2>1 DEF Broken, Undone
<1>9. PICK k : k = [i \in DOMAIN h |-> CallTask(h[i].id)]
  OBVIOUS
<1>10. k \in Seq(LoopTask) /\ Single(k) /\ \A x : InQueue(k, x) <=> \E id \in ToSet(batch') : x = CallTask(id)
  BY <1>4, <1>5, <1>9, TasksAre
<1>11. \E n, l \in {<<>>, k} : Yields(n, l) /\ (n = <<>> \/ l = <<>>) /\ (n = k \/ l = k)
  BY <1>3, <1>9 DEF Launches
<1>12. PICK n \in {<<>>, k}, l \in {<<>>, k} : Yields(n, l) /\ (n = <<>> \/ l = <<>>) /\ (n = k \/ l = k)
  BY <1>11
<1>13. /\ n \in Seq(LoopTask) /\ Single(n) /\ l \in Seq(LoopTask) /\ Single(l)
       /\ \A x : InQueue(n, x) \/ InQueue(l, x) <=> InQueue(k, x)
       /\ \A x : ~InQueue(n, x) \/ ~InQueue(l, x)
  <2>1. <<>> \in Seq(LoopTask) /\ Single(<<>>) /\ \A x : ~InQueue(<<>>, x)
    BY FewTasks
  <2>2. (n = <<>> /\ l = k) \/ (n = k /\ l = <<>>)
    BY <1>12
  <2> QED
    BY <1>10, <2>1, <2>2
<1>14. \A x : InQueue(k, x) => ~InQueue(ready, x) /\ \A dd, u : dd # "call" => x # Task(dd, u)
  BY <1>4, <1>5, <1>6, <1>10, TaskIs
<1>15. /\ QueueTyped'
       /\ \A x : InQueue(ready', x) => InQueue(k, x) \/ (InQueue(ready, x) /\ (Lone(x) => x # Head(ready)))
       /\ \A x : InQueue(k, x) \/ (InQueue(ready, x) /\ x # Head(ready)) => InQueue(ready', x)
       /\ \A x, y : ~InQueue(k, y) /\ ~InQueue(k, x) /\ InFront(ready, x, y) => InFront(ready', x, y)
  <2>1. \A x : Lone(x) => /\ ~(InQueue(n, x) /\ InQueue(l, x))
                          /\ InQueue(n, x) \/ InQueue(l, x) => ~InQueue(ready, x) \/ x = Head(ready)
    BY <1>13, <1>14
  <2>2. QueueTyped /\ n \in Seq(LoopTask) /\ Single(n) /\ l \in Seq(LoopTask) /\ Single(l) /\ Yields(n, l)
    BY <1>12, <1>13
  <2>3. /\ QueueTyped'
        /\ \A x : InQueue(ready', x) => \/ InQueue(n, x) \/ InQueue(l, x) 
                                        \/ InQueue(ready, x) /\ (Lone(x) => x # Head(ready))
        /\ \A x : InQueue(n, x) \/ InQueue(l, x) \/ (InQueue(ready, x) /\ x # Head(ready)) => InQueue(ready', x)
        /\ \A x, y : ~InQueue(n, y) /\ ~InQueue(l, x) /\ InFront(ready, x, y) => InFront(ready', x, y)
    BY <1>1, <2>1, <2>2, YieldsIs
  <2> QED
    BY <1>13, <2>3
<1>16. \A id \in Id : InQueue(ready', CallTask(id)) <=> InQueue(ready, CallTask(id)) \/ id \in ToSet(batch')
  <2>1. \A id \in Id : CallTask(id) # Head(ready) /\ (InQueue(k, CallTask(id)) <=> id \in ToSet(batch'))
    BY <1>1, <1>10, TaskIs
  <2> QED
    BY <1>15, <2>1
<1>17. /\ \A u \in Turn : InQueue(ready', Task("turn", u)) => InQueue(ready, Task("turn", u))
       /\ \A u \in Turn : ~InQueue(ready', Task("reply", u)) /\ ~InQueue(ready', Task("batch", u))
  <2>1. \A e \in {"turn", "reply", "batch"}, u \in Turn : 
           InQueue(ready', Task(e, u)) => InQueue(ready, Task(e, u)) /\ Task(e, u) # Head(ready)
    BY <1>14, <1>15, TaskIs
  <2>2. ASSUME NEW u \in Turn, InQueue(ready', Task("reply", u)) PROVE FALSE
    <3>1. phase[u] = "model" /\ Task("reply", u) # Head(ready)
      BY <2>1, <2>2 DEF TurnsLined
    <3> QED
      BY <1>1, <1>2, <3>1
  <2>3. ASSUME NEW u \in Turn, InQueue(ready', Task("batch", u)) PROVE FALSE
    <3>1. phase[u] = "tools" /\ Task("batch", u) # Head(ready)
      BY <2>1, <2>3 DEF TurnsLined
    <3> QED
      BY <1>1, <1>2, <3>1
  <2> QED
    BY <2>1, <2>2, <2>3
<1>18. TurnsTyped'
  BY <1>2 DEF TurnsTyped
<1>19. TurnsLined'
  <2>1. \A u \in Turn : phase'[u] \in {"model", "tools"} <=> lock' = u
    BY <1>1, <1>2
  <2>2. \A u \in Turn : phase'[u] = "over" <=> exit'[u] # "none"
    BY <1>1, <1>2 DEF TurnsLined
  <2>3. \A u \in ToSet(waiters) : phase'[u] = "waiting"
    <3>1. \A u \in ToSet(waiters) : u \in Turn /\ phase[u] = "waiting" /\ u # t
      BY <1>1, LineIs DEF TurnsTyped, TurnsLined
    <3> QED
      BY <1>2, <3>1
  <2>4. \A u \in Turn : InQueue(ready', Task("turn", u)) => phase'[u] = "queued"
    <3>1. lock # NoTurn
      BY <1>1, TurnAssumption
    <3> QED
      BY <1>1, <1>2, <1>17, <3>1 DEF TurnsLined
  <2> QED
    BY <1>17, <2>1, <2>2, <2>3, <2>4 DEF TurnsLined
<1>20. CallsFit'
  <2>1. ASSUME NEW id \in DOMAIN call'
        PROVE  /\ CallFits(call'[id]) /\ id.round <= rounds'[id.turn] /\ (call'[id].cancelled => id.turn \in stopped)
               /\ InQueue(ready', CallTask(id)) => Undone(id)'
    <3>1. CASE id \in DOMAIN call
      <4>1. CallFits(call[id]) /\ id.round <= rounds[id.turn] /\ (call[id].cancelled => id.turn \in stopped)
            /\ (InQueue(ready, CallTask(id)) => Undone(id))
        BY <3>1 DEF CallsFit
      <4>2. id \in Id /\ id.turn \in Turn /\ id.round \in Nat /\ rounds[id.turn] \in Nat /\ rounds'[id.turn] \in Nat
        <5>1. id \in Id /\ id.turn \in Turn
          BY <1>7, IdIs
        <5>2. id.round \in Nat
          BY <5>1, TurnAssumption DEF Id
        <5>3. rounds[id.turn] \in Nat /\ rounds'[id.turn] \in Nat
          BY <5>1 DEF TurnsTyped
        <5> QED
          BY <5>1, <5>2, <5>3
      <4>3. id.round <= rounds'[id.turn]
        BY <4>1, <4>2
      <4> QED
        BY <1>4, <1>5, <1>8, <1>16, <3>1, <4>1, <4>2, <4>3
    <3>2. CASE id \notin DOMAIN call
      <4>1. id \in Id /\ id.turn = t /\ id.round <= rounds'[t] /\ CallFits(call'[id]) /\ InBatches(B, id)
        BY <2>1, <3>2
      <4> QED
        BY <1>6, <1>8, <4>1
    <3> QED
      BY <3>1, <3>2
  <2>2. ASSUME NEW id \in Id, InQueue(ready', CallTask(id)) PROVE id \in DOMAIN call'
    <3>1. CASE InQueue(ready, CallTask(id))
      BY <3>1 DEF CallsFit
    <3>2. CASE id \in ToSet(batch')
      BY <1>4, <1>5, <1>6, <3>2
    <3> QED
      BY <1>16, <2>2, <3>1, <3>2
  <2> QED
    BY <1>7, <2>1, <2>2 DEF CallsFit
<1>21. Prepared(batches', t, call', ready')
  <2>1. \A id \in Id : InBatches(batches', id) /\ InQueue(ready', CallTask(id)) => InQueue(ready, CallTask(id))
    BY <1>4, <1>5, <1>16
  <2> QED
    BY <1>4, <1>7, <2>1, PreparedStays
<1>22. \A id \in ToSet(batch') : InBatches(B, id) /\ id \in Id
  BY <1>4, <1>5, <1>6, <1>7
<1>23. BatchSound(t)'
  BY <1>4, <1>5, <1>6, <1>21, <1>22 DEF BatchSound
<1>24. ASSUME ~Broken(t) PROVE BatchWhole(t)'
  <2>1. \A id \in DOMAIN call' : id.turn = t => call'[id].state = "done" \/ id \in ToSet(batch') \/ InBatches(batches', id)
    BY <1>4, <1>5, <1>24
  <2>2. \A id \in ToSet(batch') : InQueue(ready', CallTask(id))
    BY <1>16, <1>22
  <2> QED
    BY <1>5, <2>1, <2>2 DEF BatchWhole
<1>25. BatchTyped'
  <2>1. \A u \in Turn : phase'[u] = "tools" => u = t
    BY <1>2
  <2>2. /\ settled' \in {"open", "done", "raised"} /\ batch' \in Seq(Id) /\ IsInjective(batch') 
        /\ ToSet(batch') \subseteq DOMAIN call'
    BY <1>4, <1>5, <1>6, <1>22
  <2> QED
    BY <1>1, <1>2, <1>8, <1>23, <1>24, <2>1, <2>2 DEF BatchTyped
<1>26. CallsAhead'
  <2> SUFFICES ASSUME NEW id \in Id, ~Broken(id.turn) PROVE InFront(ready', CallTask(id), Task("batch", id.turn))
    BY <1>8 DEF CallsAhead
  <2>1. id.turn \in Turn
    BY IdIs
  <2> QED
    BY <1>17, <2>1, InFrontIs
<1>27. CallsHome'
  <2> SUFFICES ASSUME NEW u \in Turn, ~Broken(u), NEW id \in DOMAIN call', id.turn = u
               PROVE  /\ InQueue(ready', CallTask(id)) \/ call'[id].state = "running" => id \in ToSet(batch') /\ phase'[u] = "tools"
                      /\ phase'[u] \notin {"tools", "over"} \/ exit'[u] = "answer" => call'[id].state = "done"
    BY <1>8 DEF CallsHome
  <2>1. id \in Id
    BY <1>7
  <2>2. CASE u = t
    <3>1. call'[id].state = "done" \/ InBatches(B, id)
      BY <2>2
    <3>2. call'[id].state # "running"
      BY <1>6, <3>1
    <3>3. ASSUME InQueue(ready, CallTask(id)) PROVE FALSE
      <4>1. id \in DOMAIN call /\ Undone(id)
        BY <2>1, <3>3 DEF CallsFit
      <4>2. ~InBatches(B, id)
        BY <1>6, <3>3
      <4> QED
        BY <3>1, <4>1, <4>2 DEF Undone
    <3>4. exit[t] = "none"
      BY <1>1 DEF TurnsLined
    <3> QED
      BY <1>2, <1>16, <2>1, <2>2, <3>2, <3>3, <3>4
  <2>3. CASE u # t
    <3>1. id \in DOMAIN call /\ id \notin ToSet(batch') /\ phase'[u] = phase[u] /\ phase[u] # "tools"
      BY <1>2, <1>6, <1>22, <2>3
    <3>2. ~InQueue(ready, CallTask(id)) /\ call[id].state # "running"
      BY <3>1 DEF CallsHome
    <3>3. phase[u] \notin {"tools", "over"} \/ exit[u] = "answer" => call[id].state = "done"
      BY <3>1 DEF CallsHome
    <3> QED
      BY <1>16, <2>1, <3>1, <3>2, <3>3
  <2> QED
    BY <2>2, <2>3
<1> QED
  BY <1>15, <1>18, <1>19, <1>20, <1>25, <1>26, <1>27

(* The answer of the model: an end, or the calls it asks for.              *)
LEMMA AnswerIs ==
    ASSUME CallsInv, Runs("reply"), NEW t, t = Head(ready).turn, t \notin stopped, MayAsk(t), 
           NEW plan \in Plans, AnswerWithCalls(t, plan)
    PROVE  /\ rounds' \in [Turn -> Nat] /\ rounds'[t] = rounds[t] + 1 /\ (\A u \in Turn : rounds[u] <= rounds'[u])
           /\ DOMAIN call \subseteq DOMAIN call' /\ (\A c \in DOMAIN call : call'[c] = call[c])
           /\ \E all : /\ all # <<>> /\ Prepared(all, t, call', ready) /\ Launches(Head(all)) /\ batches' = Tail(all)
                       /\ \A c \in DOMAIN call' \ DOMAIN call :
                             c \in Id /\ c.turn = t /\ c.round <= rounds'[t] /\ CallFits(call'[c]) /\ InBatches(all, c)
<1> USE DEF CallsInv
<1>1. /\ ready # <<>> /\ t \in Turn /\ Head(ready) = Task("reply", t)
      /\ phase[t] = "model" /\ lock = t /\ batches = <<>> /\ batch = <<>> /\ settled = "open"
  BY TurnRuns
<1> DEFINE id(n) == [turn |-> t, round |-> rounds[t] + 1, n |-> n]
           N == Len(plan)
           asked == [n \in DOMAIN plan |-> [tool |-> plan[n], id |-> id(n)]]
           S == {id(n) : n \in DOMAIN plan}
           all == Batches(asked)
           new(c) == [tool |-> plan[c.n], state |-> "waiting", shown |-> "no", result |-> "none", cancelled |-> FALSE]
<1>2. /\ rounds' = [rounds EXCEPT ![t] = @ + 1] /\ phase' = [phase EXCEPT ![t] = "tools"]
      /\ call' = [c \in DOMAIN call \cup S |-> IF c \in DOMAIN call THEN call[c] ELSE new(c)]
      /\ Launches(Head(all)) /\ batches' = Tail(all)
      /\ UNCHANGED <<lock, waiters, stopped, exit>>
  BY DEF AnswerWithCalls
<1>3. /\ N \in Nat \ {0} /\ N <= MaxCalls /\ DOMAIN plan = 1 .. N /\ \A n \in 1 .. N : plan[n] \in ToolName
      /\ MaxCalls \in Nat /\ MaxRounds \in Nat
  <2>1. PICK m \in 1 .. MaxCalls : plan \in [1 .. m -> ToolName]
    BY TurnAssumption
  <2>2. MaxCalls \in Nat /\ MaxRounds \in Nat /\ m \in Nat \ {0} /\ m <= MaxCalls
    BY TurnAssumption
  <2>3. plan \in Seq(ToolName) /\ Len(plan) = m
    BY <2>1, <2>2
  <2> QED
    BY <2>1, <2>2, <2>3
<1>4. rounds[t] \in Nat /\ rounds[t] < MaxRounds /\ \A u \in Turn : rounds[u] \in Nat
  BY <1>1 DEF TurnsTyped, MayAsk
<1>5. \A n \in 1 .. N : id(n) \in Id
  <2>1. \A n \in 1 .. N : n \in 1 .. MaxCalls
    BY <1>3
  <2>2. rounds[t] + 1 \in 1 .. MaxRounds
    BY <1>3, <1>4
  <2> QED
    BY <1>1, <2>1, <2>2 DEF Id
<1>6. asked \in Seq(Asked) /\ Len(asked) = N /\ asked # <<>> /\ \A n \in 1 .. N : asked[n].id = id(n)
  <2>1. asked = [n \in 1 .. N |-> [tool |-> plan[n], id |-> id(n)]]
    BY <1>3
  <2>2. \A n \in 1 .. N : [tool |-> plan[n], id |-> id(n)] \in Asked
    <3> HIDE DEF id
    <3> QED
      BY <1>3, <1>5 DEF Asked
  <2>3. asked \in Seq(Asked) /\ Len(asked) = N
    <3> HIDE DEF asked, id, N
    <3> QED
      BY <1>3, <2>1, <2>2
  <2>4. \A n \in 1 .. N : asked[n].id = id(n)
    BY <2>1
  <2>5. asked # <<>>
    <3> HIDE DEF asked, N
    <3> QED
      BY <1>3, <2>3
  <2> QED
    BY <2>3, <2>4, <2>5
<1>7. \A m, n \in 1 .. N : id(m) = id(n) => m = n
  OBVIOUS
<1> HIDE DEF asked
<1>8. all # <<>> /\ Packed(all, S)
  <2>1. \A i, j \in 1 .. Len(asked) : asked[i].id = asked[j].id => i = j
    <3> HIDE DEF id, N
    <3> QED
      BY <1>6, <1>7
  <2>2. S = {asked[i].id : i \in 1 .. Len(asked)}
    <3> HIDE DEF id, N
    <3> QED
      BY <1>3, <1>6
  <2> HIDE DEF S
  <2> QED
    BY <1>6, <2>1, <2>2, BatchesAre
<1>9. \A c \in S : /\ c \in Id /\ c.turn = t /\ c.round = rounds[t] + 1 /\ c \notin DOMAIN call
                   /\ new(c) \in CallRecord /\ CallFits(new(c)) /\ ~InQueue(ready, CallTask(c))
  <2> SUFFICES ASSUME NEW n \in 1 .. N, NEW c, c = id(n)
               PROVE  /\ c \in Id /\ c.turn = t /\ c.round = rounds[t] + 1 /\ c \notin DOMAIN call
                      /\ new(c) \in CallRecord /\ CallFits(new(c)) /\ ~InQueue(ready, CallTask(c))
    BY <1>3
  <2>1. c \in Id /\ c.turn = t /\ c.round = rounds[t] + 1 /\ c.n = n
    BY <1>5
  <2>2. c \notin DOMAIN call
    <3>1. ASSUME c \in DOMAIN call PROVE c.round <= rounds[t]
      BY <2>1, <3>1 DEF CallsFit
    <3> QED
      BY <1>4, <2>1, <3>1
  <2>3. new(c) \in CallRecord /\ CallFits(new(c))
    BY <1>3, <2>1 DEF CallRecord, CallFits
  <2> QED
    BY <2>1, <2>2, <2>3 DEF CallsFit
<1> HIDE DEF all
<1>10. /\ DOMAIN call' = DOMAIN call \cup S /\ (\A c \in DOMAIN call : call'[c] = call[c])
       /\ \A c \in S : call'[c] = new(c)
  <2> HIDE DEF S, new
  <2> QED
    BY <1>2, <1>9
<1> HIDE DEF S
<1>11. Prepared(all, t, call', ready)
  <2>1. \A c \in S : call'[c].state = "waiting" /\ ~call'[c].cancelled
    BY <1>10
  <2> HIDE DEF new
  <2> QED
    BY <1>8, <1>9, <1>10, <2>1 DEF Prepared, Packed
<1>12. /\ rounds' \in [Turn -> Nat] /\ rounds'[t] = rounds[t] + 1 /\ \A u \in Turn : rounds[u] <= rounds'[u]
  BY <1>1, <1>2, <1>4 DEF TurnsTyped
<1>13. \A c \in DOMAIN call' \ DOMAIN call : 
          c \in Id /\ c.turn = t /\ c.round <= rounds'[t] /\ CallFits(call'[c]) /\ InBatches(all, c)
  <2> SUFFICES ASSUME NEW c \in S
               PROVE  c \in Id /\ c.turn = t /\ c.round <= rounds'[t] /\ CallFits(call'[c]) /\ InBatches(all, c)
    BY <1>10
  <2>1. c \in Id /\ c.turn = t /\ c.round = rounds[t] + 1 /\ CallFits(call'[c])
    BY <1>9, <1>10
  <2>2. InBatches(all, c)
    BY <1>8 DEF Packed
  <2> QED
    BY <1>4, <1>12, <2>1, <2>2
<1>14. DOMAIN call \subseteq DOMAIN call' /\ \A c \in DOMAIN call : call'[c] = call[c]
  BY <1>10
<1> QED
  BY <1>2, <1>8, <1>11, <1>12, <1>13, <1>14

LEMMA AnswerKeeps ==
    ASSUME CallsInv, Runs("reply"), NEW t, t = Head(ready).turn, t \notin stopped, MayAsk(t), 
           NEW plan \in Plans, AnswerWithCalls(t, plan)
    PROVE  CallsInv'
<1>1. t \in Turn /\ phase[t] = "model"
  BY TurnRuns
<1>2. /\ phase' = [phase EXCEPT ![t] = "tools"] /\ UNCHANGED <<lock, waiters, stopped, exit>>
  BY DEF AnswerWithCalls
<1>3. \A c \in DOMAIN call : c.turn = t /\ ~Broken(t) => call[c].state = "done"
  BY <1>1 DEF CallsInv, CallsHome
<1>4. /\ rounds' \in [Turn -> Nat] /\ \A u \in Turn : rounds[u] <= rounds'[u]
      /\ DOMAIN call \subseteq DOMAIN call' /\ \A c \in DOMAIN call : call'[c] = call[c]
  BY AnswerIs
<1>5. PICK all : /\ all # <<>> /\ Prepared(all, t, call', ready) /\ Launches(Head(all)) /\ batches' = Tail(all)
                 /\ \A c \in DOMAIN call' \ DOMAIN call :
                       c \in Id /\ c.turn = t /\ c.round <= rounds'[t] /\ CallFits(call'[c]) /\ InBatches(all, c)
  BY AnswerIs
<1>6. \A c \in DOMAIN call : c.turn = t /\ ~Broken(t) => call[c].state = "done" \/ InBatches(all, c)
  BY <1>3
<1> QED
  BY <1>2, <1>4, <1>5, <1>6, LaunchKeeps

LEMMA ReplyKeeps ==
    ASSUME CallsInv, Reply
    PROVE  CallsInv'
<1>1. PICK t : t = Head(ready).turn
  OBVIOUS
<1>2. Runs("reply")
  BY DEF Reply
<1>3. ASSUME NEW how \in {"answer", "abandoned"}, EndTurn(t, how), UNCHANGED call PROVE CallsInv'
  BY <1>1, <1>2, <1>3, EndTurnKeeps
<1>4. ASSUME t \notin stopped, MayAsk(t), NEW plan \in Plans, AnswerWithCalls(t, plan) PROVE CallsInv'
  BY <1>1, <1>2, <1>4, AnswerKeeps
<1> QED
  BY <1>1, <1>3, <1>4 DEF Reply

(* The end of a batch.                                                     *)
LEMMA BatchOverKeeps ==
    ASSUME CallsInv, BatchOver
    PROVE  CallsInv'
<1>1. PICK t : t = Head(ready).turn
  OBVIOUS
<1>2. Runs("batch")
  BY DEF BatchOver
<1>3. /\ ready # <<>> /\ t \in Turn /\ phase[t] = "tools"
  BY <1>1, <1>2, TurnRuns
<1>4. ASSUME NEW how \in {"error", "abandoned"}, EndTurn(t, how), UNCHANGED call PROVE CallsInv'
  BY <1>1, <1>2, <1>4, EndTurnKeeps
<1>5. ASSUME t \notin stopped, settled = "done", batches # <<>>, Launches(Head(batches)), batches' = Tail(batches),
             UNCHANGED <<lock, waiters, phase, stopped, exit, rounds, call>>
      PROVE  CallsInv'
  <2>1. BatchSound(t) /\ (~Broken(t) => BatchWhole(t)) /\ TurnsTyped
    BY <1>3 DEF CallsInv, BatchTyped
  <2>2. Prepared(batches, t, call', ready)
    BY <1>5, <2>1 DEF BatchSound
  <2>3. phase' = [phase EXCEPT ![t] = "tools"]
    BY <1>3, <1>5, <2>1 DEF TurnsTyped
  <2>4. rounds' \in [Turn -> Nat] /\ \A u \in Turn : rounds[u] <= rounds'[u]
    BY <1>5, <2>1 DEF TurnsTyped
  <2>5. \A id \in DOMAIN call : id.turn = t /\ ~Broken(t) => call[id].state = "done" \/ InBatches(batches, id)
    BY <1>5, <2>1 DEF BatchSound, BatchWhole
  <2>6. DOMAIN call' = DOMAIN call /\ \A id \in DOMAIN call : call'[id] = call[id]
    BY <1>5
  <2> QED
    BY <1>1, <1>2, <1>5, <2>2, <2>3, <2>4, <2>5, <2>6, LaunchKeeps
<1>6. ASSUME settled = "done", batches = <<>>, phase' = [phase EXCEPT ![t] = "model"], batch' = <<>>, settled' = "open", 
             Yields(<<>>, <<>>), UNCHANGED <<lock, waiters, stopped, exit, rounds, batches, call>>
      PROVE  CallsInv'
  BY <1>1, <1>2, <1>6, ResumeKeeps
<1> QED
  BY <1>1, <1>4, <1>5, <1>6 DEF BatchOver, turnVars

LEMMA CallsStill ==
    ASSUME CallsInv, UNCHANGED auditedVars
    PROVE  CallsInv'
<1>1. UNCHANGED <<lock, waiters, phase, stopped, exit, rounds, batches, batch, settled, call, ready>>
  BY DEF auditedVars, loopVars, turnVars, batchVars
<1>2. /\ QueueTyped' /\ \A t \in Turn : InQueue(ready, Task("reply", t)) => phase[t] = "model"
      /\ \A id \in Id : ~Broken(id.turn) => InFront(ready, CallTask(id), Task("batch", id.turn))
  BY <1>1 DEF CallsInv, QueueTyped, TurnsLined, CallsAhead
<1> QED
  BY <1>1, <1>2, QueueStep

LEMMA CallsStep ==
    ASSUME CallsInv, [AuditedNext]_auditedVars
    PROVE  CallsInv'
<1>1. CASE UNCHANGED auditedVars
  BY <1>1, CallsStill
<1>2. CASE LoopStep
  BY <1>2, BeginKeeps, ReplyKeeps, StepCallKeeps, BatchOverKeeps, HooksKeep DEF LoopStep
<1>3. CASE Returns
  BY <1>3, ModelRepliesKeeps, ToolReturnsKeeps DEF Returns
<1>4. CASE \E t \in Turn : Arrive(t) \/ Stop(t)
  BY <1>4, ArriveKeeps, StopKeeps
<1>5. CASE Quiet
  BY <1>5, CallsStill DEF Quiet
<1> QED
  BY <1>1, <1>2, <1>3, <1>4, <1>5 DEF AuditedNext

(* A tool runs only for the turn that holds the user's lock, and a turn     *)
(* that was answered has shown the end of every call it showed the start   *)
(* of (CallsEndWithTurn), for any number of turns, rounds and calls.       *)
THEOREM CallsEnd == AuditedSpec => []CallsEndWithTurn
<1>1. AuditedInit => CallsInv
  BY CallsInit
<1>2. CallsInv /\ [AuditedNext]_auditedVars => CallsInv'
  BY CallsStep
<1>3. CallsInv => CallsEndWithTurn
  BY CallsImplied
<1> QED
  BY <1>1, <1>2, <1>3, PTL DEF AuditedSpec
-----------------------------------------------------------------------------
(* The records of the audit plugin.  Which turn a hook finds in the slot is *)
(* decided by the order of the hook tasks and of the replies of the model.  *)
HookKind == {"reply", "start", "startHook", "emit", "notify", "hook"}
Due(r, d, t) == InQueue(r, Task(d, t))
Ahead(r, d, t, e, u) == InFront(r, Task(d, t), Task(e, u))
Distinct(r) == \A i, j \in 1 .. Len(r) : r[i] = r[j] => i = j

(* A turn is started, in this order: it takes the lock, its started hook    *)
(* becomes a task and then a second one, the model replies.  The started    *)
(* hook of an earlier turn is never behind it.                             *)
StartsInLine ==
    \A t \in Turn :
        /\ Due(ready, "start", t) => phase[t] = "model" /\ ~Due(ready, "startHook", t)
        /\ Due(ready, "startHook", t) => phase[t] \in {"model", "over"}
        /\ Ahead(ready, "start", t, "reply", t)
        /\ Due(ready, "reply", t) /\ t \notin stopped => ~Due(ready, "start", t) /\ ~Due(ready, "startHook", t)
        /\ phase[t] = "tools" => ~Due(ready, "startHook", t)
        /\ Due(ready, "start", t) \/ Due(ready, "startHook", t) => \A id \in DOMAIN call : id.turn # t
        /\ \A s \in Turn : s # t =>
              /\ ~(Due(ready, "startHook", s) /\ Due(ready, "startHook", t))
              /\ Ahead(ready, "startHook", s, "start", t)
              /\ Due(ready, "startHook", s) /\ phase[t] \in {"model", "tools"} => Due(ready, "start", t)

(* A turn is reported once, and one that was not abandoned before any later *)
(* turn is started.                                                        *)
Returned(t) == exit[t] \in {"answer", "error"}
ReportsInLine ==
    \A t \in Turn :
        /\ Due(ready, "emit", t) \/ Due(ready, "notify", t) \/ Due(ready, "hook", t) => phase[t] = "over"
        /\ Due(ready, "emit", t) => exit[t] = "abandoned" /\ ~Due(ready, "notify", t) /\ ~Due(ready, "hook", t)
        /\ ~(Due(ready, "notify", t) /\ Due(ready, "hook", t))
        /\ Returned(t) =>
              \A u \in Turn :
                 /\ Due(ready, "notify", t) => ~Due(ready, "startHook", u)
                 /\ Ahead(ready, "notify", t, "start", u)
                 /\ Ahead(ready, "hook", t, "startHook", u)

(* The slot is that of the turn that runs, once it was started, and of the  *)
(* turn that returned until that is recorded.                              *)
SlotInLine ==
    \A t \in Turn :
        /\ phase[t] \in {"model", "tools"} => Due(ready, "start", t) \/ Due(ready, "startHook", t) \/ slot.trace = t
        /\ Returned(t) /\ (Due(ready, "notify", t) \/ Due(ready, "hook", t)) => slot.trace = t

(* It has the calls of its turn that passed the guards; those without a     *)
(* result are pending.                                                     *)
SlotOf(s, t) ==
    /\ DOMAIN s = {"trace", "spans", "pending"} /\ s.trace = t
    /\ s.spans \in Seq(Id) /\ IsInjective(s.spans) /\ ToSet(s.spans) = Hooked(t)
    /\ s.pending \in Seq(Id) /\ IsInjective(s.pending) /\ ToSet(s.pending) = {id \in Hooked(t) : call[id].result # "ok"}
SlotSound == slot = Empty \/ \E t \in Turn : SlotOf(slot, t)

(* A call that waits in the queue is ahead of the step in which its turn    *)
(* goes on, whatever became of the others.                                 *)
CallsPlaced ==
    /\ \A id \in DOMAIN call : phase[id.turn] \in {"model", "tools", "over"}
    /\ \A id \in DOMAIN call : InQueue(ready, CallTask(id)) /\ call[id].state = "waiting" =>
          /\ phase[id.turn] = "tools" /\ id \in ToSet(batch)
          /\ InFront(ready, CallTask(id), Task("batch", id.turn))

(* A turn one of whose calls was broken by the progress callback is not     *)
(* answered.                                                               *)
BrokenEnds ==
    \A t \in Turn : Broken(t) => \/ phase[t] = "tools" /\ settled = "raised"
                                 \/ phase[t] = "over" /\ exit[t] # "answer"

Roles == {"user", "calls", "tool", "answer"}
WindowsSound ==
    /\ window \in [Turn -> Seq(Roles)]
    /\ \A t \in Turn : phase[t] \in {"model", "tools", "over"} =>
          /\ window[t] # <<>> /\ window[t][1] = "user"
          /\ \A n \in 2 .. Len(window[t]) : window[t][n] # "user"
          /\ exit[t] = "answer" => Len(window[t]) > 1 /\ window[t][Len(window[t])] = "answer"
          /\ \A n \in 2 .. Len(window[t]) : window[t][n] = "answer" => n = Len(window[t]) /\ exit[t] = "answer"
CountsTyped ==
    /\ rounds \in [Turn -> 0 .. MaxRounds]
    /\ lookups \in [Turn -> [ToolName -> Nat]] /\ violations \in [Turn -> [ToolName -> Nat]]

RecordsInLine ==
    /\ \A i \in 1 .. Len(records) :
          /\ records[i].turn \in Turn /\ phase[records[i].turn] = "over"
          /\ ~Due(ready, "emit", records[i].turn) /\ ~Due(ready, "notify", records[i].turn)
          /\ ~Due(ready, "hook", records[i].turn)
    /\ \A i, j \in 1 .. Len(records) : i # j => records[i].turn # records[j].turn
RecordOf == [turn : Turn, exit : {"none", "answer", "error", "abandoned"}, rounds : Nat, spans : Seq(Id),
             interrupted : Seq(Id), inputs : Nat, outputs : Nat]
RecordsRight ==
    /\ records \in Seq(RecordOf)
    /\ \A i \in 1 .. Len(records) : /\ RecordSound(records[i])
                                    /\ ToSet(records[i].interrupted) \subseteq ToSet(records[i].spans)

AuditInv ==
    /\ Distinct(ready) /\ StartsInLine /\ ReportsInLine /\ SlotInLine /\ SlotSound /\ CallsPlaced /\ BrokenEnds
    /\ WindowsSound /\ CountsTyped /\ RecordsInLine /\ RecordsRight

-----------------------------------------------------------------------------
(* What a step does to the queue, the hook tasks included.                 *)
LEMMA JoinedApart ==
    ASSUME NEW n \in Seq(LoopTask), NEW s \in Seq(LoopTask), NEW l \in Seq(LoopTask),
           Distinct(n), Distinct(s), Distinct(l),
           \A x : /\ ~(InQueue(n, x) /\ InQueue(s, x))
                  /\ ~(InQueue(n, x) /\ InQueue(l, x))
                  /\ ~(InQueue(s, x) /\ InQueue(l, x)),
           NEW q, q = n \o s \o l
    PROVE  Distinct(q)
<1> DEFINE N == Len(n)
           S == Len(s)
           L == Len(l)
<1>1. /\ q \in Seq(LoopTask) /\ N \in Nat /\ S \in Nat /\ L \in Nat /\ Len(q) = N + S + L
      /\ \A i \in 1 .. N : q[i] = n[i]
      /\ \A i \in 1 .. S : q[N + i] = s[i]
      /\ \A i \in 1 .. L : q[N + S + i] = l[i]
  <2> HIDE DEF N, S, L
  <2> QED
    BY ThreeParts DEF N, S, L
<1>2. \A k \in 1 .. Len(q) : \/ k \in 1 .. N
                             \/ k - N \in 1 .. S /\ k = N + (k - N)
                             \/ k - (N + S) \in 1 .. L /\ k = N + S + (k - (N + S))
  <2> DEFINE Q == Len(q)
  <2>1. N \in Nat /\ S \in Nat /\ L \in Nat /\ Q = N + S + L
    BY <1>1
  <2> HIDE DEF N, S, L, Q
  <2>2. \A k \in 1 .. Q : \/ k \in 1 .. N
                          \/ k - N \in 1 .. S /\ k = N + (k - N)
                          \/ k - (N + S) \in 1 .. L /\ k = N + S + (k - (N + S))
    BY <2>1
  <2> QED
    BY <2>2 DEF Q
<1> SUFFICES ASSUME NEW i \in 1 .. Len(q), NEW j \in 1 .. Len(q), q[i] = q[j] PROVE i = j
  BY DEF Distinct
<1>3. \A k \in 1 .. N : InQueue(n, n[k])
  BY DEF InQueue
<1>4. \A k \in 1 .. S : InQueue(s, s[k])
  BY DEF InQueue
<1>5. \A k \in 1 .. L : InQueue(l, l[k])
  BY DEF InQueue
<1>6. CASE i \in 1 .. N
  <2>1. j \in 1 .. N
    BY <1>1, <1>2, <1>3, <1>4, <1>5, <1>6
  <2> QED
    BY <1>1, <1>6, <2>1 DEF Distinct
<1>7. CASE i - N \in 1 .. S /\ i = N + (i - N)
  <2>1. j - N \in 1 .. S /\ j = N + (j - N)
    <3>1. InQueue(s, q[j])
      BY <1>1, <1>4, <1>7
    <3>2. j \in 1 .. N => InQueue(n, q[j])
      BY <1>1, <1>3
    <3>3. j - (N + S) \in 1 .. L /\ j = N + S + (j - (N + S)) => InQueue(l, q[j])
      BY <1>1, <1>5
    <3>4. ~InQueue(n, q[j]) /\ ~InQueue(l, q[j])
      BY <3>1
    <3> QED
      BY <1>2, <3>2, <3>3, <3>4
  <2>2. i - N = j - N
    <3>1. q[i] = s[i - N] /\ q[j] = s[j - N]
      BY <1>1, <1>7, <2>1
    <3> QED
      BY <1>7, <2>1, <3>1 DEF Distinct
  <2> HIDE DEF N, S
  <2> QED
    BY <1>7, <2>1, <2>2
<1>8. CASE i - (N + S) \in 1 .. L /\ i = N + S + (i - (N + S))
  <2>1. j - (N + S) \in 1 .. L /\ j = N + S + (j - (N + S))
    <3>1. InQueue(l, q[j])
      BY <1>1, <1>5, <1>8
    <3>2. j \in 1 .. N => InQueue(n, q[j])
      BY <1>1, <1>3
    <3>3. j - N \in 1 .. S /\ j = N + (j - N) => InQueue(s, q[j])
      BY <1>1, <1>4
    <3>4. ~InQueue(n, q[j]) /\ ~InQueue(s, q[j])
      BY <3>1
    <3> QED
      BY <1>2, <3>2, <3>3, <3>4
  <2>2. i - (N + S) = j - (N + S)
    <3>1. q[i] = l[i - (N + S)] /\ q[j] = l[j - (N + S)]
      BY <1>1, <1>8, <2>1
    <3>2. ASSUME NEW a \in 1 .. L, NEW b \in 1 .. L, l[a] = l[b] PROVE a = b
      BY <3>2 DEF Distinct
    <3> HIDE DEF N, S, L
    <3> QED
      BY <1>8, <2>1, <3>1, <3>2
  <2> HIDE DEF N, S, L
  <2> QED
    BY <1>8, <2>1, <2>2
<1> QED
  BY <1>2, <1>6, <1>7, <1>8

LEMMA TailApart ==
    ASSUME NEW r \in Seq(LoopTask), r # <<>>, Distinct(r), NEW s, s = Tail(r)
    PROVE  /\ s \in Seq(LoopTask) /\ Distinct(s)
           /\ \A x : InQueue(s, x) <=> InQueue(r, x) /\ x # Head(r)
           /\ \A x, y : InFront(r, x, y) => InFront(s, x, y)
<1>1. /\ s \in Seq(LoopTask) /\ Len(r) \in Nat \ {0} /\ Len(s) = Len(r) - 1 /\ Head(r) = r[1]
      /\ \A i \in 1 .. Len(s) : s[i] = r[i + 1]
  OBVIOUS
<1>2. \A i \in 1 .. Len(s) : i + 1 \in 1 .. Len(r) /\ s[i] = r[i + 1] /\ i + 1 # 1
  BY <1>1
<1>3. \A k \in 1 .. Len(r) : k = 1 \/ (k - 1 \in 1 .. Len(s) /\ r[k] = s[k - 1])
  BY <1>1
<1>4. Distinct(s)
  <2> SUFFICES ASSUME NEW i \in 1 .. Len(s), NEW j \in 1 .. Len(s), s[i] = s[j] PROVE i = j
    BY DEF Distinct
  <2>1. i + 1 = j + 1
    BY <1>2 DEF Distinct
  <2> QED
    BY <2>1
<1>5. ASSUME NEW x, InQueue(s, x) PROVE InQueue(r, x) /\ x # Head(r)
  <2>1. PICK i \in 1 .. Len(s) : s[i] = x
    BY <1>5 DEF InQueue
  <2>2. 1 \in 1 .. Len(r)
    BY <1>1
  <2> QED
    BY <1>1, <1>2, <2>1, <2>2 DEF InQueue, Distinct
<1>6. ASSUME NEW x, InQueue(r, x), x # Head(r) PROVE InQueue(s, x)
  BY <1>1, <1>3, <1>6 DEF InQueue
<1>7. ASSUME NEW x, NEW y, InFront(r, x, y) PROVE InFront(s, x, y)
  <2> SUFFICES ASSUME NEW i \in 1 .. Len(s), NEW j \in 1 .. Len(s), s[i] = x, s[j] = y PROVE i < j
    BY DEF InFront
  <2>1. i + 1 < j + 1
    BY <1>2, <1>7 DEF InFront
  <2> QED
    BY <2>1
<1> QED
  BY <1>1, <1>4, <1>5, <1>6, <1>7

(* The queue after a step: some tasks are new, and what was in front of     *)
(* another task still is, unless it is new, or the other runs next.        *)
Reordered(front, back, gone) ==
    /\ Distinct(ready')
    /\ \A x : InQueue(ready', x) <=> x \in front \/ x \in back \/ (InQueue(ready, x) /\ x \notin gone)
    /\ \A x, y : y \notin front /\ x \notin back /\ InFront(ready, x, y) => InFront(ready', x, y)

(* What stays of the order when tasks are put in front and behind.         *)
Joined(q, n, s, l) ==
    /\ \A x : InQueue(q, x) <=> InQueue(n, x) \/ InQueue(s, x) \/ InQueue(l, x)
    /\ \A x, y : ~InQueue(n, y) /\ ~InQueue(l, x) /\ InFront(s, x, y) => InFront(q, x, y)

LEMMA JoinedIs ==
    ASSUME NEW n \in Seq(LoopTask), NEW s \in Seq(LoopTask), NEW l \in Seq(LoopTask), Single(n), Single(s), Single(l),
           Strange(n, s, l), NEW q, q = n \o s \o l
    PROVE  Joined(q, n, s, l)
  BY JoinedQueue DEF Joined

LEMMA YieldsApart ==
    ASSUME QueueTyped, Distinct(ready), ready # <<>>, NEW n \in Seq(LoopTask), NEW l \in Seq(LoopTask), Yields(n, l),
           Distinct(n), Distinct(l), NEW F, NEW B, (\A x : InQueue(n, x) <=> x \in F), (\A x : InQueue(l, x) <=> x \in B),
           \A x : /\ ~(x \in F /\ x \in B)
                  /\ x \in F \/ x \in B => ~InQueue(ready, x) \/ x = Head(ready)
    PROVE  Reordered(F, B, {Head(ready)})
<1>1. PICK s : s = Tail(ready)
  OBVIOUS
<1>2. ready' = n \o s \o l
  BY <1>1 DEF Yields
<1>3. /\ s \in Seq(LoopTask) /\ Distinct(s) /\ Single(s)
      /\ \A x : InQueue(s, x) <=> InQueue(ready, x) /\ x # Head(ready)
      /\ \A x, y : InFront(ready, x, y) => InFront(s, x, y)
  BY <1>1, TailApart, TailQueue DEF QueueTyped
<1>4. Strange(n, s, l) /\ Single(n) /\ Single(l)
  BY <1>3 DEF Strange, Single, Distinct
<1>5. PICK q : q = n \o s \o l
  OBVIOUS
<1>6. /\ \A x : InQueue(q, x) <=> InQueue(n, x) \/ InQueue(s, x) \/ InQueue(l, x)
      /\ \A x, y : ~InQueue(n, y) /\ ~InQueue(l, x) /\ InFront(s, x, y) => InFront(q, x, y)
  <2>1. s \in Seq(LoopTask) /\ Single(s)
    BY <1>3
  <2>2. Strange(n, s, l) /\ Single(n) /\ Single(l) /\ q = n \o s \o l
    BY <1>4, <1>5
  <2>3. Joined(q, n, s, l)
    BY <2>1, <2>2, JoinedIs
  <2> QED
    BY <2>3 DEF Joined
<1>7. Distinct(q)
  <2>1. s \in Seq(LoopTask) /\ Distinct(s)
    BY <1>3
  <2> QED
    BY <1>3, <1>5, <2>1, JoinedApart
<1>8. ready' = q
  BY <1>2, <1>5
<1> QED
  BY <1>3, <1>6, <1>7, <1>8 DEF Reordered

LEMMA AddsApart ==
    ASSUME QueueTyped, Distinct(ready), NEW l \in Seq(LoopTask), AddsReady(l), Distinct(l),
           NEW B, (\A x : InQueue(l, x) <=> x \in B), \A x : ~(InQueue(ready, x) /\ x \in B)
    PROVE  Reordered({}, B, {})
<1>1. ready' = <<>> \o ready \o l
  BY DEF AddsReady, QueueTyped
<1>2. PICK q : q = <<>> \o ready \o l
  OBVIOUS
<1>3. PICK n : n = <<>>
  OBVIOUS
<1>4. n \in Seq(LoopTask) /\ Single(n) /\ Distinct(n) /\ \A y : ~InQueue(n, y)
  BY <1>3, FewTasks DEF Distinct
<1>5. Strange(n, ready, l) /\ Single(l) /\ ready \in Seq(LoopTask) /\ Single(ready)
  BY <1>4 DEF Strange, Single, Distinct, QueueTyped
<1>6. /\ \A x : InQueue(q, x) <=> InQueue(n, x) \/ InQueue(ready, x) \/ InQueue(l, x)
      /\ \A x, y : ~InQueue(n, y) /\ ~InQueue(l, x) /\ InFront(ready, x, y) => InFront(q, x, y)
  <2>1. q = n \o ready \o l
    BY <1>2, <1>3
  <2>2. Joined(q, n, ready, l)
    BY <1>4, <1>5, <2>1, JoinedIs
  <2> QED
    BY <2>2 DEF Joined
<1>7. Distinct(q)
  <2>1. q = n \o ready \o l
    BY <1>2, <1>3
  <2> QED
    BY <1>4, <1>5, <2>1, JoinedApart
<1>8. ready' = q
  BY <1>1, <1>2
<1> QED
  BY <1>3, <1>4, <1>6, <1>7, <1>8 DEF Reordered

(* The hook tasks and the replies after a step: g ran, a is new.            *)
NoHook == <<"none", NoTurn>>
Shifts(g, a) ==
    /\ Distinct(ready')
    /\ \A d \in HookKind, t \in Turn : Due(ready', d, t) <=> (Due(ready, d, t) /\ <<d, t>> # g) \/ <<d, t>> = a
    /\ \A d \in HookKind, e \in HookKind, t \in Turn, u \in Turn :
          <<d, t>> # a /\ Ahead(ready, d, t, e, u) => Ahead(ready', d, t, e, u)
KeepsCalls ==
    \A id \in Id : /\ InQueue(ready', CallTask(id)) => InQueue(ready, CallTask(id))
                   /\ \A t \in Turn : InFront(ready, CallTask(id), Task("batch", t)) => InFront(ready', CallTask(id), Task("batch", t))

LEMMA HookTasks ==
    /\ \A d \in HookKind : d \in TaskKind /\ d # "turn" /\ d # "batch" /\ d # "call"
    /\ \A d \in TaskKind : d # "call"
    /\ "turn" \in TaskKind /\ "batch" \in TaskKind
  BY DEF HookKind, TaskKind

LEMMA ShiftIs ==
    ASSUME NEW F, NEW B, NEW gone, Reordered(F, B, gone), NEW g, NEW a,
           \A d \in HookKind, t \in Turn :
              /\ Task(d, t) \notin F
              /\ Task(d, t) \in B <=> <<d, t>> = a
              /\ Task(d, t) \in gone <=> <<d, t>> = g
    PROVE  Shifts(g, a)
<1>1. Distinct(ready')
  BY DEF Reordered
<1>2. \A d \in HookKind, t \in Turn : Due(ready', d, t) <=> (Due(ready, d, t) /\ <<d, t>> # g) \/ <<d, t>> = a
  BY DEF Reordered, Due
<1>3. ASSUME NEW d \in HookKind, NEW e \in HookKind, NEW t \in Turn, NEW u \in Turn, <<d, t>> # a, Ahead(ready, d, t, e, u)
      PROVE  Ahead(ready', d, t, e, u)
  BY <1>3 DEF Reordered, Ahead
<1> QED
  BY <1>1, <1>2, <1>3 DEF Shifts

(* One task is added, or runs and makes one task ready or none.             *)
LEMMA OneAdded ==
    ASSUME QueueTyped, Distinct(ready), NEW x \in LoopTask, AddsReady(<<x>>), ~InQueue(ready, x)
    PROVE  Reordered({}, {x}, {})
<1>1. PICK l : l = <<x>>
  OBVIOUS
<1>2. l \in Seq(LoopTask) /\ AddsReady(l) /\ Distinct(l) /\ \A y : InQueue(l, y) <=> y \in {x}
  <2>1. l \in Seq(LoopTask) /\ \A y : InQueue(l, y) <=> y = x
    BY <1>1, FewTasks
  <2>2. Distinct(l)
    BY <1>1 DEF Distinct
  <2> QED
    BY <1>1, <2>1, <2>2
<1> QED
  BY <1>2, AddsApart

LEMMA OneYielded ==
    ASSUME QueueTyped, Distinct(ready), ready # <<>>, NEW l, NEW B, Yields(<<>>, l),
           (l = <<>> /\ B = {}) \/ \E x \in LoopTask : l = <<x>> /\ B = {x} /\ (InQueue(ready, x) => x = Head(ready))
    PROVE  Reordered({}, B, {Head(ready)})
<1>1. PICK n : n = <<>>
  OBVIOUS
<1>2. n \in Seq(LoopTask) /\ Distinct(n) /\ (\A y : InQueue(n, y) <=> y \in {}) /\ Yields(n, l)
  BY <1>1, FewTasks DEF Distinct
<1>3. l \in Seq(LoopTask) /\ Distinct(l) /\ \A y : InQueue(l, y) <=> y \in B
  <2>1. CASE l = <<>> /\ B = {}
    BY <1>1, <1>2, <2>1
  <2>2. ASSUME NEW x \in LoopTask, l = <<x>>, B = {x} PROVE l \in Seq(LoopTask) /\ Distinct(l) /\ \A y : InQueue(l, y) <=> y \in B
    <3>1. l \in Seq(LoopTask) /\ \A y : InQueue(l, y) <=> y = x
      BY <2>2, FewTasks
    <3>2. Distinct(l)
      BY <2>2 DEF Distinct
    <3> QED
      BY <2>2, <3>1, <3>2
  <2> QED
    BY <2>1, <2>2
<1>4. \A y : y \in B => ~InQueue(ready, y) \/ y = Head(ready)
  OBVIOUS
<1>5. PICK F : F = {}
  OBVIOUS
<1>6. /\ \A y : InQueue(n, y) <=> y \in F
      /\ \A y : ~(y \in F /\ y \in B) /\ (y \in F \/ y \in B => ~InQueue(ready, y) \/ y = Head(ready))
  BY <1>2, <1>4, <1>5
<1>7. Reordered(F, B, {Head(ready)})
  BY <1>2, <1>3, <1>6, YieldsApart
<1> QED
  BY <1>5, <1>7

LEMMA CallsKeptIs ==
    ASSUME NEW F, NEW B, NEW gone, Reordered(F, B, gone),
           \A id \in Id : CallTask(id) \notin F /\ CallTask(id) \notin B,
           \A t \in Turn : Task("batch", t) \notin F
    PROVE  KeepsCalls
  BY DEF Reordered, KeepsCalls

(* Steps that add no hook task, and change no turn that was begun but for   *)
(* one whose batch is over.                                                *)
PhasesHold ==
    \A t \in Turn : \/ phase'[t] = phase[t]
                    \/ phase[t] = "tools" /\ phase'[t] = "model"
                    \/ phase[t] \notin {"model", "tools", "over"} /\ phase'[t] \notin {"model", "tools", "over"}

LEMMA HooksHold ==
    ASSUME StartsInLine, ReportsInLine, SlotInLine, RecordsInLine, NEW g, g = NoHook \/ \E t \in Turn : g = <<"reply", t>>,
           Shifts(g, NoHook), PhasesHold, stopped \subseteq stopped', UNCHANGED <<exit, records>>,
           slot'.trace = slot.trace, DOMAIN call' = DOMAIN call
    PROVE  StartsInLine' /\ ReportsInLine' /\ SlotInLine' /\ RecordsInLine'
<1>1. /\ \A d \in HookKind, t \in Turn : Due(ready', d, t) => Due(ready, d, t)
      /\ \A d \in HookKind \ {"reply"}, t \in Turn : Due(ready, d, t) => Due(ready', d, t)
      /\ \A d \in HookKind, e \in HookKind, t \in Turn, u \in Turn : Ahead(ready, d, t, e, u) => Ahead(ready', d, t, e, u)
  <2>1. \A d \in HookKind, t \in Turn : <<d, t>> # NoHook /\ (d # "reply" => <<d, t>> # g)
    BY DEF NoHook, HookKind
  <2> QED
    BY <2>1 DEF Shifts
<1>2. "reply" \in HookKind /\ {"start", "startHook", "emit", "notify", "hook"} \subseteq HookKind \ {"reply"}
  BY DEF HookKind
<1>3. StartsInLine'
  <2> SUFFICES ASSUME NEW t \in Turn
               PROVE /\ Due(ready', "start", t) => phase'[t] = "model" /\ ~Due(ready', "startHook", t)
                     /\ Due(ready', "startHook", t) => phase'[t] \in {"model", "over"}
                     /\ Ahead(ready', "start", t, "reply", t)
                     /\ Due(ready', "reply", t) /\ t \notin stopped' => ~Due(ready', "start", t) /\ ~Due(ready', "startHook", t)
                     /\ phase'[t] = "tools" => ~Due(ready', "startHook", t)
                     /\ Due(ready', "start", t) \/ Due(ready', "startHook", t) => \A id \in DOMAIN call' : id.turn # t
                     /\ \A s \in Turn : s # t =>
                           /\ ~(Due(ready', "startHook", s) /\ Due(ready', "startHook", t))
                           /\ Ahead(ready', "startHook", s, "start", t)
                           /\ Due(ready', "startHook", s) /\ phase'[t] \in {"model", "tools"} => Due(ready', "start", t)
    BY DEF StartsInLine
  <2> QED
    BY <1>1, <1>2 DEF StartsInLine, PhasesHold
<1>4. ReportsInLine'
  <2> SUFFICES ASSUME NEW t \in Turn
               PROVE /\ Due(ready', "emit", t) \/ Due(ready', "notify", t) \/ Due(ready', "hook", t) => phase'[t] = "over"
                     /\ Due(ready', "emit", t) => exit'[t] = "abandoned" /\ ~Due(ready', "notify", t) /\ ~Due(ready', "hook", t)
                     /\ ~(Due(ready', "notify", t) /\ Due(ready', "hook", t))
                     /\ Returned(t)' => \A u \in Turn : /\ Due(ready', "notify", t) => ~Due(ready', "startHook", u)
                                                        /\ Ahead(ready', "notify", t, "start", u)
                                                        /\ Ahead(ready', "hook", t, "startHook", u)
    BY DEF ReportsInLine
  <2> QED
    BY <1>1, <1>2 DEF ReportsInLine, PhasesHold, Returned
<1>5. SlotInLine'
  <2> SUFFICES ASSUME NEW t \in Turn
               PROVE /\ phase'[t] \in {"model", "tools"} => Due(ready', "start", t) \/ Due(ready', "startHook", t) \/ slot'.trace = t
                     /\ Returned(t)' /\ (Due(ready', "notify", t) \/ Due(ready', "hook", t)) => slot'.trace = t
    BY DEF SlotInLine
  <2> QED
    BY <1>1, <1>2 DEF SlotInLine, PhasesHold, Returned
<1>6. RecordsInLine'
  <2>1. ASSUME NEW i \in 1 .. Len(records)
        PROVE /\ records[i].turn \in Turn /\ phase'[records[i].turn] = "over"
              /\ ~Due(ready', "emit", records[i].turn) /\ ~Due(ready', "notify", records[i].turn)
              /\ ~Due(ready', "hook", records[i].turn)
    BY <1>1, <1>2, <2>1 DEF RecordsInLine, PhasesHold
  <2> QED
    BY <2>1 DEF RecordsInLine
<1> QED
  BY <1>3, <1>4, <1>5, <1>6

(* What stands of the calls a record or the slot names.                    *)
HookedHold == \A t \in Turn : /\ Hooked(t)' = Hooked(t)
                              /\ \A id \in Hooked(t) : call'[id].result = "ok" <=> call[id].result = "ok"
Onward ==
    \A t \in Turn : phase[t] = "over" =>
        /\ exit'[t] = exit[t] /\ Hooked(t)' = Hooked(t)
        /\ \A id \in Hooked(t) : call[id].result # "none" => call'[id].result = call[id].result

LEMMA SameCalls ==
    ASSUME UNCHANGED call, \A t \in Turn : phase[t] = "over" => exit'[t] = exit[t]
    PROVE  HookedHold /\ Onward
  BY DEF HookedHold, Onward, Hooked

LEMMA SlotStands ==
    ASSUME SlotSound, UNCHANGED slot, HookedHold
    PROVE  SlotSound'
<1>1. CASE slot = Empty
  BY <1>1 DEF SlotSound, Empty, NewTurn
<1>2. ASSUME NEW t \in Turn, SlotOf(slot, t) PROVE SlotSound'
  <2>1. Hooked(t)' = Hooked(t) /\ \A id \in Hooked(t) : call'[id].result = "ok" <=> call[id].result = "ok"
    BY DEF HookedHold
  <2>2. {id \in Hooked(t) : call[id].result # "ok"} = {id \in Hooked(t)' : call'[id].result # "ok"}
    BY <2>1
  <2>3. SlotOf(slot, t)'
    BY <1>2, <2>1, <2>2 DEF SlotOf
  <2> QED
    BY <2>3 DEF SlotSound
<1> QED
  BY <1>1, <1>2 DEF SlotSound

LEMMA RecordsStand ==
    ASSUME RecordsRight, RecordsInLine, UNCHANGED records, Onward
    PROVE  RecordsRight'
<1> SUFFICES ASSUME NEW i \in 1 .. Len(records) PROVE RecordSound(records[i])'
  BY DEF RecordsRight
<1>1. PICK r : r = records[i]
  OBVIOUS
<1>2. RecordSound(r) /\ ToSet(r.interrupted) \subseteq ToSet(r.spans) /\ r.turn \in Turn /\ phase[r.turn] = "over"
  BY <1>1 DEF RecordsRight, RecordsInLine
<1>3. PICK t \in Turn : t = r.turn
  BY <1>2
<1>4. /\ exit'[t] = exit[t] /\ Hooked(t)' = Hooked(t)
      /\ \A id \in Hooked(t) : call[id].result # "none" => call'[id].result = call[id].result
  BY <1>2, <1>3 DEF Onward
<1>5. /\ ToSet(r.spans) \subseteq Hooked(t) /\ Len(r.spans) = Cardinality(ToSet(r.spans)) /\ r.exit = exit[t]
      /\ \A id \in ToSet(r.spans) \ ToSet(r.interrupted) : call[id].result = "ok"
      /\ r.exit # "abandoned" => ToSet(r.spans) = Hooked(t)
      /\ r.exit = "answer" => /\ r.outputs = 1 /\ r.inputs = 1
                              /\ \A id \in ToSet(r.interrupted) : call[id].result \notin {"ok", "none"}
  BY <1>2, <1>3, Zenon DEF RecordSound
<1>6. /\ \A id \in ToSet(r.spans) \ ToSet(r.interrupted) : call'[id].result = "ok"
      /\ r.exit = "answer" => \A id \in ToSet(r.interrupted) : call'[id].result \notin {"ok", "none"}
  BY <1>2, <1>4, <1>5
<1>7. /\ ToSet(r.spans) \subseteq Hooked(t)' /\ r.exit = exit'[t]
      /\ r.exit # "abandoned" => ToSet(r.spans) = Hooked(t)'
  BY <1>4, <1>5
<1>8. RecordSound(r)'
  BY <1>1, <1>3, <1>5, <1>6, <1>7, Zenon DEF RecordSound
<1> QED
  BY <1>1, <1>8 DEF RecordSound

-----------------------------------------------------------------------------
(* The steps, one by one: those that touch neither calls nor records.      *)
LEMMA WindowsHold ==
    ASSUME WindowsSound, CountsTyped, UNCHANGED <<window, rounds, exit, lookups, violations>>, PhasesHold
    PROVE  WindowsSound' /\ CountsTyped'
<1>1. \A t \in Turn : phase'[t] \in {"model", "tools", "over"} => phase[t] \in {"model", "tools", "over"}
  BY DEF PhasesHold
<1>2. window' = window /\ exit' = exit
  OBVIOUS
<1>3. WindowsSound'
  <2>1. window' \in [Turn -> Seq(Roles)]
    BY <1>2 DEF WindowsSound
  <2>2. ASSUME NEW t \in Turn, phase'[t] \in {"model", "tools", "over"}
        PROVE  /\ window[t] # <<>> /\ window[t][1] = "user"
               /\ \A n \in 2 .. Len(window[t]) : window[t][n] # "user"
               /\ exit[t] = "answer" => Len(window[t]) > 1 /\ window[t][Len(window[t])] = "answer"
               /\ \A n \in 2 .. Len(window[t]) : window[t][n] = "answer" => n = Len(window[t]) /\ exit[t] = "answer"
    BY <1>1, <2>2, Zenon DEF WindowsSound
  <2> QED
    BY <1>2, <2>1, <2>2 DEF WindowsSound
<1>4. CountsTyped'
  BY DEF CountsTyped
<1> QED
  BY <1>3, <1>4

LEMMA CallsPlacedHold ==
    ASSUME CallsInv, CallsPlaced, UNCHANGED <<call, batch>>, KeepsCalls, PhasesHold,
           \A t \in Turn : phase[t] = "tools" => phase'[t] = "tools"
    PROVE  CallsPlaced'
<1>1. ASSUME NEW id \in DOMAIN call
      PROVE  /\ phase'[id.turn] \in {"model", "tools", "over"}
             /\ InQueue(ready', CallTask(id)) /\ call[id].state = "waiting" =>
                   /\ phase'[id.turn] = "tools" /\ id \in ToSet(batch)
                   /\ InFront(ready', CallTask(id), Task("batch", id.turn))
  <2>1. id \in Id /\ id.turn \in Turn
    BY IdIs DEF CallsInv, CallsFit
  <2> QED
    BY <2>1 DEF CallsPlaced, KeepsCalls, PhasesHold
<1> QED
  BY <1>1 DEF CallsPlaced

LEMMA BrokenHolds ==
    ASSUME BrokenEnds, UNCHANGED <<exit, settled>>, \A t \in Turn : Broken(t)' => Broken(t),
           \A t \in Turn : phase[t] \in {"tools", "over"} => phase'[t] = phase[t]
    PROVE  BrokenEnds'
  BY DEF BrokenEnds

LEMMA PlainStep ==
    ASSUME CallsInv, AuditInv, NEW g, g = NoHook \/ \E t \in Turn : g = <<"reply", t>>,
           Shifts(g, NoHook), KeepsCalls, PhasesHold, \A t \in Turn : phase[t] = "tools" => phase'[t] = "tools",
           stopped \subseteq stopped', UNCHANGED <<exit, records, slot, call, batch, settled, window, rounds, lookups, violations>>
    PROVE  AuditInv'
<1>1. StartsInLine' /\ ReportsInLine' /\ SlotInLine' /\ RecordsInLine'
  BY HooksHold DEF AuditInv
<1>2. HookedHold /\ Onward
  BY SameCalls
<1>3. SlotSound' /\ RecordsRight'
  BY <1>2, SlotStands, RecordsStand DEF AuditInv
<1>4. WindowsSound' /\ CountsTyped'
  BY WindowsHold DEF AuditInv
<1>5. CallsPlaced'
  BY CallsPlacedHold DEF AuditInv
<1>6. BrokenEnds'
  <2>1. \A t \in Turn : Broken(t)' => Broken(t)
    BY DEF Broken
  <2>2. \A t \in Turn : phase[t] \in {"tools", "over"} => phase'[t] = phase[t]
    BY DEF PhasesHold
  <2> QED
    BY <2>1, <2>2, BrokenHolds DEF AuditInv
<1> QED
  BY <1>1, <1>3, <1>4, <1>5, <1>6 DEF AuditInv, Shifts

LEMMA ArriveAudited ==
    ASSUME CallsInv, AuditInv, NEW t \in Turn, Arrive(t)
    PROVE  AuditInv'
<1>1. PICK x : x = Task("turn", t)
  OBVIOUS
<1>2. /\ phase[t] = "new" /\ phase' = [phase EXCEPT ![t] = "queued"] /\ AddsReady(<<x>>)
      /\ UNCHANGED <<stopped, exit, records, slot, call, batch, settled, window, rounds, lookups, violations>>
  BY <1>1 DEF Arrive, turnVars, batchVars, auditVars
<1>3. ~InQueue(ready, x)
  <2>1. Head(waiters) \in ToSet(waiters) \/ waiters = <<>>
    BY DEF CallsInv, TurnsTyped, ToSet
  <2> QED
    BY <1>1, <1>2, <2>1 DEF CallsInv, TurnsLined
<1>4. Reordered({}, {x}, {})
  <2>1. x \in LoopTask
    BY <1>1, TaskIs DEF TaskKind
  <2> QED
    BY <1>2, <1>3, <2>1, OneAdded DEF CallsInv, AuditInv
<1>5. Shifts(NoHook, NoHook)
  <2>1. \A d \in HookKind, u \in Turn : Task(d, u) # x /\ <<d, u>> # NoHook
    BY <1>1, TaskIs, HookTasks DEF HookKind, NoHook
  <2> QED
    BY <1>4, <2>1, ShiftIs
<1>6. KeepsCalls
  <2>1. \A id \in Id : CallTask(id) # x
    BY <1>1, TaskIs
  <2> QED
    BY <1>4, <2>1, CallsKeptIs
<1>7. PhasesHold /\ \A u \in Turn : phase[u] = "tools" => phase'[u] = "tools"
  BY <1>2 DEF PhasesHold, CallsInv, TurnsTyped
<1> QED
  BY <1>2, <1>5, <1>6, <1>7, PlainStep

LEMMA ToolReturnsAudited ==
    ASSUME CallsInv, AuditInv, NEW id \in DOMAIN call, ToolReturns(id)
    PROVE  AuditInv'
<1>1. PICK x : x = CallTask(id)
  OBVIOUS
<1>2. /\ call[id].state = "running" /\ ~InQueue(ready, x) /\ AddsReady(<<x>>)
      /\ UNCHANGED <<phase, stopped, exit, records, slot, call, batch, settled, window, rounds, lookups, violations>>
  BY <1>1, QueuedIs DEF ToolReturns, turnVars, batchVars, auditVars, CallsInv
<1>3. id \in Id /\ x \in LoopTask
  BY <1>1, TaskIs DEF CallsInv, CallsFit
<1>4. Reordered({}, {x}, {})
  BY <1>2, <1>3, OneAdded DEF CallsInv, AuditInv
<1>5. Shifts(NoHook, NoHook)
  <2>1. \A d \in HookKind, u \in Turn : Task(d, u) # x /\ <<d, u>> # NoHook
    BY <1>1, TaskIs, HookTasks DEF HookKind, NoHook
  <2> QED
    BY <1>4, <2>1, ShiftIs
<1>6. StartsInLine' /\ ReportsInLine' /\ SlotInLine' /\ RecordsInLine'
  <2>1. PhasesHold
    BY <1>2 DEF PhasesHold
  <2> QED
    BY <1>2, <1>5, <2>1, HooksHold DEF AuditInv
<1>7. SlotSound' /\ RecordsRight'
  <2>1. HookedHold /\ Onward
    BY <1>2, SameCalls
  <2> QED
    BY <1>2, <2>1, SlotStands, RecordsStand DEF AuditInv
<1>8. WindowsSound' /\ CountsTyped'
  <2>1. PhasesHold
    BY <1>2 DEF PhasesHold
  <2> QED
    BY <1>2, <2>1, WindowsHold DEF AuditInv
<1>9. CallsPlaced'
  <2>1. ASSUME NEW o \in DOMAIN call, InQueue(ready', CallTask(o)), call[o].state = "waiting"
        PROVE  /\ phase[o.turn] = "tools" /\ o \in ToSet(batch)
               /\ InFront(ready', CallTask(o), Task("batch", o.turn))
    <3>1. CallTask(o) # x
      BY <1>1, <1>2, <2>1, TaskIs
    <3> QED
      BY <1>4, <2>1, <3>1 DEF Reordered, AuditInv, CallsPlaced
  <2> QED
    BY <1>2, <2>1 DEF AuditInv, CallsPlaced
<1>10. BrokenEnds'
  <2>1. \A t \in Turn : Broken(t)' => Broken(t)
    BY <1>2 DEF Broken
  <2> QED
    BY <1>2, <2>1, BrokenHolds DEF AuditInv
<1> QED
  BY <1>4, <1>6, <1>7, <1>8, <1>9, <1>10 DEF AuditInv, Reordered


(* A hook task runs, and makes the next one ready, or none.                *)
LEMMA HookShift ==
    ASSUME CallsInv, AuditInv, NEW d \in HookKind, Runs(d), NEW l, NEW a, Yields(<<>>, l), NEW t, t = Head(ready).turn,
           \/ l = <<>> /\ a = NoHook
           \/ \E e \in HookKind, u \in Turn : l = <<Task(e, u)>> /\ a = <<e, u>> /\ ~Due(ready, e, u)
    PROVE  /\ t \in Turn /\ Due(ready, d, t) /\ Shifts(<<d, t>>, a) /\ KeepsCalls
           /\ \A e, u : Ahead(ready, e, u, d, t) => ~Due(ready, e, u)
<1>1. QueueTyped /\ Distinct(ready) /\ d \in TaskKind
  BY HookTasks DEF CallsInv, AuditInv
<1>2. ready # <<>> /\ t \in Turn /\ Head(ready) = Task(d, t) /\ InQueue(ready, Head(ready))
  BY <1>1, HeadIs
<1>3. \A x : InFront(ready, x, Head(ready)) => ~InQueue(ready, x)
  <2>1. PICK s : s = Tail(ready)
    OBVIOUS
  <2> QED
    BY <1>1, <1>2, <2>1, TailQueue DEF QueueTyped
<1>4. PICK B : \/ l = <<>> /\ a = NoHook /\ B = {}
               \/ \E e \in HookKind, u \in Turn : l = <<Task(e, u)>> /\ a = <<e, u>> /\ ~Due(ready, e, u) /\ B = {Task(e, u)}
  OBVIOUS
<1>5. Reordered({}, B, {Head(ready)})
  <2>1. (l = <<>> /\ B = {}) \/ \E x \in LoopTask : l = <<x>> /\ B = {x} /\ (InQueue(ready, x) => x = Head(ready))
    <3>1. \A e \in HookKind, u \in Turn : Task(e, u) \in LoopTask
      BY TaskIs, HookTasks
    <3> QED
      BY <1>4, <3>1 DEF Due
  <2> QED
    BY <1>1, <1>2, <2>1, OneYielded
<1>6. Shifts(<<d, t>>, a)
  <2>1. ASSUME NEW e \in HookKind, NEW u \in Turn
        PROVE  (Task(e, u) \in B <=> <<e, u>> = a) /\ (Task(e, u) \in {Head(ready)} <=> <<e, u>> = <<d, t>>)
    BY <1>2, <1>4, TaskIs DEF NoHook, HookKind
  <2> QED
    BY <1>5, <2>1, ShiftIs
<1>7. KeepsCalls
  <2>1. \A id \in Id : CallTask(id) \notin B
    BY <1>4, TaskIs, HookTasks
  <2> QED
    BY <1>5, <2>1, CallsKeptIs
<1> QED
  BY <1>2, <1>3, <1>6, <1>7 DEF Due, Ahead

(* What is left of the invariant when a step only moves hook tasks.        *)
LEMMA HookRest ==
    ASSUME CallsInv, AuditInv, NEW g, NEW a, Shifts(g, a), KeepsCalls,
           UNCHANGED <<phase, exit, call, batch, settled, window, rounds, lookups, violations>>
    PROVE  CallsPlaced' /\ BrokenEnds' /\ WindowsSound' /\ CountsTyped' /\ Distinct(ready') /\ HookedHold /\ Onward
<1>1. PhasesHold
  BY DEF PhasesHold
<1>2. WindowsSound' /\ CountsTyped'
  BY <1>1, WindowsHold DEF AuditInv
<1>3. CallsPlaced'
  BY <1>1, CallsPlacedHold DEF AuditInv
<1>4. BrokenEnds'
  <2>1. \A t \in Turn : Broken(t)' => Broken(t)
    BY DEF Broken
  <2> QED
    BY <2>1, BrokenHolds DEF AuditInv
<1> QED
  BY <1>2, <1>3, <1>4, SameCalls DEF Shifts

(* The hook tasks when only they move: a turn started, or reported.        *)
LEMMA PassAudited ==
    ASSUME CallsInv, AuditInv, NEW from, NEW to,
           <<from, to>> \in {<<"emit", "notify">>, <<"notify", "hook">>, <<"start", "startHook">>}, Passes(from, to)
    PROVE  AuditInv'
<1>1. PICK t : t = Head(ready).turn
  OBVIOUS
<1>2. from \in HookKind /\ to \in HookKind /\ Runs(from) /\ Yields(<<>>, <<Task(to, t)>>)
  BY <1>1 DEF Passes, HookKind
<1>3. UNCHANGED <<phase, stopped, exit, records, slot, call, batch, settled, window, rounds, lookups, violations>>
  BY DEF Passes, turnVars, batchVars, auditVars
<1>4. t \in Turn /\ Due(ready, from, t)
  <2>1. from \in TaskKind /\ QueueTyped
    BY <1>2, HookTasks DEF CallsInv
  <2> QED
    BY <1>1, <1>2, <2>1, HeadIs DEF Due
<1>5. ~Due(ready, to, t)
  BY <1>4 DEF AuditInv, StartsInLine, ReportsInLine
<1>6. PICK g : g = <<from, t>>
  OBVIOUS
<1>7. PICK a : a = <<to, t>>
  OBVIOUS
<1>8. Shifts(g, a) /\ KeepsCalls /\ \A e, u : Ahead(ready, e, u, from, t) => ~Due(ready, e, u)
  <2>1. PICK l : l = <<Task(to, t)>>
    OBVIOUS
  <2>2. Yields(<<>>, l) /\ \E e \in HookKind, u \in Turn : l = <<Task(e, u)>> /\ a = <<e, u>> /\ ~Due(ready, e, u)
    BY <1>2, <1>4, <1>5, <1>7, <2>1
  <2> QED
    BY <1>1, <1>2, <1>6, <2>2, HookShift
<1>9. /\ \A d \in HookKind, u \in Turn : Due(ready', d, u) <=> (Due(ready, d, u) /\ ~(d = from /\ u = t)) \/ (d = to /\ u = t)
      /\ \A d \in HookKind, e \in HookKind, u \in Turn, v \in Turn :
            ~(d = to /\ u = t) /\ Ahead(ready, d, u, e, v) => Ahead(ready', d, u, e, v)
  BY <1>6, <1>7, <1>8 DEF Shifts
<1>10. \A d, e, u, v : ~Due(ready', d, u) \/ ~Due(ready', e, v) => Ahead(ready', d, u, e, v)
  BY InFrontIs DEF Ahead, Due
<1>11. \A u, v \in Turn : phase[u] \in {"model", "tools"} /\ phase[v] \in {"model", "tools"} => u = v
  BY DEF CallsInv, TurnsLined
<1>12. StartsInLine'
  <2> SUFFICES ASSUME NEW u \in Turn
               PROVE /\ Due(ready', "start", u) => phase[u] = "model" /\ ~Due(ready', "startHook", u)
                     /\ Due(ready', "startHook", u) => phase[u] \in {"model", "over"}
                     /\ Ahead(ready', "start", u, "reply", u)
                     /\ Due(ready', "reply", u) /\ u \notin stopped => ~Due(ready', "start", u) /\ ~Due(ready', "startHook", u)
                     /\ phase[u] = "tools" => ~Due(ready', "startHook", u)
                     /\ Due(ready', "start", u) \/ Due(ready', "startHook", u) => \A id \in DOMAIN call : id.turn # u
                     /\ \A s \in Turn : s # u =>
                           /\ ~(Due(ready', "startHook", s) /\ Due(ready', "startHook", u))
                           /\ Ahead(ready', "startHook", s, "start", u)
                           /\ Due(ready', "startHook", s) /\ phase[u] \in {"model", "tools"} => Due(ready', "start", u)
    BY <1>3 DEF StartsInLine
  <2>1. {"start", "startHook", "reply"} \subseteq HookKind
    BY DEF HookKind
  <2>2. CASE from # "start"
    <3>1. to \notin {"start", "startHook", "reply"} /\ from \notin {"start", "startHook", "reply"}
      BY <2>2
    <3> QED
      BY <1>9, <2>1, <3>1 DEF AuditInv, StartsInLine
  <2>3. CASE from = "start"
    <3>1. to = "startHook"
      BY <2>3
    <3>2. phase[t] = "model" /\ \A s \in Turn : s # t => ~Due(ready, "startHook", s) /\ ~Due(ready, "start", s)
      BY <1>4, <1>8, <1>11, <2>3 DEF AuditInv, StartsInLine
    <3>3. ~(Due(ready, "reply", t) /\ t \notin stopped)
      BY <1>4, <2>3 DEF AuditInv, StartsInLine
    <3>4. \A d \in {"start", "startHook", "reply"}, s \in Turn :
              Due(ready', d, s) <=> (Due(ready, d, s) /\ ~(d = "start" /\ s = t)) \/ (d = "startHook" /\ s = t)
      BY <1>9, <2>1, <2>3, <3>1
    <3>5. \A s \in Turn : ~Due(ready', "start", s)
      BY <3>2, <3>4
    <3>6. \A s \in Turn : Due(ready', "startHook", s) => s = t
      BY <3>2, <3>4
    <3>7. /\ Due(ready', "reply", u) <=> Due(ready, "reply", u)
          /\ \A id \in DOMAIN call : id.turn # t
      BY <1>4, <2>3, <3>4 DEF AuditInv, StartsInLine
    <3> QED
      BY <1>4, <1>10, <1>11, <3>2, <3>3, <3>5, <3>6, <3>7
  <2> QED
    BY <2>2, <2>3
<1>13. ReportsInLine'
  <2> SUFFICES ASSUME NEW u \in Turn
               PROVE /\ Due(ready', "emit", u) \/ Due(ready', "notify", u) \/ Due(ready', "hook", u) => phase[u] = "over"
                     /\ Due(ready', "emit", u) => exit[u] = "abandoned" /\ ~Due(ready', "notify", u) /\ ~Due(ready', "hook", u)
                     /\ ~(Due(ready', "notify", u) /\ Due(ready', "hook", u))
                     /\ Returned(u) => \A v \in Turn : /\ Due(ready', "notify", u) => ~Due(ready', "startHook", v)
                                                       /\ Ahead(ready', "notify", u, "start", v)
                                                       /\ Ahead(ready', "hook", u, "startHook", v)
    BY <1>3 DEF ReportsInLine, Returned
  <2>1. {"start", "startHook", "emit", "notify", "hook"} \subseteq HookKind
    BY DEF HookKind
  <2>2. CASE from = "start"
    <3>1. to = "startHook"
      BY <2>2
    <3>2. \A d \in {"emit", "notify", "hook"} : Due(ready', d, u) <=> Due(ready, d, u)
      BY <1>9, <2>1, <2>2, <3>1
    <3>3. ASSUME Returned(u), NEW v \in Turn
          PROVE /\ Due(ready', "notify", u) => ~Due(ready', "startHook", v)
                /\ Ahead(ready', "notify", u, "start", v)
                /\ Ahead(ready', "hook", u, "startHook", v)
      <4>1. /\ Due(ready, "notify", u) => ~Due(ready, "startHook", v)
            /\ Ahead(ready, "notify", u, "start", v) /\ Ahead(ready, "notify", u, "start", t)
            /\ Ahead(ready, "hook", u, "startHook", v)
        BY <1>4, <3>3 DEF AuditInv, ReportsInLine
      <4>2. ~Due(ready, "notify", u)
        BY <1>8, <2>2, <4>1
      <4>3. Ahead(ready', "hook", u, "startHook", v)
        BY <1>9, <2>1, <3>1, <4>1
      <4> QED
        BY <1>10, <3>2, <4>2, <4>3
    <3> QED
      BY <3>2, <3>3 DEF AuditInv, ReportsInLine
  <2>3. CASE from = "emit"
    <3>1. to = "notify"
      BY <2>3
    <3>2. exit[t] = "abandoned" /\ ~Returned(t) /\ ~Due(ready, "notify", t) /\ ~Due(ready, "hook", t) /\ phase[t] = "over"
      BY <1>4, <2>3 DEF AuditInv, ReportsInLine, Returned
    <3>3. \A d \in {"start", "startHook", "hook"}, s \in Turn : Due(ready', d, s) <=> Due(ready, d, s)
      BY <1>9, <2>1, <2>3, <3>1
    <3>4. /\ Due(ready', "emit", u) <=> Due(ready, "emit", u) /\ u # t
          /\ Due(ready', "notify", u) <=> Due(ready, "notify", u) \/ u = t
      BY <1>9, <2>1, <2>3, <3>1
    <3>5. ASSUME Returned(u), NEW v \in Turn
          PROVE /\ Due(ready', "notify", u) => ~Due(ready', "startHook", v)
                /\ Ahead(ready', "notify", u, "start", v)
                /\ Ahead(ready', "hook", u, "startHook", v)
      <4>1. u # t
        BY <3>2, <3>5
      <4>2. /\ Due(ready, "notify", u) => ~Due(ready, "startHook", v)
            /\ Ahead(ready, "notify", u, "start", v)
            /\ Ahead(ready, "hook", u, "startHook", v)
        BY <3>5 DEF AuditInv, ReportsInLine
      <4> QED
        BY <1>9, <2>1, <3>1, <3>3, <3>4, <4>1, <4>2
    <3> QED
      BY <3>2, <3>3, <3>4, <3>5 DEF AuditInv, ReportsInLine
  <2>4. CASE from = "notify"
    <3>1. to = "hook"
      BY <2>4
    <3>2. ~Due(ready, "emit", t) /\ ~Due(ready, "hook", t) /\ phase[t] = "over"
      BY <1>4, <2>4 DEF AuditInv, ReportsInLine
    <3>3. \A d \in {"start", "startHook", "emit"}, s \in Turn : Due(ready', d, s) <=> Due(ready, d, s)
      BY <1>9, <2>1, <2>4, <3>1
    <3>4. /\ Due(ready', "notify", u) <=> Due(ready, "notify", u) /\ u # t
          /\ Due(ready', "hook", u) <=> Due(ready, "hook", u) \/ u = t
      BY <1>9, <2>1, <2>4, <3>1
    <3>5. ASSUME Returned(u), NEW v \in Turn
          PROVE /\ Due(ready', "notify", u) => ~Due(ready', "startHook", v)
                /\ Ahead(ready', "notify", u, "start", v)
                /\ Ahead(ready', "hook", u, "startHook", v)
      <4>1. /\ Due(ready, "notify", u) => ~Due(ready, "startHook", v)
            /\ Ahead(ready, "notify", u, "start", v)
            /\ Ahead(ready, "hook", u, "startHook", v)
        BY <3>5 DEF AuditInv, ReportsInLine
      <4>2. CASE u # t
        BY <1>9, <2>1, <3>1, <3>3, <3>4, <4>1, <4>2
      <4>3. CASE u = t
        <5>1. ~Due(ready', "startHook", v) /\ ~Due(ready', "notify", u)
          BY <1>4, <2>4, <3>3, <3>4, <4>1, <4>3
        <5> QED
          BY <1>10, <5>1
      <4> QED
        BY <4>2, <4>3
    <3> QED
      BY <3>2, <3>3, <3>4, <3>5 DEF AuditInv, ReportsInLine
  <2> QED
    BY <2>2, <2>3, <2>4
<1>14. SlotInLine'
  <2> SUFFICES ASSUME NEW u \in Turn
               PROVE /\ phase[u] \in {"model", "tools"} => Due(ready', "start", u) \/ Due(ready', "startHook", u) \/ slot.trace = u
                     /\ Returned(u) /\ (Due(ready', "notify", u) \/ Due(ready', "hook", u)) => slot.trace = u
    BY <1>3 DEF SlotInLine, Returned
  <2>1. {"start", "startHook", "notify", "hook"} \subseteq HookKind
    BY DEF HookKind
  <2>2. Due(ready, "start", u) \/ Due(ready, "startHook", u) => Due(ready', "start", u) \/ Due(ready', "startHook", u)
    BY <1>9, <2>1
  <2>3. Returned(u) /\ (Due(ready', "notify", u) \/ Due(ready', "hook", u)) => Due(ready, "notify", u) \/ Due(ready, "hook", u)
    <3>1. from = "emit" => exit[t] = "abandoned"
      BY <1>4 DEF AuditInv, ReportsInLine
    <3> QED
      BY <1>4, <1>9, <2>1, <3>1 DEF Returned
  <2> QED
    BY <2>2, <2>3 DEF AuditInv, SlotInLine
<1>15. RecordsInLine'
  <2>1. {"emit", "notify", "hook"} \subseteq HookKind
    BY DEF HookKind
  <2>2. ASSUME NEW u \in Turn, ~Due(ready, "emit", u), ~Due(ready, "notify", u), ~Due(ready, "hook", u)
        PROVE  ~Due(ready', "emit", u) /\ ~Due(ready', "notify", u) /\ ~Due(ready', "hook", u)
    BY <1>4, <1>9, <2>1, <2>2
  <2>3. ASSUME NEW i \in 1 .. Len(records)
        PROVE /\ records[i].turn \in Turn /\ phase[records[i].turn] = "over"
              /\ ~Due(ready', "emit", records[i].turn) /\ ~Due(ready', "notify", records[i].turn)
              /\ ~Due(ready', "hook", records[i].turn)
    BY <2>2, <2>3 DEF AuditInv, RecordsInLine
  <2> QED
    BY <1>3, <2>3 DEF AuditInv, RecordsInLine
<1>16. CallsPlaced' /\ BrokenEnds' /\ WindowsSound' /\ CountsTyped' /\ Distinct(ready') /\ HookedHold /\ Onward
  BY <1>3, <1>8, HookRest
<1>17. SlotSound' /\ RecordsRight'
  BY <1>3, <1>16, SlotStands, RecordsStand DEF AuditInv
<1> QED
  BY <1>12, <1>13, <1>14, <1>15, <1>16, <1>17 DEF AuditInv

(* The started hook finds no call of its turn.                             *)
LEMMA StartedAudited ==
    ASSUME CallsInv, AuditInv, MessageStarted
    PROVE  AuditInv'
<1>1. PICK t : t = Head(ready).turn
  OBVIOUS
<1>2. Runs("startHook") /\ Yields(<<>>, <<>>) /\ slot' = Started(slot, t) /\ "startHook" \in HookKind
  BY <1>1 DEF MessageStarted, HookKind
<1>3. UNCHANGED <<phase, stopped, exit, records, call, batch, settled, window, rounds, lookups, violations>>
  BY DEF MessageStarted, turnVars, batchVars
<1>4. PICK g : g = <<"startHook", t>>
  OBVIOUS
<1>5. t \in Turn /\ Due(ready, "startHook", t) /\ Shifts(g, NoHook) /\ KeepsCalls
      /\ \A e, u : Ahead(ready, e, u, "startHook", t) => ~Due(ready, e, u)
  BY <1>1, <1>2, <1>4, HookShift
<1>6. /\ \A d \in HookKind, u \in Turn : Due(ready', d, u) <=> Due(ready, d, u) /\ ~(d = "startHook" /\ u = t)
      /\ \A d \in HookKind, e \in HookKind, u \in Turn, v \in Turn : Ahead(ready, d, u, e, v) => Ahead(ready', d, u, e, v)
  <2>1. \A d, u : <<d, u>> = NoHook => d = "none"
    BY DEF NoHook
  <2> QED
    BY <1>4, <1>5, <2>1 DEF Shifts, HookKind
<1>7. {"start", "startHook", "reply", "emit", "notify", "hook"} \subseteq HookKind
  BY DEF HookKind
<1>8. slot' = [trace |-> t, spans |-> <<>>, pending |-> <<>>]
  BY <1>2 DEF Started, NewTurn
<1>9. StartsInLine'
  <2> SUFFICES ASSUME NEW u \in Turn
               PROVE /\ Due(ready', "start", u) => phase[u] = "model" /\ ~Due(ready', "startHook", u)
                     /\ Due(ready', "startHook", u) => phase[u] \in {"model", "over"}
                     /\ Ahead(ready', "start", u, "reply", u)
                     /\ Due(ready', "reply", u) /\ u \notin stopped => ~Due(ready', "start", u) /\ ~Due(ready', "startHook", u)
                     /\ phase[u] = "tools" => ~Due(ready', "startHook", u)
                     /\ Due(ready', "start", u) \/ Due(ready', "startHook", u) => \A id \in DOMAIN call : id.turn # u
                     /\ \A s \in Turn : s # u =>
                           /\ ~(Due(ready', "startHook", s) /\ Due(ready', "startHook", u))
                           /\ Ahead(ready', "startHook", s, "start", u)
                           /\ Due(ready', "startHook", s) /\ phase[u] \in {"model", "tools"} => Due(ready', "start", u)
    BY <1>3 DEF StartsInLine
  <2> QED
    BY <1>6, <1>7 DEF AuditInv, StartsInLine
<1>10. ReportsInLine'
  <2> SUFFICES ASSUME NEW u \in Turn
               PROVE /\ Due(ready', "emit", u) \/ Due(ready', "notify", u) \/ Due(ready', "hook", u) => phase[u] = "over"
                     /\ Due(ready', "emit", u) => exit[u] = "abandoned" /\ ~Due(ready', "notify", u) /\ ~Due(ready', "hook", u)
                     /\ ~(Due(ready', "notify", u) /\ Due(ready', "hook", u))
                     /\ Returned(u) => \A v \in Turn : /\ Due(ready', "notify", u) => ~Due(ready', "startHook", v)
                                                       /\ Ahead(ready', "notify", u, "start", v)
                                                       /\ Ahead(ready', "hook", u, "startHook", v)
    BY <1>3 DEF ReportsInLine, Returned
  <2> QED
    BY <1>6, <1>7 DEF AuditInv, ReportsInLine
<1>11. SlotInLine'
  <2> SUFFICES ASSUME NEW u \in Turn
               PROVE /\ phase[u] \in {"model", "tools"} => Due(ready', "start", u) \/ Due(ready', "startHook", u) \/ slot'.trace = u
                     /\ Returned(u) /\ (Due(ready', "notify", u) \/ Due(ready', "hook", u)) => slot'.trace = u
    BY <1>3 DEF SlotInLine, Returned
  <2>1. slot'.trace = t
    BY <1>8
  <2>2. phase[u] \in {"model", "tools"} /\ u # t => Due(ready', "start", u)
    BY <1>5, <1>6, <1>7 DEF AuditInv, StartsInLine
  <2>3. Returned(u) => ~Due(ready', "notify", u) /\ ~Due(ready', "hook", u)
    <3>1. Returned(u) => ~Due(ready, "notify", u) /\ ~Due(ready, "hook", u)
      BY <1>5 DEF AuditInv, ReportsInLine
    <3> QED
      BY <1>6, <1>7, <3>1
  <2> QED
    BY <2>1, <2>2, <2>3
<1>12. RecordsInLine'
  <2>1. ASSUME NEW i \in 1 .. Len(records)
        PROVE /\ records[i].turn \in Turn /\ phase[records[i].turn] = "over"
              /\ ~Due(ready', "emit", records[i].turn) /\ ~Due(ready', "notify", records[i].turn)
              /\ ~Due(ready', "hook", records[i].turn)
    BY <1>6, <1>7, <2>1 DEF AuditInv, RecordsInLine
  <2> QED
    BY <1>3, <2>1 DEF AuditInv, RecordsInLine
<1>13. CallsPlaced' /\ BrokenEnds' /\ WindowsSound' /\ CountsTyped' /\ Distinct(ready') /\ HookedHold /\ Onward
  BY <1>3, <1>5, HookRest
<1>14. RecordsRight'
  BY <1>3, <1>13, RecordsStand DEF AuditInv
<1>15. SlotSound'
  <2>1. Hooked(t) = {}
    BY <1>5, <1>7 DEF AuditInv, StartsInLine, Hooked
  <2>2. Hooked(t)' = {} /\ {id \in Hooked(t)' : call'[id].result # "ok"} = {}
    BY <1>5, <1>13, <2>1 DEF HookedHold
  <2>3. PICK s : s = <<>>
    OBVIOUS
  <2>4. s \in Seq(Id) /\ IsInjective(s) /\ ToSet(s) = {}
    BY <2>3 DEF IsInjective, ToSet
  <2>5. DOMAIN slot' = {"trace", "spans", "pending"} /\ slot'.trace = t /\ slot'.spans = s /\ slot'.pending = s
    BY <1>8, <2>3
  <2>6. SlotOf(slot, t)'
    BY <2>2, <2>4, <2>5 DEF SlotOf
  <2> QED
    BY <1>5, <2>6 DEF SlotSound
<1> QED
  BY <1>9, <1>10, <1>11, <1>12, <1>13, <1>14, <1>15 DEF AuditInv

(* The number of members a sequence without repetitions has.               *)
LEMMA LengthCounts ==
    ASSUME NEW S, NEW q \in Seq(S), IsInjective(q)
    PROVE  Len(q) = Cardinality(ToSet(q))
<1> DEFINE N == Len(q)
<1>1. N \in Nat /\ DOMAIN q = 1 .. N /\ q \in [1 .. N -> S]
  OBVIOUS
<1>2. \A x : x \in ToSet(q) <=> \E i \in 1 .. N : q[i] = x
  BY <1>1 DEF ToSet
<1> HIDE DEF N
<1>3. q \in [1 .. N -> ToSet(q)]
  BY <1>1, <1>2
<1>4. q \in Bijection(1 .. N, ToSet(q))
  BY <1>1, <1>2, <1>3 DEF Bijection, Injection, Surjection, IsInjective
<1>5. ExistsBijection(1 .. N, ToSet(q))
  BY <1>4 DEF ExistsBijection
<1>6. IsFiniteSet(1 .. N) /\ Cardinality(1 .. N) = N
  BY <1>1, FS_Interval
<1> QED
  BY <1>5, <1>6, FS_Bijection DEF N

(* How often a role is in a report.                                        *)
LEMMA SaidOnce ==
    ASSUME NEW report, report.window \in Seq(Roles), NEW role, NEW n \in 1 .. Len(report.window),
           \A m \in 1 .. Len(report.window) : report.window[m] = role <=> m = n
    PROVE  Said(report, role) = 1
<1>1. DOMAIN report.window = 1 .. Len(report.window)
  OBVIOUS
<1>2. {m \in DOMAIN report.window : report.window[m] = role} = {n}
  BY <1>1
<1> QED
  BY <1>2, FS_Singleton DEF Said

LEMMA SaidNumber ==
    ASSUME NEW report, report.window \in Seq(Roles), NEW role
    PROVE  Said(report, role) \in Nat
<1>1. Len(report.window) \in Nat /\ DOMAIN report.window = 1 .. Len(report.window)
  OBVIOUS
<1>2. IsFiniteSet(1 .. Len(report.window))
  BY <1>1, FS_Interval
<1>3. {m \in DOMAIN report.window : report.window[m] = role} \in SUBSET (1 .. Len(report.window))
  BY <1>1
<1> QED
  BY <1>2, <1>3, FS_Subset, FS_CardinalityType DEF Said

(* The report of a turn that is over.                                      *)
LEMMA ReportIs ==
    ASSUME CallsInv, AuditInv, NEW t \in Turn, phase[t] = "over", NEW p, p = Report(t)
    PROVE  /\ p.turn = t /\ p.exit = exit[t] /\ p.rounds \in Nat /\ p.window \in Seq(Roles)
           /\ exit[t] = "answer" => Said(p, "user") = 1 /\ Said(p, "answer") = 1
<1>1. exit[t] \in {"answer", "error", "abandoned"} /\ rounds[t] \in Nat /\ window[t] \in Seq(Roles)
  BY DEF CallsInv, TurnsTyped, TurnsLined, AuditInv, WindowsSound
<1>2. CASE exit[t] = "abandoned"
  <2>1. p = [turn |-> t, exit |-> exit[t], rounds |-> 0, window |-> <<"user">>]
    BY <1>2 DEF Report
  <2>2. <<"user">> \in Seq(Roles)
    BY DEF Roles
  <2> QED
    BY <1>2, <2>1, <2>2
<1>3. CASE exit[t] # "abandoned"
  <2>1. p = [turn |-> t, exit |-> exit[t], rounds |-> rounds[t], window |-> window[t]]
    BY <1>3 DEF Report
  <2>2. p.window \in Seq(Roles) /\ p.window = window[t]
    BY <1>1, <2>1
  <2>3. ASSUME exit[t] = "answer" PROVE Said(p, "user") = 1 /\ Said(p, "answer") = 1
    <3>1. PICK w : w = window[t]
      OBVIOUS
    <3>2. /\ w # <<>> /\ w[1] = "user" /\ w \in Seq(Roles)
          /\ \A n \in 2 .. Len(w) : w[n] # "user"
          /\ Len(w) > 1 /\ w[Len(w)] = "answer"
          /\ \A n \in 2 .. Len(w) : w[n] = "answer" => n = Len(w)
      BY <1>1, <2>3, <3>1 DEF AuditInv, WindowsSound
    <3>3. Len(w) \in Nat /\ 1 \in 1 .. Len(w) /\ Len(w) \in 1 .. Len(w) /\ Len(w) # 1
          /\ \A n \in 1 .. Len(w) : n = 1 \/ n \in 2 .. Len(w)
      BY <3>2
    <3>4. \A m \in 1 .. Len(w) : w[m] = "user" <=> m = 1
      BY <3>2, <3>3
    <3>5. \A m \in 1 .. Len(w) : w[m] = "answer" <=> m = Len(w)
      BY <3>2, <3>3
    <3>6. /\ 1 \in 1 .. Len(p.window) /\ \A m \in 1 .. Len(p.window) : p.window[m] = "user" <=> m = 1
          /\ Len(w) \in 1 .. Len(p.window) /\ \A m \in 1 .. Len(p.window) : p.window[m] = "answer" <=> m = Len(w)
          /\ p.window \in Seq(Roles)
      BY <2>2, <3>1, <3>3, <3>4, <3>5
    <3>7. Said(p, "user") = 1
      <4>1. PICK n : n = 1
        OBVIOUS
      <4>2. n \in 1 .. Len(p.window) /\ \A m \in 1 .. Len(p.window) : p.window[m] = "user" <=> m = n
        BY <3>6, <4>1
      <4> QED
        BY <3>6, <4>2, SaidOnce
    <3>8. Said(p, "answer") = 1
      BY <3>6, SaidOnce
    <3> QED
      BY <3>7, <3>8
  <2> QED
    BY <1>1, <2>1, <2>2, <2>3
<1> QED
  BY <1>2, <1>3

(* A turn that was answered has the result of every call it made.          *)
LEMMA AnsweredHas ==
    ASSUME CallsInv, AuditInv, NEW t \in Turn, exit[t] = "answer", NEW id \in Hooked(t)
    PROVE  call[id].result # "none"
<1>1. id \in DOMAIN call /\ id.turn = t
  BY DEF Hooked
<1>2. phase[t] = "over" /\ ~Broken(t)
  BY DEF AuditInv, BrokenEnds, CallsInv, TurnsLined
<1>3. call[id].state = "done" /\ CallFits(call[id])
  BY <1>1, <1>2 DEF CallsInv, CallsHome, CallsFit
<1> QED
  BY <1>3 DEF CallFits

LEMMA RecordIs ==
    ASSUME CallsInv, AuditInv, NEW t \in Turn, Due(ready, "hook", t), NEW r, r = Record(slot, Report(t))
    PROVE  r \in RecordOf /\ r.turn = t /\ RecordSound(r) /\ ToSet(r.interrupted) \subseteq ToSet(r.spans)
<1>1. phase[t] = "over" /\ (Returned(t) => slot.trace = t)
  BY DEF AuditInv, ReportsInLine, SlotInLine
<1>2. exit[t] \in {"answer", "error", "abandoned"}
  BY <1>1 DEF CallsInv, TurnsTyped, TurnsLined
<1>3. PICK p : p = Report(t)
  OBVIOUS
<1>4. /\ p.turn = t /\ p.exit = exit[t] /\ p.rounds \in Nat /\ p.window \in Seq(Roles)
      /\ exit[t] = "answer" => Said(p, "user") = 1 /\ Said(p, "answer") = 1
  BY <1>1, <1>3, ReportIs
<1>5. PICK s : s = IF Own(slot, p) THEN slot ELSE NewTurn(p.turn)
  OBVIOUS
<1>6. r = [turn |-> t, exit |-> exit[t], rounds |-> p.rounds, spans |-> s.spans, interrupted |-> s.pending,
           inputs |-> Said(p, "user"), outputs |-> Said(p, "answer")]
  BY <1>3, <1>4, <1>5 DEF Record
<1>7. Said(p, "user") \in Nat /\ Said(p, "answer") \in Nat
  BY <1>4, SaidNumber
<1>8. /\ s.spans \in Seq(Id) /\ s.pending \in Seq(Id) /\ IsInjective(s.spans) /\ ToSet(s.spans) \subseteq Hooked(t)
      /\ exit[t] # "abandoned" => ToSet(s.spans) = Hooked(t)
      /\ ToSet(s.pending) = {id \in ToSet(s.spans) : call[id].result # "ok"}
  <2>1. CASE Own(slot, p)
    <3>1. s = slot /\ slot # Empty /\ slot.trace \in {Unnamed, t}
      BY <1>4, <1>5, <2>1 DEF Own, Foreign
    <3>2. PICK u \in Turn : SlotOf(slot, u)
      BY <3>1 DEF AuditInv, SlotSound
    <3>3. u = t
      BY <3>1, <3>2, TurnAssumption DEF SlotOf
    <3> QED
      BY <3>1, <3>2, <3>3 DEF SlotOf
  <2>2. CASE ~Own(slot, p)
    <3>1. PICK e : e = <<>>
      OBVIOUS
    <3>2. s.spans = e /\ s.pending = e
      BY <1>5, <2>2, <3>1 DEF NewTurn
    <3>3. e \in Seq(Id) /\ IsInjective(e) /\ ToSet(e) = {}
      BY <3>1 DEF IsInjective, ToSet
    <3>4. exit[t] = "abandoned"
      <4>1. ASSUME Returned(t) PROVE FALSE
        <5>1. slot.trace = t /\ t # NoTurn
          BY <1>1, <4>1, TurnAssumption
        <5>2. slot # Empty
          BY <5>1 DEF Empty, NewTurn
        <5> QED
          BY <1>4, <2>2, <5>1, <5>2 DEF Own, Foreign
      <4> QED
        BY <1>2, <4>1 DEF Returned
    <3> QED
      BY <3>2, <3>3, <3>4
  <2> QED
    BY <2>1, <2>2
<1>9. r \in RecordOf
  BY <1>2, <1>4, <1>6, <1>7, <1>8 DEF RecordOf
<1>10. Len(s.spans) = Cardinality(ToSet(s.spans))
  BY <1>8, LengthCounts
<1>11. exit[t] = "answer" => \A id \in ToSet(s.pending) : call[id].result \notin {"ok", "none"}
  BY <1>8, AnsweredHas
<1>12. r.turn = t /\ r.exit = exit[t] /\ r.spans = s.spans /\ r.interrupted = s.pending
       /\ r.inputs = Said(p, "user") /\ r.outputs = Said(p, "answer")
  BY <1>6
<1>13. RecordSound(r)
  BY <1>4, <1>8, <1>10, <1>11, <1>12 DEF RecordSound
<1> QED
  BY <1>8, <1>9, <1>12, <1>13

(* A turn is recorded: its report is handed over once.                     *)
LEMMA CompletedAudited ==
    ASSUME CallsInv, AuditInv, MessageCompleted
    PROVE  AuditInv'
<1>1. PICK t : t = Head(ready).turn
  OBVIOUS
<1>2. PICK r : r = Record(slot, Report(t))
  OBVIOUS
<1>3. Runs("hook") /\ Yields(<<>>, <<>>) /\ records' = Append(records, r) /\ slot' = Completed(slot, Report(t))
      /\ "hook" \in HookKind
  BY <1>1, <1>2 DEF MessageCompleted, HookKind
<1>4. UNCHANGED <<phase, stopped, exit, call, batch, settled, window, rounds, lookups, violations>>
  BY DEF MessageCompleted, turnVars, batchVars
<1>5. PICK g : g = <<"hook", t>>
  OBVIOUS
<1>6. t \in Turn /\ Due(ready, "hook", t) /\ Shifts(g, NoHook) /\ KeepsCalls
  BY <1>1, <1>3, <1>5, HookShift
<1>7. /\ \A d \in HookKind, u \in Turn : Due(ready', d, u) <=> Due(ready, d, u) /\ ~(d = "hook" /\ u = t)
      /\ \A d \in HookKind, e \in HookKind, u \in Turn, v \in Turn : Ahead(ready, d, u, e, v) => Ahead(ready', d, u, e, v)
  <2>1. \A d, u : <<d, u>> = NoHook => d = "none"
    BY DEF NoHook
  <2> QED
    BY <1>5, <1>6, <2>1 DEF Shifts, HookKind
<1>8. {"start", "startHook", "reply", "emit", "notify", "hook"} \subseteq HookKind
  BY DEF HookKind
<1>9. /\ phase[t] = "over" /\ ~Due(ready, "emit", t) /\ ~Due(ready, "notify", t)
      /\ exit[t] = "abandoned" \/ Returned(t)
  BY <1>6 DEF AuditInv, ReportsInLine, CallsInv, TurnsTyped, TurnsLined, Returned
<1>10. \/ slot' = slot
       \/ slot' = Empty /\ slot.trace = t
  <2>1. CASE Own(slot, Report(t))
    <3>1. slot' = Empty /\ slot # Empty /\ slot.trace \in {Unnamed, t}
      BY <1>3, <1>4, <2>1 DEF Completed, Own, Foreign, Report
    <3>2. PICK u \in Turn : SlotOf(slot, u)
      BY <3>1 DEF AuditInv, SlotSound
    <3> QED
      BY <3>1, <3>2, TurnAssumption DEF SlotOf
  <2>2. CASE ~Own(slot, Report(t))
    BY <1>3, <2>2 DEF Completed
  <2> QED
    BY <2>1, <2>2
<1>11. StartsInLine'
  <2> SUFFICES ASSUME NEW u \in Turn
               PROVE /\ Due(ready', "start", u) => phase[u] = "model" /\ ~Due(ready', "startHook", u)
                     /\ Due(ready', "startHook", u) => phase[u] \in {"model", "over"}
                     /\ Ahead(ready', "start", u, "reply", u)
                     /\ Due(ready', "reply", u) /\ u \notin stopped => ~Due(ready', "start", u) /\ ~Due(ready', "startHook", u)
                     /\ phase[u] = "tools" => ~Due(ready', "startHook", u)
                     /\ Due(ready', "start", u) \/ Due(ready', "startHook", u) => \A id \in DOMAIN call : id.turn # u
                     /\ \A s \in Turn : s # u =>
                           /\ ~(Due(ready', "startHook", s) /\ Due(ready', "startHook", u))
                           /\ Ahead(ready', "startHook", s, "start", u)
                           /\ Due(ready', "startHook", s) /\ phase[u] \in {"model", "tools"} => Due(ready', "start", u)
    BY <1>4 DEF StartsInLine
  <2> QED
    BY <1>7, <1>8 DEF AuditInv, StartsInLine
<1>12. ReportsInLine'
  <2> SUFFICES ASSUME NEW u \in Turn
               PROVE /\ Due(ready', "emit", u) \/ Due(ready', "notify", u) \/ Due(ready', "hook", u) => phase[u] = "over"
                     /\ Due(ready', "emit", u) => exit[u] = "abandoned" /\ ~Due(ready', "notify", u) /\ ~Due(ready', "hook", u)
                     /\ ~(Due(ready', "notify", u) /\ Due(ready', "hook", u))
                     /\ Returned(u) => \A v \in Turn : /\ Due(ready', "notify", u) => ~Due(ready', "startHook", v)
                                                       /\ Ahead(ready', "notify", u, "start", v)
                                                       /\ Ahead(ready', "hook", u, "startHook", v)
    BY <1>4 DEF ReportsInLine, Returned
  <2> QED
    BY <1>7, <1>8 DEF AuditInv, ReportsInLine
<1>13. SlotInLine'
  <2> SUFFICES ASSUME NEW u \in Turn
               PROVE /\ phase[u] \in {"model", "tools"} => Due(ready', "start", u) \/ Due(ready', "startHook", u) \/ slot'.trace = u
                     /\ Returned(u) /\ (Due(ready', "notify", u) \/ Due(ready', "hook", u)) => slot'.trace = u
    BY <1>4 DEF SlotInLine, Returned
  <2>1. /\ phase[u] \in {"model", "tools"} => Due(ready', "start", u) \/ Due(ready', "startHook", u) \/ slot.trace = u
        /\ Returned(u) /\ (Due(ready', "notify", u) \/ Due(ready', "hook", u)) => slot.trace = u
    BY <1>7, <1>8 DEF AuditInv, SlotInLine
  <2>2. ~Due(ready', "notify", t) /\ ~Due(ready', "hook", t)
    BY <1>6, <1>7, <1>8, <1>9
  <2> QED
    BY <1>9, <1>10, <2>1, <2>2
<1>14. CallsPlaced' /\ BrokenEnds' /\ WindowsSound' /\ CountsTyped' /\ Distinct(ready') /\ HookedHold /\ Onward
  BY <1>4, <1>6, HookRest
<1>15. SlotSound'
  <2>1. CASE slot' = slot
    BY <1>14, <2>1, SlotStands DEF AuditInv
  <2>2. CASE slot' = Empty
    BY <2>2 DEF SlotSound, Empty, NewTurn
  <2> QED
    BY <1>10, <2>1, <2>2
<1>16. /\ r \in RecordOf /\ r.turn = t /\ RecordSound(r) /\ ToSet(r.interrupted) \subseteq ToSet(r.spans)
  BY <1>2, <1>6, RecordIs
<1>17. records \in Seq(RecordOf)
  BY DEF AuditInv, RecordsRight
<1>18. /\ records' \in Seq(RecordOf)
       /\ \A i \in 1 .. Len(records') : \/ i \in 1 .. Len(records) /\ records'[i] = records[i]
                                        \/ i = Len(records') /\ records'[i] = r
       /\ Len(records') = Len(records) + 1 /\ Len(records) \in Nat
  <2>1. PICK V : V = RecordOf
    OBVIOUS
  <2>2. records \in Seq(V) /\ r \in V
    BY <1>16, <1>17, <2>1
  <2>3. /\ records' \in Seq(V) /\ Len(records') = Len(records) + 1 /\ Len(records) \in Nat
        /\ \A i \in 1 .. Len(records) : records'[i] = records[i]
        /\ records'[Len(records) + 1] = r
    BY <1>3, <2>2
  <2>4. \A i \in 1 .. Len(records') : i \in 1 .. Len(records) \/ i = Len(records) + 1
    BY <2>3
  <2> QED
    BY <2>1, <2>3, <2>4
<1>19. RecordsInLine'
  <2>1. ASSUME NEW i \in 1 .. Len(records')
        PROVE /\ records'[i].turn \in Turn /\ phase[records'[i].turn] = "over"
              /\ ~Due(ready', "emit", records'[i].turn) /\ ~Due(ready', "notify", records'[i].turn)
              /\ ~Due(ready', "hook", records'[i].turn)
    <3>1. CASE i \in 1 .. Len(records) /\ records'[i] = records[i]
      BY <1>7, <1>8, <3>1 DEF AuditInv, RecordsInLine
    <3>2. CASE records'[i] = r
      BY <1>6, <1>7, <1>8, <1>9, <1>16, <3>2
    <3> QED
      BY <1>18, <3>1, <3>2
  <2>2. \A i \in 1 .. Len(records) : records[i].turn # t
    BY <1>6 DEF AuditInv, RecordsInLine
  <2>3. ASSUME NEW i \in 1 .. Len(records'), NEW j \in 1 .. Len(records'), i # j
        PROVE  records'[i].turn # records'[j].turn
    <3>1. \A k, m \in 1 .. Len(records) : k # m => records[k].turn # records[m].turn
      BY DEF AuditInv, RecordsInLine
    <3> QED
      BY <1>16, <1>18, <2>2, <2>3, <3>1
  <2> QED
    BY <1>4, <2>1, <2>3 DEF RecordsInLine
<1>20. RecordsRight'
  <2>1. ASSUME NEW o, RecordSound(o) PROVE RecordSound(o)'
    BY <1>4, <2>1 DEF RecordSound, Hooked
  <2>2. ASSUME NEW i \in 1 .. Len(records')
        PROVE RecordSound(records[i])' /\ ToSet(records'[i].interrupted) \subseteq ToSet(records'[i].spans)
    <3>1. PICK o : o = records'[i]
      OBVIOUS
    <3>2. RecordSound(o) /\ ToSet(o.interrupted) \subseteq ToSet(o.spans)
      BY <1>16, <1>18, <3>1 DEF AuditInv, RecordsRight
    <3>3. RecordSound(o)'
      BY <2>1, <3>2
    <3> QED
      BY <3>1, <3>2, <3>3 DEF RecordSound
  <2> QED
    BY <1>18, <2>2 DEF RecordsRight
<1> QED
  BY <1>11, <1>12, <1>13, <1>14, <1>15, <1>19, <1>20 DEF AuditInv

(* What is added to the window of a turn that goes on, or is answered.      *)
LEMMA WindowGrows ==
    ASSUME NEW w \in Seq(Roles), w # <<>>, w[1] = "user", \A n \in 2 .. Len(w) : w[n] # "user" /\ w[n] # "answer",
           NEW role \in Roles, role # "user", NEW v, v = Append(w, role)
    PROVE  /\ v \in Seq(Roles) /\ v # <<>> /\ v[1] = "user" /\ \A n \in 2 .. Len(v) : v[n] # "user"
           /\ Len(v) > 1 /\ v[Len(v)] = role
           /\ \A n \in 2 .. Len(v) : v[n] = "answer" => n = Len(v) /\ role = "answer"
<1>1. /\ v \in Seq(Roles) /\ Len(w) \in Nat \ {0} /\ Len(v) = Len(w) + 1 /\ v[Len(w) + 1] = role
      /\ \A n \in 1 .. Len(w) : v[n] = w[n]
  OBVIOUS
<1>2. 1 \in 1 .. Len(w) /\ Len(v) > 1 /\ \A n \in 2 .. Len(v) : n = Len(v) \/ (n \in 2 .. Len(w) /\ n \in 1 .. Len(w))
  BY <1>1
<1>3. v # <<>>
  BY <1>1, <1>2
<1> QED
  BY <1>1, <1>2, <1>3

LEMMA WindowsWith ==
    ASSUME WindowsSound, NEW t \in Turn, exit[t] = "none", UNCHANGED exit, NEW v \in Seq(Roles),
           v # <<>>, v[1] = "user", \A n \in 2 .. Len(v) : v[n] # "user" /\ v[n] # "answer",
           window' = [window EXCEPT ![t] = v], \A u \in Turn : u # t => phase'[u] = phase[u]
    PROVE  WindowsSound'
<1>1. PICK V : V = Seq(Roles)
  OBVIOUS
<1>2. window \in [Turn -> V] /\ v \in V
  BY <1>1 DEF WindowsSound
<1>3. window' \in [Turn -> V] /\ window'[t] = v /\ \A u \in Turn : u # t => window'[u] = window[u]
  BY <1>2
<1>4. ASSUME NEW u \in Turn, phase'[u] \in {"model", "tools", "over"}
      PROVE  /\ window'[u] # <<>> /\ window'[u][1] = "user"
             /\ \A n \in 2 .. Len(window'[u]) : window'[u][n] # "user"
             /\ exit[u] = "answer" => Len(window'[u]) > 1 /\ window'[u][Len(window'[u])] = "answer"
             /\ \A n \in 2 .. Len(window'[u]) : window'[u][n] = "answer" => n = Len(window'[u]) /\ exit[u] = "answer"
  <2>1. CASE u = t
    BY <1>3, <2>1
  <2>2. CASE u # t
    <3>1. phase[u] \in {"model", "tools", "over"} /\ window'[u] = window[u]
      BY <1>3, <1>4, <2>2
    <3>2. /\ window[u] # <<>> /\ window[u][1] = "user"
          /\ \A n \in 2 .. Len(window[u]) : window[u][n] # "user"
          /\ exit[u] = "answer" => Len(window[u]) > 1 /\ window[u][Len(window[u])] = "answer"
          /\ \A n \in 2 .. Len(window[u]) : window[u][n] = "answer" => n = Len(window[u]) /\ exit[u] = "answer"
      BY <3>1, Zenon DEF WindowsSound
    <3> QED
      BY <3>1, <3>2
  <2> QED
    BY <2>1, <2>2
<1> QED
  BY <1>1, <1>3, <1>4 DEF WindowsSound

(* The queue when a turn ends: its report is due, and who waits is woken.   *)
LEMMA EndShift ==
    ASSUME CallsInv, AuditInv, NEW d \in {"reply", "batch"}, Runs(d), NEW t, t = Head(ready).turn,
           NEW how \in {"answer", "error", "abandoned"}, EndTurn(t, how),
           NEW e, e = IF how = "abandoned" THEN "emit" ELSE "notify"
    PROVE  Shifts(<<d, t>>, <<e, t>>) /\ KeepsCalls /\ \A x : InFront(ready, x, Task(d, t)) => ~InQueue(ready, x)
<1>1. QueueTyped /\ Distinct(ready) /\ TurnsTyped /\ TurnsLined
  BY DEF CallsInv, AuditInv
<1>2. /\ ready # <<>> /\ t \in Turn /\ Head(ready) = Task(d, t) 
      /\ phase[t] = (IF d = "reply" THEN "model" ELSE "tools") /\ lock = t
  BY TurnRuns
<1>3. \A x : InFront(ready, x, Head(ready)) => ~InQueue(ready, x)
  <2>1. PICK s : s = Tail(ready)
    OBVIOUS
  <2> QED
    BY <1>1, <1>2, <2>1, TailQueue DEF QueueTyped
<1>4. PICK x : x = Task(e, t)
  OBVIOUS
<1>5. PICK y : y = Task("turn", Head(waiters))
  OBVIOUS
<1>6. x \in LoopTask /\ ~InQueue(ready, x) /\ e \in {"emit", "notify"}
  <2>1. e \in {"emit", "notify"}
    OBVIOUS
  <2>2. ~Due(ready, e, t)
    BY <1>2, <2>1 DEF AuditInv, ReportsInLine
  <2> QED
    BY <1>2, <1>4, <2>1, <2>2, TaskIs DEF Due, TaskKind
<1>7. waiters # <<>> => y \in LoopTask /\ ~InQueue(ready, y) /\ x # y /\ Head(waiters) \in Turn
  <2>1. waiters # <<>> => Head(waiters) \in ToSet(waiters) /\ Head(waiters) \in Turn
    BY <1>1, LineIs DEF TurnsTyped
  <2>2. t # NoTurn
    BY <1>2, TurnAssumption
  <2> QED
    BY <1>1, <1>2, <1>4, <1>5, <1>6, <2>1, <2>2, TaskIs DEF TurnsLined, TaskKind
<1>8. PICK l : l = ReportTask(t, how) \o Woken
  OBVIOUS
<1>9. Yields(<<>>, l)
  BY <1>8 DEF EndTurn
<1>10. PICK B : B = IF waiters = <<>> THEN {x} ELSE {x, y}
  OBVIOUS
<1>11. l \in Seq(LoopTask) /\ Distinct(l) /\ \A z : InQueue(l, z) <=> z \in B
  <2>1. PICK f : f = <<x>>
    OBVIOUS
  <2>2. ReportTask(t, how) = f
    BY <1>4, <2>1 DEF ReportTask
  <2>3. CASE waiters = <<>>
    <3>1. f \in Seq(LoopTask) /\ (\A z : InQueue(f, z) <=> z = x) /\ Distinct(f)
      BY <1>6, <2>1, FewTasks DEF Distinct
    <3>2. l = f \o <<>>
      BY <1>8, <2>2, <2>3 DEF Woken
    <3>3. l = f
      BY <3>1, <3>2
    <3> QED
      BY <1>10, <2>3, <3>1, <3>3
  <2>4. CASE waiters # <<>>
    <3>1. PICK h : h = <<y>>
      OBVIOUS
    <3>2. l = f \o h
      BY <1>5, <1>8, <2>2, <2>4, <3>1 DEF Woken
    <3>3. l \in Seq(LoopTask) /\ \A z : InQueue(l, z) <=> z = x \/ z = y
      BY <1>6, <1>7, <2>1, <2>4, <3>1, <3>2, FewTasks
    <3>4. f \in Seq(LoopTask) /\ Len(f) = 1 /\ f[1] = x /\ h \in Seq(LoopTask) /\ Len(h) = 1 /\ h[1] = y
      BY <1>6, <1>7, <2>1, <2>4, <3>1
    <3>5. Len(l) = 2 /\ l[1] = x /\ l[2] = y
      <4>1. f \in Seq(LoopTask) /\ h \in Seq(LoopTask) 
        BY <3>4
      <4>2. Len(l) = Len(f) + Len(h) /\ (\A i \in 1 .. Len(f) : l[i] = f[i]) /\ \A i \in 1 .. Len(h) : l[Len(f) + i] = h[i]
        BY <3>2, <4>1
      <4>3. 1 \in 1 .. 1 /\ 1 + 1 = 2
        OBVIOUS
      <4> QED
        BY <3>4, <4>2, <4>3
    <3>6. Distinct(l)
      <4>1. \A i \in 1 .. 2 : i = 1 \/ i = 2
        OBVIOUS
      <4> QED
        BY <1>7, <2>4, <3>5, <4>1 DEF Distinct
    <3> QED
      BY <1>10, <2>4, <3>3, <3>6
  <2> QED
    BY <2>3, <2>4
<1>12. Reordered({}, B, {Head(ready)})
  <2>1. PICK n : n = <<>>
    OBVIOUS
  <2>2. PICK F : F = {}
    OBVIOUS
  <2>3. n \in Seq(LoopTask) /\ Distinct(n) /\ (\A z : InQueue(n, z) <=> z \in F) /\ Yields(n, l)
    BY <1>9, <2>1, <2>2, FewTasks DEF Distinct
  <2>4. \A z : ~(z \in F /\ z \in B) /\ (z \in F \/ z \in B => ~InQueue(ready, z) \/ z = Head(ready))
    BY <1>6, <1>7, <1>10, <2>2
  <2>5. Reordered(F, B, {Head(ready)})
    BY <1>1, <1>2, <1>11, <2>3, <2>4, YieldsApart
  <2> QED
    BY <2>2, <2>5
<1>13. Shifts(<<d, t>>, <<e, t>>)
  <2>1. ASSUME NEW k \in HookKind, NEW u \in Turn
        PROVE  (Task(k, u) \in B <=> <<k, u>> = <<e, t>>) /\ (Task(k, u) \in {Head(ready)} <=> <<k, u>> = <<d, t>>)
    <3>1. k # "turn"
      BY HookTasks
    <3> QED
      BY <1>2, <1>4, <1>5, <1>10, <3>1, TaskIs
  <2> QED
    BY <1>12, <2>1, ShiftIs
<1>14. KeepsCalls
  <2>1. \A id \in Id : CallTask(id) \notin B
    BY <1>4, <1>5, <1>6, <1>10, TaskIs
  <2> QED
    BY <1>12, <2>1, CallsKeptIs
<1> QED
  BY <1>2, <1>3, <1>13, <1>14

(* The end of a turn: one that was not abandoned leaves its slot to its     *)
(* report, and no started hook is ahead of that.                           *)
LEMMA EndAudited ==
    ASSUME CallsInv, AuditInv, NEW d \in {"reply", "batch"}, Runs(d), NEW t, t = Head(ready).turn,
           NEW how \in {"answer", "error", "abandoned"}, EndTurn(t, how), UNCHANGED <<call, lookups, violations>>,
           how = "answer" => d = "reply" /\ t \notin stopped /\ window' = [window EXCEPT ![t] = Append(@, "answer")],
           how = "error" => d = "batch", how # "answer" => UNCHANGED window
    PROVE  AuditInv'
<1>1. PICK e : e = IF how = "abandoned" THEN "emit" ELSE "notify"
  OBVIOUS
<1>2. e \in {"emit", "notify"} /\ (e = "emit" <=> how = "abandoned")
  BY <1>1
<1>3. Shifts(<<d, t>>, <<e, t>>) /\ KeepsCalls /\ \A x : InFront(ready, x, Task(d, t)) => ~InQueue(ready, x)
  BY <1>1, EndShift
<1>4. /\ ready # <<>> /\ t \in Turn /\ Head(ready) = Task(d, t) /\ InQueue(ready, Task(d, t))
      /\ phase[t] = (IF d = "reply" THEN "model" ELSE "tools") /\ lock = t
  <2>1. ready # <<>> /\ t \in Turn /\ Head(ready) = Task(d, t) 
        /\ phase[t] = (IF d = "reply" THEN "model" ELSE "tools") /\ lock = t
    BY TurnRuns
  <2>2. InQueue(ready, Head(ready))
    BY <2>1, TailQueue DEF CallsInv, QueueTyped
  <2> QED
    BY <2>1, <2>2
<1>5. /\ phase' = [phase EXCEPT ![t] = "over"] /\ exit' = [exit EXCEPT ![t] = how]
      /\ UNCHANGED <<stopped, rounds, slot, records>>
  BY DEF EndTurn, auditVars
<1>6. /\ phase'[t] = "over" /\ exit'[t] = how
      /\ \A u \in Turn : u # t => phase'[u] = phase[u] /\ exit'[u] = exit[u] /\ phase[u] \notin {"model", "tools"}
  BY <1>4, <1>5 DEF CallsInv, TurnsTyped, TurnsLined
<1>7. \A u \in Turn : phase'[u] \notin {"model", "tools"}
  BY <1>6
<1>8. /\ \A k \in HookKind, u \in Turn : Due(ready', k, u) <=> (Due(ready, k, u) /\ ~(k = d /\ u = t)) \/ (k = e /\ u = t)
      /\ \A k \in HookKind, m \in HookKind, u \in Turn, v \in Turn :
            ~(k = e /\ u = t) /\ Ahead(ready, k, u, m, v) => Ahead(ready', k, u, m, v)
  BY <1>3 DEF Shifts
<1>9. {"start", "startHook", "reply", "emit", "notify", "hook"} \subseteq HookKind
  BY DEF HookKind
<1>10. \A k, m, u, v : ~Due(ready', k, u) \/ ~Due(ready', m, v) => Ahead(ready', k, u, m, v)
  BY InFrontIs DEF Ahead, Due
<1>11. \A u \in Turn : ~Due(ready, "start", u)
  <2>1. ~Due(ready, "start", t)
    <3>1. CASE d = "reply"
      BY <1>3, <1>4, <3>1 DEF AuditInv, StartsInLine, Ahead, Due
    <3>2. CASE d = "batch"
      BY <1>4, <3>2 DEF AuditInv, StartsInLine
    <3> QED
      BY <3>1, <3>2
  <2> QED
    BY <1>6, <2>1 DEF AuditInv, StartsInLine
<1>12. \A u \in Turn : Due(ready, "startHook", u) => u = t /\ how = "abandoned"
  <2>1. \A u \in Turn : Due(ready, "startHook", u) => u = t
    BY <1>4, <1>11 DEF AuditInv, StartsInLine
  <2>2. how # "abandoned" => ~Due(ready, "startHook", t)
    <3>1. CASE d = "reply"
      BY <1>4, <3>1 DEF AuditInv, StartsInLine, Due
    <3>2. CASE d = "batch"
      BY <1>4, <3>2 DEF AuditInv, StartsInLine
    <3> QED
      BY <3>1, <3>2
  <2> QED
    BY <2>1, <2>2
<1>13. how # "abandoned" => slot.trace = t
  BY <1>4, <1>11, <1>12 DEF AuditInv, SlotInLine
<1>14. ~Due(ready, "emit", t) /\ ~Due(ready, "notify", t) /\ ~Due(ready, "hook", t)
  BY <1>4 DEF AuditInv, ReportsInLine
<1>15. /\ \A u \in Turn : ~Due(ready', "start", u)
       /\ \A u \in Turn : Due(ready', "startHook", u) <=> Due(ready, "startHook", u)
       /\ \A u \in Turn : Due(ready', "hook", u) <=> Due(ready, "hook", u)
       /\ \A u \in Turn : Due(ready', "emit", u) <=> Due(ready, "emit", u) \/ (e = "emit" /\ u = t)
       /\ \A u \in Turn : Due(ready', "notify", u) <=> Due(ready, "notify", u) \/ (e = "notify" /\ u = t)
  BY <1>2, <1>8, <1>9, <1>11
<1>16. StartsInLine'
  <2> SUFFICES ASSUME NEW u \in Turn
               PROVE /\ Due(ready', "start", u) => phase'[u] = "model" /\ ~Due(ready', "startHook", u)
                     /\ Due(ready', "startHook", u) => phase'[u] \in {"model", "over"}
                     /\ Ahead(ready', "start", u, "reply", u)
                     /\ Due(ready', "reply", u) /\ u \notin stopped => ~Due(ready', "start", u) /\ ~Due(ready', "startHook", u)
                     /\ phase'[u] = "tools" => ~Due(ready', "startHook", u)
                     /\ Due(ready', "start", u) \/ Due(ready', "startHook", u) => \A id \in DOMAIN call : id.turn # u
                     /\ \A s \in Turn : s # u =>
                           /\ ~(Due(ready', "startHook", s) /\ Due(ready', "startHook", u))
                           /\ Ahead(ready', "startHook", s, "start", u)
                           /\ Due(ready', "startHook", s) /\ phase'[u] \in {"model", "tools"} => Due(ready', "start", u)
    BY <1>5 DEF StartsInLine
  <2>1. ~Due(ready', "reply", u)
    <3>1. Due(ready, "reply", u) => u = t /\ d = "reply"
      BY <1>4, <1>6 DEF CallsInv, TurnsLined, Due
    <3> QED
      BY <1>2, <1>8, <1>9, <3>1
  <2>2. Due(ready', "startHook", u) => \A id \in DOMAIN call : id.turn # u
    BY <1>15 DEF AuditInv, StartsInLine
  <2>3. Due(ready', "startHook", u) => phase'[u] \in {"model", "over"}
    BY <1>6, <1>12, <1>15
  <2> QED
    BY <1>7, <1>10, <1>12, <1>15, <2>1, <2>2, <2>3
<1>17. ReportsInLine'
  <2> SUFFICES ASSUME NEW u \in Turn
               PROVE /\ Due(ready', "emit", u) \/ Due(ready', "notify", u) \/ Due(ready', "hook", u) => phase'[u] = "over"
                     /\ Due(ready', "emit", u) => exit'[u] = "abandoned" /\ ~Due(ready', "notify", u) /\ ~Due(ready', "hook", u)
                     /\ ~(Due(ready', "notify", u) /\ Due(ready', "hook", u))
                     /\ Returned(u)' => \A v \in Turn : /\ Due(ready', "notify", u) => ~Due(ready', "startHook", v)
                                                        /\ Ahead(ready', "notify", u, "start", v)
                                                        /\ Ahead(ready', "hook", u, "startHook", v)
    BY DEF ReportsInLine
  <2>1. CASE u = t
    <3>1. ~Due(ready', "hook", t) /\ (Due(ready', "emit", t) <=> how = "abandoned") /\ (Due(ready', "notify", t) <=> how # "abandoned")
      BY <1>2, <1>4, <1>14, <1>15
    <3>2. \A v \in Turn : how # "abandoned" => ~Due(ready', "startHook", v)
      BY <1>12, <1>15
    <3>3. Returned(t)' => how # "abandoned"
      BY <1>6 DEF Returned
    <3> QED
      BY <1>6, <1>10, <1>15, <2>1, <3>1, <3>2, <3>3
  <2>2. CASE u # t
    <3>1. /\ Due(ready', "hook", u) <=> Due(ready, "hook", u)
          /\ Due(ready', "emit", u) <=> Due(ready, "emit", u)
          /\ Due(ready', "notify", u) <=> Due(ready, "notify", u)
      BY <1>15, <2>2
    <3>2. Returned(u)' <=> Returned(u)
      BY <1>6, <2>2 DEF Returned
    <3>3. ASSUME Returned(u), NEW v \in Turn
          PROVE /\ Due(ready', "notify", u) => ~Due(ready', "startHook", v)
                /\ Ahead(ready', "hook", u, "startHook", v)
      <4>1. Ahead(ready, "hook", u, "startHook", v) /\ (Due(ready, "notify", u) => ~Due(ready, "startHook", v))
        BY <3>3 DEF AuditInv, ReportsInLine
      <4>2. Ahead(ready', "hook", u, "startHook", v)
        BY <1>8, <1>9, <2>2, <4>1
      <4> QED
        BY <1>15, <3>1, <4>1, <4>2
    <3> QED
      BY <1>6, <1>10, <1>15, <2>2, <3>1, <3>2, <3>3 DEF AuditInv, ReportsInLine
  <2> QED
    BY <2>1, <2>2
<1>18. SlotInLine'
  <2> SUFFICES ASSUME NEW u \in Turn
               PROVE /\ phase'[u] \in {"model", "tools"} => Due(ready', "start", u) \/ Due(ready', "startHook", u) \/ slot.trace = u
                     /\ Returned(u)' /\ (Due(ready', "notify", u) \/ Due(ready', "hook", u)) => slot.trace = u
    BY <1>5 DEF SlotInLine
  <2>1. CASE u = t
    <3>1. Returned(t)' => how # "abandoned"
      BY <1>6 DEF Returned
    <3> QED
      BY <1>7, <1>13, <2>1, <3>1
  <2>2. CASE u # t
    <3>1. Returned(u)' <=> Returned(u)
      BY <1>6, <2>2 DEF Returned
    <3> QED
      BY <1>7, <1>15, <2>2, <3>1 DEF AuditInv, SlotInLine
  <2> QED
    BY <2>1, <2>2
<1>19. RecordsInLine'
  <2>1. ASSUME NEW i \in 1 .. Len(records)
        PROVE /\ records[i].turn \in Turn /\ phase'[records[i].turn] = "over"
              /\ ~Due(ready', "emit", records[i].turn) /\ ~Due(ready', "notify", records[i].turn)
              /\ ~Due(ready', "hook", records[i].turn)
    <3>1. /\ records[i].turn \in Turn /\ phase[records[i].turn] = "over"
          /\ ~Due(ready, "emit", records[i].turn) /\ ~Due(ready, "notify", records[i].turn)
          /\ ~Due(ready, "hook", records[i].turn)
      BY DEF AuditInv, RecordsInLine
    <3>2. records[i].turn # t
      BY <1>4, <3>1
    <3> QED
      BY <1>6, <1>15, <3>1, <3>2
  <2> QED
    BY <1>5, <2>1 DEF AuditInv, RecordsInLine
<1>20. HookedHold /\ Onward
  <2>1. \A u \in Turn : phase[u] = "over" => exit'[u] = exit[u]
    BY <1>4, <1>6
  <2> QED
    BY <2>1, SameCalls
<1>21. SlotSound' /\ RecordsRight'
  BY <1>5, <1>20, SlotStands, RecordsStand DEF AuditInv
<1>22. CallsPlaced'
  <2>1. ASSUME NEW id \in DOMAIN call
        PROVE  /\ phase'[id.turn] \in {"model", "tools", "over"}
               /\ ~(InQueue(ready', CallTask(id)) /\ call[id].state = "waiting")
    <3>1. id \in Id /\ id.turn \in Turn
      BY IdIs DEF CallsInv, CallsFit
    <3>2. phase[id.turn] \in {"model", "tools", "over"}
      BY DEF AuditInv, CallsPlaced
    <3>3. ASSUME InQueue(ready', CallTask(id)), call[id].state = "waiting" PROVE FALSE
      <4>1. /\ InQueue(ready, CallTask(id)) /\ phase[id.turn] = "tools" 
            /\ InFront(ready, CallTask(id), Task("batch", id.turn))
        BY <1>3, <3>1, <3>3 DEF AuditInv, CallsPlaced, KeepsCalls
      <4>2. id.turn = t /\ d = "batch"
        BY <1>4, <1>6, <3>1, <4>1
      <4> QED
        BY <1>3, <4>1, <4>2
    <3> QED
      BY <1>6, <3>1, <3>2, <3>3
  <2> QED
    BY <2>1 DEF CallsPlaced
<1>23. BrokenEnds'
  <2>1. \A u : Broken(u)' <=> Broken(u)
    BY DEF Broken
  <2>2. Broken(t) => d = "batch"
    BY <1>4 DEF AuditInv, BrokenEnds
  <2>3. \A u \in Turn : u # t /\ Broken(u) => phase[u] = "over" /\ exit[u] # "answer"
    BY <1>6 DEF AuditInv, BrokenEnds
  <2> QED
    BY <1>6, <2>1, <2>2, <2>3 DEF BrokenEnds
<1>24. WindowsSound'
  <2>1. window \in [Turn -> Seq(Roles)] /\ exit[t] = "none"
    BY <1>4 DEF AuditInv, WindowsSound, CallsInv, TurnsLined
  <2>2. PICK w : w = window[t]
    OBVIOUS
  <2>3. w \in Seq(Roles) /\ w # <<>> /\ w[1] = "user" /\ \A n \in 2 .. Len(w) : w[n] # "user" /\ w[n] # "answer"
    BY <1>4, <2>1, <2>2 DEF AuditInv, WindowsSound
  <2>4. PICK v : v = Append(w, "answer")
    OBVIOUS
  <2>5. /\ v \in Seq(Roles) /\ v # <<>> /\ v[1] = "user" /\ \A n \in 2 .. Len(v) : v[n] # "user"
        /\ Len(v) > 1 /\ v[Len(v)] = "answer"
        /\ \A n \in 2 .. Len(v) : v[n] = "answer" => n = Len(v)
    <3>1. PICK role : role = "answer"
      OBVIOUS
    <3>2. role \in Roles /\ role # "user" /\ v = Append(w, role)
      BY <2>4, <3>1 DEF Roles
    <3> QED
      BY <2>3, <3>1, <3>2, WindowGrows
  <2>6. /\ window' \in [Turn -> Seq(Roles)] /\ (how = "answer" => window'[t] = v) /\ (how # "answer" => window'[t] = w)
        /\ \A u \in Turn : u # t => window'[u] = window[u]
    <3>1. PICK V : V = Seq(Roles)
      OBVIOUS
    <3>2. window \in [Turn -> V] /\ v \in V
      BY <2>1, <2>5, <3>1
    <3>3. how = "answer" => window' = [window EXCEPT ![t] = v]
      BY <2>2, <2>4
    <3> QED
      BY <1>4, <2>2, <3>1, <3>2, <3>3
  <2>7. ASSUME NEW u \in Turn, phase'[u] \in {"model", "tools", "over"}
        PROVE  /\ window'[u] # <<>> /\ window'[u][1] = "user"
               /\ \A n \in 2 .. Len(window'[u]) : window'[u][n] # "user"
               /\ exit'[u] = "answer" => Len(window'[u]) > 1 /\ window'[u][Len(window'[u])] = "answer"
               /\ \A n \in 2 .. Len(window'[u]) : window'[u][n] = "answer" => n = Len(window'[u]) /\ exit'[u] = "answer"
    <3>1. CASE u = t /\ how = "answer"
      BY <1>6, <2>5, <2>6, <3>1
    <3>2. CASE u = t /\ how # "answer"
      BY <1>6, <2>3, <2>6, <3>2
    <3>3. CASE u # t
      <4>1. phase[u] \in {"model", "tools", "over"} /\ window'[u] = window[u] /\ exit'[u] = exit[u]
        BY <1>6, <2>6, <2>7, <3>3
      <4>2. /\ window[u] # <<>> /\ window[u][1] = "user"
            /\ \A n \in 2 .. Len(window[u]) : window[u][n] # "user"
            /\ exit[u] = "answer" => Len(window[u]) > 1 /\ window[u][Len(window[u])] = "answer"
            /\ \A n \in 2 .. Len(window[u]) : window[u][n] = "answer" => n = Len(window[u]) /\ exit[u] = "answer"
        BY <4>1, Zenon DEF AuditInv, WindowsSound
      <4> QED
        BY <4>1, <4>2
    <3> QED
      BY <3>1, <3>2, <3>3
  <2> QED
    BY <2>6, <2>7 DEF WindowsSound
<1>25. CountsTyped'
  BY <1>5 DEF AuditInv, CountsTyped
<1> QED
  BY <1>3, <1>16, <1>17, <1>18, <1>19, <1>21, <1>22, <1>23, <1>24, <1>25 DEF AuditInv, Shifts

(* A reply of the model is queued: after the started hook of its turn, or   *)
(* because the turn is cancelled.                                          *)
LEMMA ReplyComes ==
    ASSUME StartsInLine, ReportsInLine, SlotInLine, RecordsInLine, NEW t \in Turn, NEW a, a = <<"reply", t>>,
           Shifts(NoHook, a), t \in stopped' \/ (~Due(ready, "start", t) /\ ~Due(ready, "startHook", t)),
           stopped \subseteq stopped', UNCHANGED <<phase, exit, records, slot>>, DOMAIN call' = DOMAIN call
    PROVE  StartsInLine' /\ ReportsInLine' /\ SlotInLine' /\ RecordsInLine'
<1>1. /\ \A d \in HookKind, u \in Turn : Due(ready', d, u) <=> Due(ready, d, u) \/ (d = "reply" /\ u = t)
      /\ \A d \in HookKind, e \in HookKind, u \in Turn, v \in Turn : 
            ~(d = "reply" /\ u = t) /\ Ahead(ready, d, u, e, v) => Ahead(ready', d, u, e, v)
  <2>1. \A d \in HookKind, u \in Turn : <<d, u>> # NoHook
    BY DEF HookKind, NoHook
  <2> QED
    BY <2>1 DEF Shifts
<1>2. {"start", "startHook", "reply", "emit", "notify", "hook"} \subseteq HookKind
  BY DEF HookKind
<1>3. /\ \A d \in HookKind \ {"reply"}, u \in Turn : Due(ready', d, u) <=> Due(ready, d, u)
      /\ \A d \in HookKind \ {"reply"}, e \in HookKind, u \in Turn, v \in Turn : Ahead(ready, d, u, e, v) => Ahead(ready', d, u, e, v)
      /\ {"start", "startHook", "emit", "notify", "hook"} \subseteq HookKind \ {"reply"}
  BY <1>1, <1>2
<1>4. StartsInLine'
  <2> SUFFICES ASSUME NEW u \in Turn
               PROVE /\ Due(ready', "start", u) => phase[u] = "model" /\ ~Due(ready', "startHook", u)
                     /\ Due(ready', "startHook", u) => phase[u] \in {"model", "over"}
                     /\ Ahead(ready', "start", u, "reply", u)
                     /\ Due(ready', "reply", u) /\ u \notin stopped' => ~Due(ready', "start", u) /\ ~Due(ready', "startHook", u)
                     /\ phase[u] = "tools" => ~Due(ready', "startHook", u)
                     /\ Due(ready', "start", u) \/ Due(ready', "startHook", u) => \A id \in DOMAIN call : id.turn # u
                     /\ \A s \in Turn : s # u =>
                           /\ ~(Due(ready', "startHook", s) /\ Due(ready', "startHook", u))
                           /\ Ahead(ready', "startHook", s, "start", u)
                           /\ Due(ready', "startHook", s) /\ phase[u] \in {"model", "tools"} => Due(ready', "start", u)
    BY DEF StartsInLine
  <2>1. Due(ready', "reply", u) /\ u \notin stopped' => ~Due(ready', "start", u) /\ ~Due(ready', "startHook", u)
    BY <1>1, <1>2, <1>3 DEF StartsInLine
  <2> QED
    BY <1>2, <1>3, <2>1 DEF StartsInLine
<1>5. ReportsInLine'
  <2> SUFFICES ASSUME NEW u \in Turn
               PROVE /\ Due(ready', "emit", u) \/ Due(ready', "notify", u) \/ Due(ready', "hook", u) => phase[u] = "over"
                     /\ Due(ready', "emit", u) => exit[u] = "abandoned" /\ ~Due(ready', "notify", u) /\ ~Due(ready', "hook", u)
                     /\ ~(Due(ready', "notify", u) /\ Due(ready', "hook", u))
                     /\ Returned(u) => \A v \in Turn : /\ Due(ready', "notify", u) => ~Due(ready', "startHook", v)
                                                       /\ Ahead(ready', "notify", u, "start", v)
                                                       /\ Ahead(ready', "hook", u, "startHook", v)
    BY DEF ReportsInLine, Returned
  <2> QED
    BY <1>2, <1>3 DEF ReportsInLine
<1>6. SlotInLine'
  <2> SUFFICES ASSUME NEW u \in Turn
               PROVE /\ phase[u] \in {"model", "tools"} => Due(ready', "start", u) \/ Due(ready', "startHook", u) \/ slot.trace = u
                     /\ Returned(u) /\ (Due(ready', "notify", u) \/ Due(ready', "hook", u)) => slot.trace = u
    BY DEF SlotInLine, Returned
  <2> QED
    BY <1>3 DEF SlotInLine
<1>7. RecordsInLine'
  <2>1. ASSUME NEW i \in 1 .. Len(records)
        PROVE /\ records[i].turn \in Turn /\ phase[records[i].turn] = "over"
              /\ ~Due(ready', "emit", records[i].turn) /\ ~Due(ready', "notify", records[i].turn)
              /\ ~Due(ready', "hook", records[i].turn)
    BY <1>3, <2>1 DEF RecordsInLine
  <2> QED
    BY <2>1 DEF RecordsInLine
<1> QED
  BY <1>4, <1>5, <1>6, <1>7

(* The model replies only after the started hook of its turn.              *)
LEMMA ModelRepliesAudited ==
    ASSUME CallsInv, AuditInv, NEW t \in Turn, ModelReplies(t)
    PROVE  AuditInv'
<1>1. PICK x : x = Task("reply", t)
  OBVIOUS
<1>2. /\ phase[t] = "model" /\ ~InQueue(ready, x) /\ ~Due(ready, "start", t) /\ ~Due(ready, "startHook", t) /\ AddsReady(<<x>>)
      /\ UNCHANGED <<phase, stopped, exit, records, slot, call, batch, settled, window, rounds, lookups, violations>>
  BY <1>1, QueuedIs DEF ModelReplies, turnVars, batchVars, auditVars, CallsInv, Due
<1>3. Reordered({}, {x}, {})
  <2>1. x \in LoopTask
    BY <1>1, TaskIs DEF TaskKind
  <2> QED
    BY <1>2, <2>1, OneAdded DEF CallsInv, AuditInv
<1>4. PICK a : a = <<"reply", t>>
  OBVIOUS
<1>5. Shifts(NoHook, a)
  <2>1. \A d \in HookKind, u \in Turn : (Task(d, u) \in {x} <=> <<d, u>> = a) /\ <<d, u>> # NoHook
    BY <1>1, <1>4, TaskIs DEF HookKind, NoHook
  <2> QED
    BY <1>3, <2>1, ShiftIs
<1>6. KeepsCalls
  <2>1. \A id \in Id : CallTask(id) \notin {x}
    BY <1>1, TaskIs
  <2> QED
    BY <1>3, <2>1, CallsKeptIs
<1>7. StartsInLine' /\ ReportsInLine' /\ SlotInLine' /\ RecordsInLine'
  BY <1>2, <1>4, <1>5, ReplyComes DEF AuditInv
<1>8. CallsPlaced' /\ BrokenEnds' /\ WindowsSound' /\ CountsTyped' /\ Distinct(ready') /\ HookedHold /\ Onward
  BY <1>2, <1>5, <1>6, HookRest
<1>9. SlotSound' /\ RecordsRight'
  BY <1>2, <1>8, SlotStands, RecordsStand DEF AuditInv
<1> QED
  BY <1>7, <1>8, <1>9 DEF AuditInv

(* A turn takes the lock, or waits for it.                                 *)
LEMMA BeginAudited ==
    ASSUME CallsInv, AuditInv, Begin
    PROVE  AuditInv'
<1>1. PICK t : t = Head(ready).turn
  OBVIOUS
<1>2. /\ ready # <<>> /\ t \in Turn /\ Head(ready) = Task("turn", t) /\ InQueue(ready, Task("turn", t))
  <2>1. "turn" \in TaskKind /\ QueueTyped /\ Runs("turn")
    BY HookTasks DEF CallsInv, Begin
  <2> QED
    BY <1>1, <2>1, HeadIs
<1>3. phase[t] \in {"queued", "waiting"}
  <2>1. waiters # <<>> => Head(waiters) \in ToSet(waiters)
    BY LineIs DEF CallsInv, TurnsTyped
  <2> QED
    BY <1>2, <2>1 DEF CallsInv, TurnsLined
<1>4. UNCHANGED <<stopped, exit, records, slot, call, batch, settled, rounds, lookups, violations>>
  BY DEF Begin, batchVars, auditVars
<1>5. ASSUME NEW l, NEW B, Yields(<<>>, l), 
             (l = <<>> /\ B = {}) \/ (l = <<Task("start", t)>> /\ B = {Task("start", t)} /\ ~Due(ready, "start", t))
      PROVE  Reordered({}, B, {Head(ready)}) /\ KeepsCalls
  <2>1. Task("start", t) \in LoopTask
    BY <1>2, TaskIs DEF TaskKind
  <2>2. Reordered({}, B, {Head(ready)})
    BY <1>2, <1>5, <2>1, OneYielded DEF CallsInv, AuditInv, Due
  <2>3. \A id \in Id : CallTask(id) \notin B
    BY <1>5, TaskIs
  <2> QED
    BY <2>2, <2>3, CallsKeptIs
<1>6. \A d \in HookKind, u \in Turn : Task(d, u) \notin {Head(ready)} /\ <<d, u>> # NoHook
  BY <1>2, TaskIs, HookTasks DEF HookKind, NoHook
<1>7. CASE ~LockFree(t)
  <2>1. Yields(<<>>, <<>>) /\ phase' = [phase EXCEPT ![t] = "waiting"] /\ UNCHANGED window
    BY <1>1, <1>7 DEF Begin
  <2>2. Reordered({}, {}, {Head(ready)}) /\ KeepsCalls
    <3>1. PICK l : l = <<>>
      OBVIOUS
    <3>2. PICK B : B = {}
      OBVIOUS
    <3>3. Yields(<<>>, l)
      BY <2>1, <3>1
    <3>4. Reordered({}, B, {Head(ready)})
      BY <1>2, <3>1, <3>2, <3>3, OneYielded DEF CallsInv, AuditInv
    <3>5. KeepsCalls
      BY <3>2, <3>4, CallsKeptIs
    <3> QED
      BY <3>2, <3>4, <3>5
  <2>3. Shifts(NoHook, NoHook)
    BY <1>6, <2>2, ShiftIs
  <2>4. PhasesHold /\ \A u \in Turn : phase[u] = "tools" => phase'[u] = "tools"
    BY <1>2, <1>3, <2>1 DEF PhasesHold, CallsInv, TurnsTyped
  <2> QED
    BY <1>4, <2>1, <2>2, <2>3, <2>4, PlainStep
<1>8. CASE LockFree(t)
  <2>1. Yields(<<>>, <<Task("start", t)>>) /\ phase' = [phase EXCEPT ![t] = "model"] /\ window' = [window EXCEPT ![t] = <<"user">>]
    BY <1>1, <1>8 DEF Begin
  <2>2. \A u \in Turn : phase[u] \notin {"model", "tools"}
    BY <1>8, TurnAssumption DEF CallsInv, TurnsLined, LockFree
  <2>3. phase'[t] = "model" /\ \A u \in Turn : u # t => phase'[u] = phase[u]
    BY <1>2, <2>1 DEF CallsInv, TurnsTyped
  <2>4. \A u \in Turn : ~Due(ready, "start", u) /\ ~Due(ready, "reply", u)
    BY <2>2 DEF AuditInv, StartsInLine, CallsInv, TurnsLined, Due
  <2>5. Reordered({}, {Task("start", t)}, {Head(ready)}) /\ KeepsCalls
    BY <1>2, <1>5, <2>1, <2>4
  <2>6. PICK a : a = <<"start", t>>
    OBVIOUS
  <2>7. Shifts(NoHook, a)
    <3>1. \A d \in HookKind, u \in Turn : (Task(d, u) \in {Task("start", t)} <=> <<d, u>> = a)
      BY <2>6, TaskIs
    <3> QED
      BY <1>6, <2>5, <3>1, ShiftIs
  <2>8. /\ \A d \in HookKind, u \in Turn : Due(ready', d, u) <=> Due(ready, d, u) \/ (d = "start" /\ u = t)
        /\ \A d \in HookKind, e \in HookKind, u \in Turn, v \in Turn : 
              ~(d = "start" /\ u = t) /\ Ahead(ready, d, u, e, v) => Ahead(ready', d, u, e, v)
    BY <1>6, <2>6, <2>7 DEF Shifts
  <2>9. {"start", "startHook", "reply", "emit", "notify", "hook"} \subseteq HookKind
    BY DEF HookKind
  <2>10. /\ \A d \in {"startHook", "reply", "emit", "notify", "hook"}, u \in Turn : Due(ready', d, u) <=> Due(ready, d, u)
         /\ \A u \in Turn : Due(ready', "start", u) <=> u = t
         /\ \A d \in {"startHook", "reply", "emit", "notify", "hook"}, e \in HookKind, u \in Turn, v \in Turn : 
               Ahead(ready, d, u, e, v) => Ahead(ready', d, u, e, v)
    BY <2>4, <2>8, <2>9
  <2>11. \A k, m, u, v : ~Due(ready', k, u) \/ ~Due(ready', m, v) => Ahead(ready', k, u, m, v)
    BY InFrontIs DEF Ahead, Due
  <2>12. ~Due(ready, "startHook", t) /\ \A id \in DOMAIN call : id.turn # t
    BY <1>2, <1>3 DEF AuditInv, StartsInLine, CallsPlaced
  <2>13. StartsInLine'
    <3> SUFFICES ASSUME NEW u \in Turn
                 PROVE /\ Due(ready', "start", u) => phase'[u] = "model" /\ ~Due(ready', "startHook", u)
                       /\ Due(ready', "startHook", u) => phase'[u] \in {"model", "over"}
                       /\ Ahead(ready', "start", u, "reply", u)
                       /\ Due(ready', "reply", u) /\ u \notin stopped => ~Due(ready', "start", u) /\ ~Due(ready', "startHook", u)
                       /\ phase'[u] = "tools" => ~Due(ready', "startHook", u)
                       /\ Due(ready', "start", u) \/ Due(ready', "startHook", u) => \A id \in DOMAIN call : id.turn # u
                       /\ \A s \in Turn : s # u =>
                             /\ ~(Due(ready', "startHook", s) /\ Due(ready', "startHook", u))
                             /\ Ahead(ready', "startHook", s, "start", u)
                             /\ Due(ready', "startHook", s) /\ phase'[u] \in {"model", "tools"} => Due(ready', "start", u)
      BY <1>4 DEF StartsInLine
    <3>1. ~Due(ready', "reply", u) /\ (Due(ready', "start", u) <=> u = t) /\ (Due(ready', "startHook", u) <=> Due(ready, "startHook", u))
      BY <2>4, <2>10
    <3>2. \A s \in Turn : s # u => /\ ~(Due(ready', "startHook", s) /\ Due(ready', "startHook", u))
                                   /\ Ahead(ready', "startHook", s, "start", u)
      BY <2>9, <2>10 DEF AuditInv, StartsInLine
    <3>3. Due(ready, "startHook", u) => u # t /\ phase[u] = "over" /\ \A id \in DOMAIN call : id.turn # u
      BY <2>2, <2>12 DEF AuditInv, StartsInLine
    <3>4. phase'[u] \in {"model", "tools"} => u = t
      BY <2>2, <2>3
    <3> QED
      BY <2>3, <2>11, <2>12, <3>1, <3>2, <3>3, <3>4
  <2>14. ReportsInLine'
    <3> SUFFICES ASSUME NEW u \in Turn
                 PROVE /\ Due(ready', "emit", u) \/ Due(ready', "notify", u) \/ Due(ready', "hook", u) => phase'[u] = "over"
                       /\ Due(ready', "emit", u) => exit[u] = "abandoned" /\ ~Due(ready', "notify", u) /\ ~Due(ready', "hook", u)
                       /\ ~(Due(ready', "notify", u) /\ Due(ready', "hook", u))
                       /\ Returned(u) => \A v \in Turn : /\ Due(ready', "notify", u) => ~Due(ready', "startHook", v)
                                                         /\ Ahead(ready', "notify", u, "start", v)
                                                         /\ Ahead(ready', "hook", u, "startHook", v)
      BY <1>4 DEF ReportsInLine, Returned
    <3>1. phase[u] = "over" => phase'[u] = "over"
      BY <1>3, <2>3
    <3> QED
      BY <2>9, <2>10, <3>1 DEF AuditInv, ReportsInLine
  <2>15. SlotInLine'
    <3> SUFFICES ASSUME NEW u \in Turn
                 PROVE /\ phase'[u] \in {"model", "tools"} => Due(ready', "start", u) \/ Due(ready', "startHook", u) \/ slot.trace = u
                       /\ Returned(u) /\ (Due(ready', "notify", u) \/ Due(ready', "hook", u)) => slot.trace = u
      BY <1>4 DEF SlotInLine, Returned
    <3> QED
      BY <2>2, <2>3, <2>10 DEF AuditInv, SlotInLine
  <2>16. RecordsInLine'
    <3>1. ASSUME NEW i \in 1 .. Len(records)
          PROVE /\ records[i].turn \in Turn /\ phase'[records[i].turn] = "over"
                /\ ~Due(ready', "emit", records[i].turn) /\ ~Due(ready', "notify", records[i].turn)
                /\ ~Due(ready', "hook", records[i].turn)
      BY <1>3, <2>3, <2>10, <3>1 DEF AuditInv, RecordsInLine
    <3> QED
      BY <1>4, <3>1 DEF AuditInv, RecordsInLine
  <2>17. HookedHold /\ Onward
    BY <1>4, SameCalls
  <2>18. SlotSound' /\ RecordsRight'
    BY <1>4, <2>17, SlotStands, RecordsStand DEF AuditInv
  <2>19. CallsPlaced'
    <3>1. ASSUME NEW id \in DOMAIN call
          PROVE  /\ phase'[id.turn] \in {"model", "tools", "over"}
                 /\ ~(InQueue(ready', CallTask(id)) /\ call[id].state = "waiting")
      <4>1. id \in Id /\ id.turn \in Turn /\ id.turn # t
        BY <2>12, IdIs DEF CallsInv, CallsFit
      <4> QED
        BY <2>2, <2>3, <2>5, <4>1 DEF AuditInv, CallsPlaced, KeepsCalls
    <3> QED
      BY <1>4, <3>1 DEF CallsPlaced
  <2>20. BrokenEnds'
    <3>1. \A u \in Turn : Broken(u)' => Broken(u)
      BY <1>4 DEF Broken
    <3>2. \A u \in Turn : phase[u] \in {"tools", "over"} => phase'[u] = phase[u]
      BY <1>3, <2>3
    <3> QED
      BY <1>4, <3>1, <3>2, BrokenHolds DEF AuditInv
  <2>21. CountsTyped'
    BY <1>4 DEF AuditInv, CountsTyped
  <2>22. WindowsSound'
    <3>1. PICK w : w = <<"user">>
      OBVIOUS
    <3>2. w \in Seq(Roles) /\ w # <<>> /\ w[1] = "user" /\ Len(w) = 1 /\ \A n \in 2 .. Len(w) : FALSE
      BY <3>1 DEF Roles
    <3>3. exit[t] = "none"
      BY <1>2, <1>3 DEF CallsInv, TurnsLined
    <3>4. window' = [window EXCEPT ![t] = w]
      BY <2>1, <3>1
    <3> QED
      BY <1>2, <1>4, <2>3, <3>2, <3>3, <3>4, WindowsWith DEF AuditInv
  <2> QED
    BY <2>7, <2>13, <2>14, <2>15, <2>16, <2>18, <2>19, <2>20, <2>21, <2>22 DEF AuditInv, Shifts
<1> QED
  BY <1>7, <1>8

(* A batch is started: the queue, and what waits in it.                    *)
LEMMA LaunchShift ==
    ASSUME CallsInv, AuditInv, NEW d \in {"reply", "batch"}, Runs(d), NEW t, t = Head(ready).turn,
           NEW B, B # <<>>, Prepared(B, t, call', ready), Launches(Head(B))
    PROVE  /\ Shifts(<<d, t>>, NoHook)
           /\ \A id \in Id : InQueue(ready', CallTask(id)) <=> InQueue(ready, CallTask(id)) \/ id \in ToSet(batch')
           /\ \A id \in ToSet(batch') : InBatches(B, id)
           /\ \A x : InFront(ready, x, Task(d, t)) => ~InQueue(ready, x)
<1>1. QueueTyped /\ Distinct(ready)
  BY DEF CallsInv, AuditInv
<1>2. /\ ready # <<>> /\ t \in Turn /\ Head(ready) = Task(d, t)
  BY TurnRuns
<1>3. \A x : InFront(ready, x, Head(ready)) => ~InQueue(ready, x)
  <2>1. PICK s : s = Tail(ready)
    OBVIOUS
  <2> QED
    BY <1>1, <1>2, <2>1, TailQueue DEF QueueTyped
<1>4. PICK h : h = Head(B)
  OBVIOUS
<1>5. PICK T : T = Tail(B)
  OBVIOUS
<1>6. /\ h \in Seq(Asked) /\ Ids(h) \in Seq(Id) /\ IsInjective(Ids(h))
      /\ \A id \in ToSet(Ids(h)) : InBatches(B, id)
  BY <1>4, <1>5, FirstBatch
<1>7. batch' = Ids(h)
  BY <1>4 DEF Launches
<1>8. PICK k : k = [i \in DOMAIN h |-> CallTask(h[i].id)]
  OBVIOUS
<1>9. k \in Seq(LoopTask) /\ Single(k) /\ \A x : InQueue(k, x) <=> \E id \in ToSet(batch') : x = CallTask(id)
  BY <1>6, <1>7, <1>8, TasksAre
<1>10. \A id \in ToSet(batch') : ~InQueue(ready, CallTask(id)) /\ id \in Id
  <2>1. \A id \in ToSet(Ids(h)) : id \in Id
    BY <1>6 DEF ToSet
  <2> QED
    BY <1>6, <1>7, <2>1 DEF Prepared
<1>11. Distinct(k)
  <2>1. \A x : InQueue(k, x) => Lone(x)
    BY <1>9, <1>10, TaskIs
  <2>2. \A i \in 1 .. Len(k) : Lone(k[i])
    BY <2>1 DEF InQueue
  <2> QED
    BY <1>9, <2>2 DEF Distinct, Single
<1>12. PICK K : K = {CallTask(id) : id \in ToSet(batch')}
  OBVIOUS
<1>13. \A x : InQueue(k, x) <=> x \in K
  BY <1>9, <1>12
<1>14. PICK F, L : Reordered(F, L, {Head(ready)}) /\ F \cup L = K
  <2>1. PICK n : n = <<>>
    OBVIOUS
  <2>2. PICK E : E = {}
    OBVIOUS
  <2>3. n \in Seq(LoopTask) /\ Distinct(n) /\ (\A z : InQueue(n, z) <=> z \in E)
    BY <2>1, <2>2, FewTasks DEF Distinct
  <2>4. \A z \in K : ~InQueue(ready, z)
    BY <1>10, <1>12
  <2>5. Yields(k, n) \/ Yields(n, k)
    BY <1>4, <1>8, <2>1 DEF Launches
  <2>6. ASSUME Yields(k, n) PROVE Reordered(K, E, {Head(ready)})
    <3>1. \A z : ~(z \in K /\ z \in E) /\ (z \in K \/ z \in E => ~InQueue(ready, z) \/ z = Head(ready))
      BY <2>2, <2>4
    <3> QED
      BY <1>1, <1>2, <1>9, <1>11, <1>13, <2>3, <2>6, <3>1, YieldsApart
  <2>7. ASSUME Yields(n, k) PROVE Reordered(E, K, {Head(ready)})
    <3>1. \A z : ~(z \in E /\ z \in K) /\ (z \in E \/ z \in K => ~InQueue(ready, z) \/ z = Head(ready))
      BY <2>2, <2>4
    <3> QED
      BY <1>1, <1>2, <1>9, <1>11, <1>13, <2>3, <2>7, <3>1, YieldsApart
  <2>8. K \cup E = K /\ E \cup K = K
    BY <2>2
  <2> QED
    BY <2>5, <2>6, <2>7, <2>8
<1>15. \A z \in K : \E id \in Id : z = CallTask(id)
  BY <1>10, <1>12
<1>16. Shifts(<<d, t>>, NoHook)
  <2>1. ASSUME NEW e \in HookKind, NEW u \in Turn
        PROVE  /\ Task(e, u) \notin F /\ (Task(e, u) \in L <=> <<e, u>> = NoHook)
               /\ (Task(e, u) \in {Head(ready)} <=> <<e, u>> = <<d, t>>)
    <3>1. Task(e, u) \notin K
      BY <1>15, TaskIs, HookTasks
    <3>2. <<e, u>> # NoHook
      BY DEF NoHook, HookKind
    <3> QED
      BY <1>2, <1>14, <3>1, <3>2, TaskIs
  <2> QED
    BY <1>14, <2>1, ShiftIs
<1>17. ASSUME NEW id \in Id
       PROVE  InQueue(ready', CallTask(id)) <=> InQueue(ready, CallTask(id)) \/ id \in ToSet(batch')
  <2>1. CallTask(id) # Head(ready)
    BY <1>2, TaskIs
  <2>2. CallTask(id) \in K <=> id \in ToSet(batch')
    BY <1>12, TaskIs
  <2>3. InQueue(ready', CallTask(id)) <=> CallTask(id) \in F \cup L \/ InQueue(ready, CallTask(id))
    BY <1>14, <2>1 DEF Reordered
  <2> QED
    BY <1>14, <2>2, <2>3
<1> QED
  BY <1>2, <1>3, <1>6, <1>7, <1>16, <1>17

LEMMA LaunchPlaced ==
    ASSUME CallsInv, CallsInv', AuditInv, NEW d \in {"reply", "batch"}, Runs(d), NEW t, t = Head(ready).turn,
           NEW B, B # <<>>, Prepared(B, t, call', ready), Launches(Head(B)), phase'[t] = "tools",
           \A u \in Turn : u # t => phase'[u] = phase[u],
           \A id \in DOMAIN call : call'[id] = call[id], \A id \in DOMAIN call' \ DOMAIN call : id.turn = t
    PROVE  CallsPlaced'
<1>1. /\ \A id \in Id : InQueue(ready', CallTask(id)) <=> InQueue(ready, CallTask(id)) \/ id \in ToSet(batch')
      /\ \A id \in ToSet(batch') : InBatches(B, id)
      /\ \A x : InFront(ready, x, Task(d, t)) => ~InQueue(ready, x)
  BY LaunchShift
<1>2. \A u \in Turn : ~InQueue(ready', Task("batch", u))
  <2>1. settled' = "open"
    BY DEF Launches
  <2> QED
    BY <2>1 DEF CallsInv, TurnsLined
<1>3. t \in Turn /\ phase[t] = (IF d = "reply" THEN "model" ELSE "tools") /\ \A u \in Turn : phase[u] = "tools" => u = t
  BY TurnRuns DEF CallsInv, TurnsLined
<1>4. ASSUME NEW id \in DOMAIN call'
      PROVE  /\ phase'[id.turn] \in {"model", "tools", "over"}
             /\ InQueue(ready', CallTask(id)) /\ call'[id].state = "waiting" =>
                   /\ phase'[id.turn] = "tools" /\ id \in ToSet(batch')
                   /\ InFront(ready', CallTask(id), Task("batch", id.turn))
  <2>1. id \in Id /\ id.turn \in Turn
    BY IdIs DEF CallsInv, CallsFit
  <2>2. phase'[id.turn] \in {"model", "tools", "over"}
    <3>1. CASE id \in DOMAIN call
      BY <2>1, <3>1 DEF AuditInv, CallsPlaced
    <3>2. CASE id \notin DOMAIN call
      BY <3>2
    <3> QED
      BY <3>1, <3>2
  <2>3. ASSUME InQueue(ready', CallTask(id)), call'[id].state = "waiting" PROVE id \in ToSet(batch')
    <3>1. ASSUME InQueue(ready, CallTask(id)) PROVE FALSE
      <4>1. id \in DOMAIN call /\ call[id].state = "waiting"
        BY <2>1, <2>3, <3>1 DEF CallsInv, CallsFit
      <4>2. phase[id.turn] = "tools" /\ InFront(ready, CallTask(id), Task("batch", id.turn))
        BY <3>1, <4>1 DEF AuditInv, CallsPlaced
      <4>3. id.turn = t /\ d = "batch"
        BY <1>3, <2>1, <4>2
      <4> QED
        BY <1>1, <3>1, <4>2, <4>3
    <3> QED
      BY <1>1, <2>1, <2>3, <3>1
  <2>4. id \in ToSet(batch') => id.turn = t
    BY <1>1 DEF Prepared
  <2>5. InFront(ready', CallTask(id), Task("batch", id.turn))
    BY <1>2, <2>1, InFrontIs
  <2> QED
    BY <2>2, <2>3, <2>4, <2>5
<1> QED
  BY <1>4 DEF CallsPlaced

(* The next batch of an answer, and the request after the last one.        *)
LEMMA NextBatchAudited ==
    ASSUME CallsInv, CallsInv', AuditInv, Runs("batch"), NEW t, t = Head(ready).turn, settled = "done", batches # <<>>,
           Launches(Head(batches)),
           UNCHANGED <<phase, stopped, exit, records, slot, call, window, rounds, lookups, violations>>
    PROVE  AuditInv'
<1>1. t \in Turn /\ phase[t] = "tools"
  BY TurnRuns
<1>2. Prepared(batches, t, call', ready)
  BY <1>1 DEF CallsInv, BatchTyped, BatchSound
<1>3. Shifts(<<"batch", t>>, NoHook)
  BY <1>2, LaunchShift
<1>4. Shifts(NoHook, NoHook)
  <2>1. \A d \in HookKind, u \in Turn : <<d, u>> # <<"batch", t>> /\ <<d, u>> # NoHook
    BY DEF HookKind, NoHook
  <2> QED
    BY <1>3, <2>1 DEF Shifts
<1>5. PhasesHold
  BY DEF PhasesHold
<1>6. StartsInLine' /\ ReportsInLine' /\ SlotInLine' /\ RecordsInLine'
  BY <1>4, <1>5, HooksHold DEF AuditInv
<1>7. HookedHold /\ Onward
  BY SameCalls
<1>8. SlotSound' /\ RecordsRight'
  BY <1>7, SlotStands, RecordsStand DEF AuditInv
<1>9. WindowsSound' /\ CountsTyped'
  BY <1>5, WindowsHold DEF AuditInv
<1>10. CallsPlaced'
  BY <1>1, <1>2, LaunchPlaced
<1>11. BrokenEnds'
  <2>1. \A u \in Turn : Broken(u)' => Broken(u)
    BY DEF Broken
  <2> QED
    BY <2>1 DEF AuditInv, BrokenEnds
<1> QED
  BY <1>4, <1>6, <1>8, <1>9, <1>10, <1>11 DEF AuditInv, Shifts

(* The results of an answer's calls are in the window of the next request.  *)
LEMMA ResultsAdded ==
    ASSUME NEW t \in Turn, NEW r \in 1 .. MaxRounds, NEW C, C \subseteq Id, NEW S, S = {c \in C : c.turn = t /\ c.round = r}
    PROVE  Cardinality(S) \in Nat
<1> DEFINE f == [m \in 1 .. MaxCalls |-> [turn |-> t, round |-> r, n |-> m]]
           T == {f[m] : m \in 1 .. MaxCalls}
<1>1. f \in Surjection(1 .. MaxCalls, T)
  BY DEF Surjection
<1>2. MaxCalls \in Nat
  BY TurnAssumption
<1>3. IsFiniteSet(T)
  <2>1. IsFiniteSet(1 .. MaxCalls)
    BY <1>2, FS_Interval
  <2> HIDE DEF f, T
  <2> QED
    BY <1>1, <2>1, FS_Surjection
<1>4. S \subseteq T
  <2> SUFFICES ASSUME NEW c \in S PROVE c \in T
    OBVIOUS
  <2>1. c \in Id /\ c.turn = t /\ c.round = r
    OBVIOUS
  <2>2. c.n \in 1 .. MaxCalls /\ c = [turn |-> t, round |-> r, n |-> c.n]
    BY <2>1 DEF Id
  <2>3. c = f[c.n]
    BY <2>2
  <2> QED
    BY <2>2, <2>3
<1> QED
  BY <1>3, <1>4, FS_Subset, FS_CardinalityType

LEMMA ResumeAudited ==
    ASSUME CallsInv, CallsInv', AuditInv, Runs("batch"), NEW t, t = Head(ready).turn, settled = "done",
           phase' = [phase EXCEPT ![t] = "model"], Yields(<<>>, <<>>),
           window' = [window EXCEPT ![t] =
              @ \o [n \in 1 .. Cardinality({c \in DOMAIN call : c.turn = t /\ c.round = rounds[t]}) |-> "tool"]],
           UNCHANGED <<stopped, exit, rounds, call, slot, records, lookups, violations>>
    PROVE  AuditInv'
<1>1. /\ ready # <<>> /\ t \in Turn /\ Head(ready) = Task("batch", t) /\ phase[t] = "tools"
  BY TurnRuns
<1>2. \A x : InFront(ready, x, Task("batch", t)) => ~InQueue(ready, x)
  <2>1. PICK s : s = Tail(ready)
    OBVIOUS
  <2> QED
    BY <1>1, <2>1, TailQueue DEF CallsInv, QueueTyped
<1>3. phase'[t] = "model" /\ \A u \in Turn : u # t => phase'[u] = phase[u] /\ phase[u] # "tools"
  BY <1>1 DEF CallsInv, TurnsTyped, TurnsLined
<1>4. PICK B : B = {}
  OBVIOUS
<1>5. Reordered({}, B, {Head(ready)}) /\ KeepsCalls
  <2>1. PICK l : l = <<>>
    OBVIOUS
  <2>2. Yields(<<>>, l)
    BY <2>1
  <2>3. Reordered({}, B, {Head(ready)})
    BY <1>1, <1>4, <2>1, <2>2, OneYielded DEF CallsInv, AuditInv
  <2>4. KeepsCalls
    BY <1>4, <2>3, CallsKeptIs
  <2> QED
    BY <2>3, <2>4
<1>6. Shifts(NoHook, NoHook)
  <2>1. \A d \in HookKind, u \in Turn : Task(d, u) \notin {Head(ready)} /\ Task(d, u) \notin B /\ <<d, u>> # NoHook
    BY <1>1, <1>4, TaskIs, HookTasks DEF HookKind, NoHook
  <2> QED
    BY <1>5, <2>1, ShiftIs
<1>7. PhasesHold
  BY <1>1, <1>3 DEF PhasesHold
<1>8. StartsInLine' /\ ReportsInLine' /\ SlotInLine' /\ RecordsInLine'
  BY <1>6, <1>7, HooksHold DEF AuditInv
<1>9. HookedHold /\ Onward
  BY SameCalls
<1>10. SlotSound' /\ RecordsRight'
  BY <1>9, SlotStands, RecordsStand DEF AuditInv
<1>11. CallsPlaced'
  <2>1. ASSUME NEW id \in DOMAIN call
        PROVE  /\ phase'[id.turn] \in {"model", "tools", "over"}
               /\ ~(InQueue(ready', CallTask(id)) /\ call[id].state = "waiting")
    <3>1. id \in Id /\ id.turn \in Turn /\ phase[id.turn] \in {"model", "tools", "over"}
      BY IdIs DEF CallsInv, CallsFit, AuditInv, CallsPlaced
    <3>2. ASSUME InQueue(ready', CallTask(id)), call[id].state = "waiting" PROVE FALSE
      <4>1. /\ InQueue(ready, CallTask(id)) /\ phase[id.turn] = "tools" 
            /\ InFront(ready, CallTask(id), Task("batch", id.turn))
        BY <1>5, <3>1, <3>2 DEF AuditInv, CallsPlaced, KeepsCalls
      <4>2. id.turn = t
        BY <1>3, <3>1, <4>1
      <4> QED
        BY <1>2, <4>1, <4>2
    <3> QED
      BY <1>3, <3>1, <3>2
  <2> QED
    BY <2>1 DEF CallsPlaced
<1>12. BrokenEnds'
  <2>1. \A u : Broken(u)' <=> Broken(u)
    BY DEF Broken
  <2>2. \A u \in Turn : Broken(u) => u # t /\ phase[u] = "over" /\ exit[u] # "answer"
    BY <1>1, <1>3 DEF AuditInv, BrokenEnds
  <2> QED
    BY <1>3, <2>1, <2>2 DEF BrokenEnds
<1>13. CountsTyped'
  BY DEF AuditInv, CountsTyped
<1>14. WindowsSound'
  <2>1. PICK k : k = Cardinality({c \in DOMAIN call : c.turn = t /\ c.round = rounds[t]})
    OBVIOUS
  <2>2. k \in Nat
    <3>1. rounds[t] \in 0 .. MaxRounds /\ MaxRounds \in Nat /\ DOMAIN call \subseteq Id
      BY <1>1, TurnAssumption DEF AuditInv, CountsTyped, CallsInv, CallsFit
    <3>2. CASE rounds[t] \in 1 .. MaxRounds
      BY <1>1, <2>1, <3>1, <3>2, ResultsAdded
    <3>3. CASE rounds[t] = 0
      <4>1. \A c \in Id : c.round # 0
        BY DEF Id
      <4>2. PICK S : S = {c \in DOMAIN call : c.turn = t /\ c.round = rounds[t]}
        OBVIOUS
      <4>3. S = {}
        BY <3>1, <3>3, <4>1, <4>2
      <4>4. Cardinality(S) = 0
        BY <4>3, FS_EmptySet
      <4>5. k = Cardinality(S)
        BY <2>1, <4>2
      <4> QED
        BY <4>4, <4>5
    <3> QED
      BY <3>1, <3>2, <3>3
  <2>3. exit[t] = "none" /\ window \in [Turn -> Seq(Roles)]
    BY <1>1 DEF CallsInv, TurnsLined, AuditInv, WindowsSound
  <2>4. PICK w : w = window[t]
    OBVIOUS
  <2>5. PICK o : o = [n \in 1 .. k |-> "tool"]
    OBVIOUS
  <2>6. PICK v : v = w \o o
    OBVIOUS
  <2>7. w \in Seq(Roles) /\ w # <<>> /\ w[1] = "user" /\ \A n \in 2 .. Len(w) : w[n] # "user" /\ w[n] # "answer"
    BY <1>1, <2>3, <2>4 DEF AuditInv, WindowsSound
  <2>8. o \in Seq(Roles) /\ Len(o) = k /\ \A n \in 1 .. k : o[n] = "tool"
    BY <2>2, <2>5 DEF Roles
  <2>9. /\ v \in Seq(Roles) /\ Len(v) = Len(w) + k /\ Len(w) \in Nat \ {0} 
        /\ \A n \in 1 .. Len(w) : v[n] = w[n]
        /\ \A n \in 1 .. k : v[Len(w) + n] = o[n]
    <3>1. /\ v \in Seq(Roles) /\ Len(v) = Len(w) + Len(o) /\ Len(w) \in Nat
          /\ \A n \in 1 .. Len(w) : v[n] = w[n]
          /\ \A n \in 1 .. Len(o) : v[Len(w) + n] = o[n]
      <4>1. w \in Seq(Roles) /\ o \in Seq(Roles)
        BY <2>7, <2>8
      <4> QED
        BY <2>6, <4>1
    <3>2. Len(w) # 0
      <4>1. w \in Seq(Roles) /\ w # <<>>
        BY <2>7
      <4> QED
        BY <4>1
    <3>3. Len(o) = k
      BY <2>8
    <3> QED
      BY <3>1, <3>2, <3>3
  <2>10. /\ 1 \in 1 .. Len(w)
         /\ \A n \in 2 .. Len(v) : \/ n \in 2 .. Len(w) /\ n \in 1 .. Len(w)
                                   \/ n - Len(w) \in 1 .. k /\ n = Len(w) + (n - Len(w))
    BY <2>2, <2>9
  <2>11. v[1] = "user" /\ v # <<>>
    BY <2>2, <2>7, <2>9, <2>10
  <2>12. \A n \in 2 .. Len(v) : v[n] # "user" /\ v[n] # "answer"
    <3> SUFFICES ASSUME NEW n \in 2 .. Len(v) PROVE v[n] # "user" /\ v[n] # "answer"
      OBVIOUS
    <3>1. CASE n \in 2 .. Len(w) /\ n \in 1 .. Len(w)
      BY <2>7, <2>9, <3>1
    <3>2. CASE n - Len(w) \in 1 .. k /\ n = Len(w) + (n - Len(w))
      <4>1. PICK m : m = n - Len(w)
        OBVIOUS
      <4>2. m \in 1 .. k /\ n = Len(w) + m
        BY <3>2, <4>1
      <4>3. v[n] = o[m] /\ o[m] = "tool"
        BY <2>8, <2>9, <4>2
      <4> QED
        BY <4>3
    <3> QED
      BY <2>10, <3>1, <3>2
  <2>13. window' = [window EXCEPT ![t] = v]
    BY <2>1, <2>4, <2>5, <2>6
  <2> QED
    BY <1>1, <1>3, <2>3, <2>9, <2>11, <2>12, <2>13, WindowsWith DEF AuditInv
<1> QED
  BY <1>6, <1>8, <1>10, <1>11, <1>12, <1>13, <1>14 DEF AuditInv, Shifts

(* The answer of the model asks for calls.                                 *)
LEMMA AnswerAudited ==
    ASSUME CallsInv, CallsInv', AuditInv, Runs("reply"), NEW t, t = Head(ready).turn, t \notin stopped, MayAsk(t), 
           NEW plan \in Plans, AnswerWithCalls(t, plan)
    PROVE  AuditInv'
<1>1. /\ ready # <<>> /\ t \in Turn /\ Head(ready) = Task("reply", t) /\ phase[t] = "model" /\ Due(ready, "reply", t)
  <2>1. /\ ready # <<>> /\ t \in Turn /\ Head(ready) = Task("reply", t) /\ phase[t] = "model"
    BY TurnRuns
  <2>2. InQueue(ready, Head(ready))
    BY <2>1, TailQueue DEF CallsInv, QueueTyped
  <2> QED
    BY <2>1, <2>2 DEF Due
<1>2. /\ rounds' \in [Turn -> Nat] /\ DOMAIN call \subseteq DOMAIN call' /\ \A c \in DOMAIN call : call'[c] = call[c]
  BY AnswerIs
<1>3. PICK all : /\ all # <<>> /\ Prepared(all, t, call', ready) /\ Launches(Head(all))
                 /\ \A c \in DOMAIN call' \ DOMAIN call :
                       c \in Id /\ c.turn = t /\ c.round <= rounds'[t] /\ CallFits(call'[c]) /\ InBatches(all, c)
  BY AnswerIs
<1>4. /\ phase' = [phase EXCEPT ![t] = "tools"] /\ window' = [window EXCEPT ![t] = Append(@, "calls")]
      /\ rounds' = [rounds EXCEPT ![t] = @ + 1] /\ UNCHANGED <<stopped, exit, lookups, violations, slot, records>>
  BY DEF AnswerWithCalls, auditVars
<1>5. phase'[t] = "tools" /\ \A u \in Turn : u # t => phase'[u] = phase[u] /\ phase[u] \notin {"model", "tools"}
  BY <1>1, <1>4 DEF CallsInv, TurnsTyped, TurnsLined
<1>6. Shifts(<<"reply", t>>, NoHook)
  BY <1>3, LaunchShift
<1>7. CallsPlaced'
  BY <1>2, <1>3, <1>5, LaunchPlaced
<1>8. \A c \in DOMAIN call' \ DOMAIN call : 
         c.turn = t /\ call'[c].state = "waiting" /\ call'[c].shown = "no" /\ call'[c].result = "none"
  BY <1>3 DEF Prepared, CallFits
<1>9. \A u : Hooked(u)' = Hooked(u) /\ Hooked(u) \subseteq DOMAIN call
  <2> SUFFICES ASSUME NEW u PROVE Hooked(u)' = Hooked(u) /\ Hooked(u) \subseteq DOMAIN call
    OBVIOUS
  <2>1. \A c \in DOMAIN call : c \in Hooked(u)' <=> c \in Hooked(u)
    BY <1>2 DEF Hooked
  <2>2. \A c \in DOMAIN call' \ DOMAIN call : c \notin Hooked(u)'
    BY <1>8 DEF Hooked
  <2>3. Hooked(u)' \subseteq DOMAIN call' /\ Hooked(u) \subseteq DOMAIN call
    BY DEF Hooked
  <2> QED
    BY <1>2, <2>1, <2>2, <2>3
<1>10. HookedHold /\ Onward
  BY <1>2, <1>4, <1>9 DEF HookedHold, Onward
<1>11. SlotSound' /\ RecordsRight'
  BY <1>4, <1>10, SlotStands, RecordsStand DEF AuditInv
<1>12. /\ \A d \in HookKind, u \in Turn : Due(ready', d, u) <=> Due(ready, d, u) /\ ~(d = "reply" /\ u = t)
       /\ \A d \in HookKind, e \in HookKind, u \in Turn, v \in Turn : Ahead(ready, d, u, e, v) => Ahead(ready', d, u, e, v)
  <2>1. \A d, u : <<d, u>> = NoHook => d = "none"
    BY DEF NoHook
  <2> QED
    BY <1>6, <2>1 DEF Shifts, HookKind
<1>13. {"start", "startHook", "reply", "emit", "notify", "hook"} \subseteq HookKind
  BY DEF HookKind
<1>14. ~Due(ready, "start", t) /\ ~Due(ready, "startHook", t) /\ slot.trace = t
  BY <1>1 DEF AuditInv, StartsInLine, SlotInLine
<1>15. /\ \A d \in {"start", "startHook", "emit", "notify", "hook"}, u \in Turn : Due(ready', d, u) <=> Due(ready, d, u)
       /\ \A u \in Turn : Due(ready', "reply", u) => Due(ready, "reply", u)
  BY <1>12, <1>13
<1>16. StartsInLine'
  <2> SUFFICES ASSUME NEW u \in Turn
               PROVE /\ Due(ready', "start", u) => phase'[u] = "model" /\ ~Due(ready', "startHook", u)
                     /\ Due(ready', "startHook", u) => phase'[u] \in {"model", "over"}
                     /\ Ahead(ready', "start", u, "reply", u)
                     /\ Due(ready', "reply", u) /\ u \notin stopped => ~Due(ready', "start", u) /\ ~Due(ready', "startHook", u)
                     /\ phase'[u] = "tools" => ~Due(ready', "startHook", u)
                     /\ Due(ready', "start", u) \/ Due(ready', "startHook", u) => \A id \in DOMAIN call' : id.turn # u
                     /\ \A s \in Turn : s # u =>
                           /\ ~(Due(ready', "startHook", s) /\ Due(ready', "startHook", u))
                           /\ Ahead(ready', "startHook", s, "start", u)
                           /\ Due(ready', "startHook", s) /\ phase'[u] \in {"model", "tools"} => Due(ready', "start", u)
    BY <1>4 DEF StartsInLine
  <2>1. Due(ready', "start", u) \/ Due(ready', "startHook", u) => u # t /\ \A id \in DOMAIN call' : id.turn # u
    <3>1. ASSUME Due(ready', "start", u) \/ Due(ready', "startHook", u) PROVE u # t /\ \A id \in DOMAIN call : id.turn # u
      BY <1>14, <1>15, <3>1 DEF AuditInv, StartsInLine
    <3> QED
      BY <1>8, <3>1
  <2>2. \A s \in Turn : s # u => ~(Due(ready', "startHook", s) /\ phase'[u] \in {"model", "tools"})
    <3>1. ASSUME NEW s \in Turn, s # u, Due(ready, "startHook", s), u = t PROVE FALSE
      BY <1>1, <1>14, <3>1 DEF AuditInv, StartsInLine
    <3> QED
      BY <1>5, <1>15, <3>1
  <2>3. Due(ready', "start", u) => FALSE
    <3>1. ASSUME Due(ready, "start", u) PROVE phase[u] = "model" /\ u # t
      BY <1>14, <3>1 DEF AuditInv, StartsInLine
    <3> QED
      BY <1>5, <1>15, <3>1
  <2>4. \A s \in Turn : Ahead(ready', "startHook", s, "start", u)
    BY <2>3, InFrontIs DEF Due, Ahead
  <2> QED
    BY <1>5, <1>12, <1>13, <1>14, <1>15, <2>1, <2>2, <2>3, <2>4 DEF AuditInv, StartsInLine
<1>17. ReportsInLine'
  <2> SUFFICES ASSUME NEW u \in Turn
               PROVE /\ Due(ready', "emit", u) \/ Due(ready', "notify", u) \/ Due(ready', "hook", u) => phase'[u] = "over"
                     /\ Due(ready', "emit", u) => exit[u] = "abandoned" /\ ~Due(ready', "notify", u) /\ ~Due(ready', "hook", u)
                     /\ ~(Due(ready', "notify", u) /\ Due(ready', "hook", u))
                     /\ Returned(u) => \A v \in Turn : /\ Due(ready', "notify", u) => ~Due(ready', "startHook", v)
                                                       /\ Ahead(ready', "notify", u, "start", v)
                                                       /\ Ahead(ready', "hook", u, "startHook", v)
    BY <1>4 DEF ReportsInLine, Returned
  <2>1. phase[u] = "over" => phase'[u] = "over"
    BY <1>1, <1>5
  <2> QED
    BY <1>12, <1>13, <1>15, <2>1 DEF AuditInv, ReportsInLine
<1>18. SlotInLine'
  <2> SUFFICES ASSUME NEW u \in Turn
               PROVE /\ phase'[u] \in {"model", "tools"} => Due(ready', "start", u) \/ Due(ready', "startHook", u) \/ slot.trace = u
                     /\ Returned(u) /\ (Due(ready', "notify", u) \/ Due(ready', "hook", u)) => slot.trace = u
    BY <1>4 DEF SlotInLine, Returned
  <2> QED
    BY <1>5, <1>14, <1>15 DEF AuditInv, SlotInLine
<1>19. RecordsInLine'
  <2>1. ASSUME NEW i \in 1 .. Len(records)
        PROVE /\ records[i].turn \in Turn /\ phase'[records[i].turn] = "over"
              /\ ~Due(ready', "emit", records[i].turn) /\ ~Due(ready', "notify", records[i].turn)
              /\ ~Due(ready', "hook", records[i].turn)
    BY <1>1, <1>5, <1>15, <2>1 DEF AuditInv, RecordsInLine
  <2> QED
    BY <1>4, <2>1 DEF AuditInv, RecordsInLine
<1>20. BrokenEnds'
  <2>1. \A u : Broken(u)' => Broken(u)
    BY <1>2, <1>8 DEF Broken
  <2>2. \A u \in Turn : Broken(u) => u # t /\ phase[u] = "over" /\ exit[u] # "answer"
    BY <1>1, <1>5 DEF AuditInv, BrokenEnds
  <2> QED
    BY <1>4, <1>5, <2>1, <2>2 DEF BrokenEnds
<1>21. CountsTyped'
  <2>1. rounds[t] < MaxRounds /\ rounds \in [Turn -> 0 .. MaxRounds] /\ MaxRounds \in Nat
    BY TurnAssumption DEF MayAsk, AuditInv, CountsTyped
  <2>2. rounds[t] + 1 \in 0 .. MaxRounds
    BY <1>1, <2>1
  <2>3. rounds' \in [Turn -> 0 .. MaxRounds]
    BY <1>4, <2>1, <2>2
  <2> QED
    BY <1>4, <2>3 DEF AuditInv, CountsTyped
<1>22. WindowsSound'
  <2>1. exit[t] = "none" /\ window \in [Turn -> Seq(Roles)]
    BY <1>1 DEF CallsInv, TurnsLined, AuditInv, WindowsSound
  <2>2. PICK w : w = window[t]
    OBVIOUS
  <2>3. w \in Seq(Roles) /\ w # <<>> /\ w[1] = "user" /\ \A n \in 2 .. Len(w) : w[n] # "user" /\ w[n] # "answer"
    BY <1>1, <2>1, <2>2 DEF AuditInv, WindowsSound
  <2>4. PICK role : role = "calls"
    OBVIOUS
  <2>5. PICK v : v = Append(w, role)
    OBVIOUS
  <2>6. role \in Roles /\ role # "user" /\ role # "answer"
    BY <2>4 DEF Roles
  <2>7. /\ v \in Seq(Roles) /\ v # <<>> /\ v[1] = "user" /\ \A n \in 2 .. Len(v) : v[n] # "user"
        /\ \A n \in 2 .. Len(v) : v[n] = "answer" => role = "answer"
    BY <2>3, <2>5, <2>6, WindowGrows
  <2>8. window' = [window EXCEPT ![t] = v]
    BY <1>4, <2>2, <2>4, <2>5
  <2> QED
    BY <1>1, <1>4, <1>5, <2>1, <2>6, <2>7, <2>8, WindowsWith DEF AuditInv
<1> QED
  BY <1>6, <1>7, <1>11, <1>16, <1>17, <1>18, <1>19, <1>20, <1>21, <1>22 DEF AuditInv, Shifts

LEMMA ReplyAudited ==
    ASSUME CallsInv, CallsInv', AuditInv, Reply
    PROVE  AuditInv'
<1>1. PICK t : t = Head(ready).turn
  OBVIOUS
<1>2. Runs("reply")
  BY DEF Reply
<1>3. ASSUME EndTurn(t, "abandoned"), UNCHANGED <<window, call, lookups, violations>> PROVE AuditInv'
  BY <1>1, <1>2, <1>3, EndAudited
<1>4. ASSUME t \notin stopped, window' = [window EXCEPT ![t] = Append(@, "answer")], EndTurn(t, "answer"),
             UNCHANGED <<call, lookups, violations>> 
      PROVE  AuditInv'
  BY <1>1, <1>2, <1>4, EndAudited
<1>5. ASSUME t \notin stopped, MayAsk(t), NEW plan \in Plans, AnswerWithCalls(t, plan) PROVE AuditInv'
  BY <1>1, <1>2, <1>5, AnswerAudited
<1> QED
  BY <1>1, <1>3, <1>4, <1>5 DEF Reply

LEMMA BatchOverAudited ==
    ASSUME CallsInv, CallsInv', AuditInv, BatchOver
    PROVE  AuditInv'
<1>1. PICK t : t = Head(ready).turn
  OBVIOUS
<1>2. Runs("batch") /\ UNCHANGED <<lookups, violations>>
  BY DEF BatchOver
<1>3. ASSUME NEW how \in {"error", "abandoned"}, EndTurn(t, how), UNCHANGED <<window, call>> PROVE AuditInv'
  BY <1>1, <1>2, <1>3, EndAudited
<1>4. ASSUME settled = "done", batches # <<>>, Launches(Head(batches)),
             UNCHANGED <<phase, stopped, exit, window, rounds, call, slot, records>>
      PROVE  AuditInv'
  BY <1>1, <1>2, <1>4, NextBatchAudited
<1>5. ASSUME settled = "done", phase' = [phase EXCEPT ![t] = "model"], Yields(<<>>, <<>>),
             window' = [window EXCEPT ![t] =
                @ \o [n \in 1 .. Cardinality({c \in DOMAIN call : c.turn = t /\ c.round = rounds[t]}) |-> "tool"]],
             UNCHANGED <<stopped, exit, rounds, call, slot, records>>
      PROVE  AuditInv'
  BY <1>1, <1>2, <1>5, ResumeAudited
<1> QED
  BY <1>1, <1>3, <1>4, <1>5 DEF BatchOver, turnVars, auditVars

-----------------------------------------------------------------------------
(* A step of a call.  The spans of the slot: one more, one that is closed.  *)
LEMMA SpanOpens ==
    ASSUME NEW s \in Seq(Id), IsInjective(s), NEW id \in Id, id \notin ToSet(s), NEW q, q = Append(s, id)
    PROVE  q \in Seq(Id) /\ IsInjective(q) /\ ToSet(q) = ToSet(s) \cup {id}
<1>1. /\ q \in Seq(Id) /\ q[Len(s) + 1] = id /\ DOMAIN q = 1 .. Len(q) /\ DOMAIN s = 1 .. Len(s)
      /\ \A i \in 1 .. Len(s) : q[i] = s[i] /\ i \in 1 .. Len(q)
      /\ Len(s) + 1 \in 1 .. Len(q)
      /\ \A i \in 1 .. Len(q) : i \in 1 .. Len(s) \/ i = Len(s) + 1
  BY OneMore
<1>2. \A i \in 1 .. Len(s) : s[i] # id
  BY <1>1 DEF ToSet
<1>3. IsInjective(q)
  BY <1>1, <1>2 DEF IsInjective
<1>4. ToSet(q) = ToSet(s) \cup {id}
  BY <1>1 DEF ToSet
<1> QED
  BY <1>1, <1>3, <1>4

LEMMA SpanCloses ==
    ASSUME NEW s \in Seq(Id), IsInjective(s), NEW id, NEW q, q = RemoveFirst(s, id)
    PROVE  q \in Seq(Id) /\ IsInjective(q) /\ ToSet(q) = ToSet(s) \ {id}
<1>1. /\ DOMAIN s = 1 .. Len(s) /\ Len(s) \in Nat /\ \A i, j \in 1 .. Len(s) : s[i] = s[j] => i = j
      /\ \A i \in 1 .. Len(s) : s[i] \in Id
  BY DEF IsInjective
<1>2. CASE id \notin ToSet(s)
  <2>1. q = s
    BY <1>1, <1>2 DEF RemoveFirst, ToSet
  <2> QED
    BY <1>2, <2>1
<1>3. CASE id \in ToSet(s)
  <2>1. PICK i \in 1 .. Len(s) : s[i] = id
    BY <1>1, <1>3 DEF ToSet
  <2>2. PICK I : I = {j \in 1 .. Len(s) : s[j] = id}
    OBVIOUS
  <2>3. I = {i}
    BY <1>1, <2>1, <2>2
  <2>4. PICK m : m = SelectInSeq(s, LAMBDA v : v = id)
    OBVIOUS
  <2>5. m = Min(I)
    <3>1. m = IF {j \in 1 .. Len(s) : s[j] = id} # {} THEN Min({j \in 1 .. Len(s) : s[j] = id}) ELSE 0
      BY <2>4, Zenon DEF SelectInSeq
    <3>2. m = IF I # {} THEN Min(I) ELSE 0
      BY <2>2, <3>1, Zenon
    <3> QED
      BY <2>3, <3>2
  <2>6. m = i
    BY <2>1, <2>3, <2>5 DEF Min
  <2>7. q = RemoveAt(s, i)
    <3>1. q = RemoveAt(s, m)
      BY <2>1, <2>4, Zenon DEF RemoveFirst
    <3> QED
      BY <2>6, <3>1
  <2>8. PICK a, b : a = SubSeq(s, 1, i - 1) /\ b = SubSeq(s, i + 1, Len(s))
    OBVIOUS
  <2>9. /\ a \in Seq(Id) /\ b \in Seq(Id) /\ Len(a) = i - 1 /\ Len(b) = Len(s) - i
        /\ \A k \in 1 .. i - 1 : a[k] = s[k]
        /\ \A k \in 1 .. Len(s) - i : b[k] = s[i + k]
    <3>1. /\ SubSeq(s, 1, i - 1) \in Seq(Id) /\ Len(SubSeq(s, 1, i - 1)) = i - 1
          /\ \A k \in 1 .. i - 1 : SubSeq(s, 1, i - 1)[k] = s[k]
      OBVIOUS
    <3>2. /\ SubSeq(s, i + 1, Len(s)) \in Seq(Id) /\ Len(SubSeq(s, i + 1, Len(s))) = Len(s) - i
          /\ \A k \in 1 .. Len(s) - i : SubSeq(s, i + 1, Len(s))[k] = s[i + k]
      OBVIOUS
    <3> QED
      BY <2>8, <3>1, <3>2
  <2>10. /\ q \in Seq(Id) /\ Len(q) = Len(a) + Len(b) /\ DOMAIN q = 1 .. Len(q)
         /\ \A k \in 1 .. Len(a) : q[k] = a[k]
         /\ \A k \in 1 .. Len(b) : q[Len(a) + k] = b[k]
    <3>1. a \in Seq(Id) /\ b \in Seq(Id)
      BY <2>9
    <3>2. q = a \o b
      BY <2>7, <2>8 DEF RemoveAt
    <3> QED
      BY <3>1, <3>2
  <2>11. \A k \in 1 .. Len(q) : \/ k < i /\ k \in 1 .. Len(s) /\ k \in 1 .. Len(a) /\ k \in 1 .. i - 1
                                \/ /\ k >= i /\ k + 1 \in 1 .. Len(s) /\ k - Len(a) \in 1 .. Len(b) 
                                   /\ k - Len(a) \in 1 .. Len(s) - i /\ k = Len(a) + (k - Len(a))
                                   /\ i + (k - Len(a)) = k + 1
    BY <1>1, <2>1, <2>9, <2>10
  <2>12. ASSUME NEW k \in 1 .. Len(q)
         PROVE  \/ k < i /\ k \in 1 .. Len(s) /\ q[k] = s[k]
                \/ k >= i /\ k + 1 \in 1 .. Len(s) /\ q[k] = s[k + 1]
    <3>1. CASE k < i /\ k \in 1 .. Len(s) /\ k \in 1 .. Len(a) /\ k \in 1 .. i - 1
      <4>1. q[k] = a[k] /\ a[k] = s[k]
        BY <2>9, <2>10, <3>1
      <4> QED
        BY <3>1, <4>1
    <3>2. CASE /\ k >= i /\ k + 1 \in 1 .. Len(s) /\ k - Len(a) \in 1 .. Len(b) 
               /\ k - Len(a) \in 1 .. Len(s) - i /\ k = Len(a) + (k - Len(a)) /\ i + (k - Len(a)) = k + 1
      <4>1. PICK n : n = k - Len(a)
        OBVIOUS
      <4>2. n \in 1 .. Len(b) /\ n \in 1 .. Len(s) - i /\ k = Len(a) + n /\ i + n = k + 1
        BY <3>2, <4>1
      <4>3. q[Len(a) + n] = b[n] /\ b[n] = s[i + n]
        BY <2>9, <2>10, <4>2
      <4> QED
        BY <3>2, <4>2, <4>3
    <3> QED
      BY <2>11, <3>1, <3>2
  <2>13. \A k \in 1 .. Len(s) : \/ k = i
                                \/ k < i /\ k \in 1 .. Len(q)
                                \/ k > i /\ k - 1 \in 1 .. Len(q) /\ k - 1 >= i /\ k - 1 + 1 = k
    BY <1>1, <2>1, <2>9, <2>10
  <2>14. IsInjective(q)
    <3> SUFFICES ASSUME NEW k \in 1 .. Len(q), NEW l \in 1 .. Len(q), q[k] = q[l] PROVE k = l
      BY <2>10 DEF IsInjective
    <3>1. \/ k < i /\ k \in 1 .. Len(s) /\ q[k] = s[k]
          \/ k >= i /\ k + 1 \in 1 .. Len(s) /\ q[k] = s[k + 1]
      BY <2>12
    <3>2. \/ l < i /\ l \in 1 .. Len(s) /\ q[l] = s[l]
          \/ l >= i /\ l + 1 \in 1 .. Len(s) /\ q[l] = s[l + 1]
      BY <2>12
    <3>3. ASSUME NEW n \in 1 .. Len(s), NEW o \in 1 .. Len(s), s[n] = s[o] PROVE n = o
      BY <1>1, <3>3 DEF IsInjective
    <3>4. k = l \/ k + 1 = l + 1 \/ (k < i /\ k = l + 1 /\ l >= i) \/ (l < i /\ l = k + 1 /\ k >= i)
      <4>1. CASE k < i /\ k \in 1 .. Len(s) /\ q[k] = s[k]
        BY <3>2, <3>3, <4>1
      <4>2. CASE k >= i /\ k + 1 \in 1 .. Len(s) /\ q[k] = s[k + 1]
        BY <3>2, <3>3, <4>2
      <4> QED
        BY <3>1, <4>1, <4>2
    <3> QED
      BY <2>1, <3>4
  <2>15. ASSUME NEW x PROVE x \in ToSet(q) <=> x \in ToSet(s) /\ x # id
    <3>1. ASSUME x \in ToSet(q) PROVE x \in ToSet(s) /\ x # id
      <4>1. PICK k \in 1 .. Len(q) : q[k] = x
        BY <2>10, <3>1 DEF ToSet
      <4>2. PICK n \in 1 .. Len(s) : s[n] = x /\ n # i
        BY <2>1, <2>12, <4>1
      <4> QED
        BY <1>1, <2>1, <4>2 DEF ToSet
    <3>2. ASSUME x \in ToSet(s), x # id PROVE x \in ToSet(q)
      <4>1. PICK n \in 1 .. Len(s) : s[n] = x /\ n # i
        BY <1>1, <2>1, <3>2 DEF ToSet
      <4>2. CASE n < i /\ n \in 1 .. Len(q)
        BY <2>1, <2>10, <2>12, <4>1, <4>2 DEF ToSet
      <4>3. CASE n > i /\ n - 1 \in 1 .. Len(q) /\ n - 1 >= i /\ n - 1 + 1 = n
        <5>1. q[n - 1] = s[n]
          BY <2>1, <2>12, <4>3
        <5> QED
          BY <2>10, <4>1, <4>3, <5>1 DEF ToSet
      <4> QED
        BY <2>13, <4>1, <4>2, <4>3
    <3> QED
      BY <3>1, <3>2
  <2> QED
    BY <2>10, <2>14, <2>15
<1> QED
  BY <1>2, <1>3

(* What a step of a call leaves in the slot: its call passed the guards, or *)
(* has a result now.                                                       *)
Seen(c) == c.result \notin {"throttled", "refused"} /\ (c.shown # "no" \/ c.state = "raised")
SlotGoes(id, c) ==
    \/ (Seen(c) <=> Seen(call[id])) /\ c.result # "ok" /\ UNCHANGED slot
    \/ call[id].state = "waiting" /\ Seen(c) /\ c.result # "ok" /\ slot' = PreInvoke(slot, id)
    \/ call[id].state = "running" /\ Seen(c) /\ c.result = "ok" /\ slot' = PostInvoke(slot, id)

LEMMA CallRuns ==
    ASSUME CallsInv, Runs("call"), NEW id, id = Head(ready).call
    PROVE  /\ ready # <<>> /\ id \in Id /\ Head(ready) = CallTask(id) /\ InQueue(ready, CallTask(id))
           /\ id \in DOMAIN call /\ id.turn \in Turn /\ CallFits(call[id]) /\ call[id].state \in {"waiting", "running"}
<1>1. ready # <<>> /\ Head(ready) \in LoopTask /\ InQueue(ready, Head(ready)) /\ Head(ready).does = "call"
  BY TailQueue DEF CallsInv, QueueTyped, Runs
<1>2. id \in Id /\ Head(ready) = CallTask(id)
  BY <1>1, EntryIs
<1> QED
  BY <1>1, <1>2, IdIs DEF CallsInv, CallsFit, Undone

LEMMA SlotMoves ==
    ASSUME CallsInv, AuditInv, Runs("call"), NEW id, id = Head(ready).call, NEW c, call' = [call EXCEPT ![id] = c],
           UNCHANGED exit, SlotGoes(id, c)
    PROVE  Onward /\ SlotSound' /\ slot'.trace = slot.trace
<1>1. /\ id \in Id /\ id \in DOMAIN call /\ id.turn \in Turn /\ InQueue(ready, CallTask(id))
      /\ CallFits(call[id]) /\ call[id].state \in {"waiting", "running"}
  BY CallRuns
<1>2. /\ call[id].result = "none" /\ (Seen(call[id]) <=> call[id].state = "running")
  BY <1>1 DEF CallFits, Seen
<1>3. DOMAIN call' = DOMAIN call /\ call'[id] = c /\ \A o \in DOMAIN call : o # id => call'[o] = call[o]
  BY <1>1
<1>4. PICK t \in Turn : t = id.turn
  BY <1>1
<1>5. /\ \A u : Hooked(u) = {o \in DOMAIN call : o.turn = u /\ Seen(call[o])}
      /\ \A u : Hooked(u)' = {o \in DOMAIN call : o.turn = u /\ Seen(call'[o])}
  BY <1>3 DEF Hooked, Seen
<1>6. \A u : \A o : o # id => (o \in Hooked(u)' <=> o \in Hooked(u))
  BY <1>3, <1>5
<1>7. \A u : id \in Hooked(u)' <=> u = t /\ Seen(c)
  BY <1>1, <1>3, <1>4, <1>5
<1>8. \A u : id \in Hooked(u) <=> u = t /\ call[id].state = "running"
  BY <1>1, <1>2, <1>4, <1>5
<1>9. call[id].state = "waiting" => phase[t] = "tools"
  BY <1>1, <1>4 DEF AuditInv, CallsPlaced
<1>10. call[id].state = "running" => Seen(c)
  BY <1>2 DEF SlotGoes
<1>11. Onward
  <2> SUFFICES ASSUME NEW u \in Turn, phase[u] = "over" 
               PROVE  /\ Hooked(u)' = Hooked(u)
                      /\ \A o \in Hooked(u) : call[o].result # "none" => call'[o].result = call[o].result
    BY DEF Onward
  <2>1. id \in Hooked(u)' <=> id \in Hooked(u)
    BY <1>1, <1>7, <1>8, <1>9, <1>10
  <2>2. Hooked(u)' = Hooked(u)
    BY <1>6, <2>1
  <2>3. ASSUME NEW o \in Hooked(u), call[o].result # "none" PROVE call'[o].result = call[o].result
    BY <1>2, <1>3, <1>5, <2>3
  <2> QED
    BY <2>2, <2>3
<1>12. CASE (Seen(c) <=> Seen(call[id])) /\ c.result # "ok" /\ UNCHANGED slot
  <2>1. \A u : Hooked(u)' = Hooked(u)
    BY <1>1, <1>2, <1>6, <1>7, <1>8, <1>12
  <2>2. \A o \in DOMAIN call : call'[o].result = "ok" <=> call[o].result = "ok"
    BY <1>2, <1>3, <1>12
  <2>3. HookedHold
    BY <1>5, <2>1, <2>2 DEF HookedHold
  <2> QED
    BY <1>11, <1>12, <2>3, SlotStands DEF AuditInv
<1>13. CASE call[id].state = "waiting" /\ Seen(c) /\ c.result # "ok" /\ slot' = PreInvoke(slot, id)
  <2>1. slot.trace = t
    <3>1. phase[t] = "tools" /\ ~Due(ready, "start", t) /\ ~Due(ready, "startHook", t)
      BY <1>9, <1>13 DEF AuditInv, StartsInLine
    <3> QED
      BY <3>1 DEF AuditInv, SlotInLine
  <2>2. slot # Empty
    BY <2>1, TurnAssumption DEF Empty, NewTurn
  <2>3. SlotOf(slot, t)
    BY <2>1, <2>2 DEF AuditInv, SlotSound, SlotOf
  <2>4. slot' = [slot EXCEPT !.spans = Append(@, id), !.pending = Append(@, id)]
    BY <1>13, <2>2 DEF PreInvoke
  <2>5. PICK s, p : s = slot.spans /\ p = slot.pending
    OBVIOUS
  <2>6. PICK v, w : v = Append(s, id) /\ w = Append(p, id)
    OBVIOUS
  <2>7. /\ DOMAIN slot = {"trace", "spans", "pending"}
        /\ s \in Seq(Id) /\ IsInjective(s) /\ ToSet(s) = Hooked(t)
        /\ p \in Seq(Id) /\ IsInjective(p) /\ ToSet(p) = {o \in Hooked(t) : call[o].result # "ok"}
    BY <2>3, <2>5 DEF SlotOf
  <2>8. id \notin ToSet(s) /\ id \notin ToSet(p)
    BY <1>8, <1>13, <2>7
  <2>9. /\ v \in Seq(Id) /\ IsInjective(v) /\ ToSet(v) = Hooked(t) \cup {id}
        /\ w \in Seq(Id) /\ IsInjective(w) /\ ToSet(w) = {o \in Hooked(t) : call[o].result # "ok"} \cup {id}
    <3>1. v \in Seq(Id) /\ IsInjective(v) /\ ToSet(v) = ToSet(s) \cup {id}
      BY <1>1, <2>6, <2>7, <2>8, SpanOpens
    <3>2. w \in Seq(Id) /\ IsInjective(w) /\ ToSet(w) = ToSet(p) \cup {id}
      BY <1>1, <2>6, <2>7, <2>8, SpanOpens
    <3> QED
      BY <2>7, <3>1, <3>2
  <2>10. DOMAIN slot' = {"trace", "spans", "pending"} /\ slot'.trace = t /\ slot'.spans = v /\ slot'.pending = w
    BY <2>1, <2>4, <2>5, <2>6, <2>7
  <2>11. Hooked(t)' = Hooked(t) \cup {id}
    BY <1>6, <1>7, <1>13
  <2>12. {o \in Hooked(t)' : call'[o].result # "ok"} = {o \in Hooked(t) : call[o].result # "ok"} \cup {id}
    <3>1. \A o \in Hooked(t) : o \in DOMAIN call /\ o # id
      BY <1>5, <1>8, <1>13
    <3> QED
      BY <1>3, <1>13, <2>11, <3>1
  <2>13. SlotOf(slot, t)'
    BY <2>9, <2>10, <2>11, <2>12 DEF SlotOf
  <2> QED
    BY <1>11, <2>1, <2>10, <2>13 DEF SlotSound
<1>14. CASE call[id].state = "running" /\ Seen(c) /\ c.result = "ok" /\ slot' = PostInvoke(slot, id)
  <2>1. CASE slot = Empty
    <3>1. slot' = slot
      BY <1>14, <2>1 DEF PostInvoke
    <3> QED
      BY <1>11, <2>1, <3>1 DEF SlotSound, Empty, NewTurn
  <2>2. ASSUME slot # Empty, NEW u \in Turn, SlotOf(slot, u) PROVE SlotSound' /\ slot'.trace = slot.trace
    <3>1. slot' = [slot EXCEPT !.pending = RemoveFirst(@, id)]
      BY <1>14, <2>2 DEF PostInvoke
    <3>2. PICK p : p = slot.pending
      OBVIOUS
    <3>3. PICK w : w = RemoveFirst(p, id)
      OBVIOUS
    <3>4. /\ DOMAIN slot = {"trace", "spans", "pending"} /\ slot.trace = u
          /\ slot.spans \in Seq(Id) /\ IsInjective(slot.spans) /\ ToSet(slot.spans) = Hooked(u)
          /\ p \in Seq(Id) /\ IsInjective(p) /\ ToSet(p) = {o \in Hooked(u) : call[o].result # "ok"}
      BY <2>2, <3>2 DEF SlotOf
    <3>5. w \in Seq(Id) /\ IsInjective(w) /\ ToSet(w) = {o \in Hooked(u) : call[o].result # "ok"} \ {id}
      BY <3>3, <3>4, SpanCloses
    <3>6. DOMAIN slot' = {"trace", "spans", "pending"} /\ slot'.trace = u /\ slot'.spans = slot.spans /\ slot'.pending = w
      BY <3>1, <3>2, <3>3, <3>4
    <3>7. Hooked(u)' = Hooked(u)
      BY <1>6, <1>7, <1>8, <1>14
    <3>8. {o \in Hooked(u)' : call'[o].result # "ok"} = {o \in Hooked(u) : call[o].result # "ok"} \ {id}
      <4>1. \A o \in Hooked(u) : o \in DOMAIN call
        BY <1>5
      <4> QED
        BY <1>3, <1>14, <3>7, <4>1
    <3>9. SlotOf(slot, u)'
      BY <3>4, <3>5, <3>6, <3>7, <3>8 DEF SlotOf
    <3> QED
      BY <3>4, <3>6, <3>9 DEF SlotSound
  <2> QED
    BY <1>11, <2>1, <2>2 DEF AuditInv, SlotSound
<1> QED
  BY <1>12, <1>13, <1>14 DEF SlotGoes

LEMMA CallMovesAudited ==
    ASSUME CallsInv, CallsInv', AuditInv, Runs("call"), NEW id, id = Head(ready).call, NEW c, CallFits(c), c.state # "waiting",
           call' = [call EXCEPT ![id] = c], c.cancelled = call[id].cancelled, c.state = "raised" => ~c.cancelled,
           NEW n \in {<<>>, <<Task("batch", id.turn)>>}, NEW l \in {<<>>, <<Task("batch", id.turn)>>}, Yields(n, l),
           n = <<>> /\ l = <<>> => 
              settled' = settled /\ (c.state = "raised" => settled # "open" \/ id \notin ToSet(batch)),
           n # <<>> \/ l # <<>> => 
              /\ settled = "open" /\ id \in ToSet(batch) /\ (n = <<>> \/ l = <<>>)
              /\ settled' = (IF c.state = "done" THEN "done" ELSE "raised"),
           n # <<>> => ToSet(batch) = {id},
           SlotGoes(id, c), CountsTyped', UNCHANGED <<phase, stopped, exit, window, rounds, batch, records>>
    PROVE  AuditInv'
<1>1. /\ ready # <<>> /\ id \in Id /\ Head(ready) = CallTask(id) /\ InQueue(ready, CallTask(id))
      /\ id \in DOMAIN call /\ id.turn \in Turn /\ CallFits(call[id]) /\ call[id].state \in {"waiting", "running"}
  BY CallRuns
<1>2. Onward /\ SlotSound' /\ slot'.trace = slot.trace
  BY SlotMoves
<1>3. DOMAIN call' = DOMAIN call /\ call'[id] = c /\ \A o \in DOMAIN call : o # id => call'[o] = call[o]
  BY <1>1
<1>4. PICK b : b = Task("batch", id.turn)
  OBVIOUS
<1>5. b \in LoopTask /\ (\A o \in Id : b # CallTask(o)) /\ \A d \in HookKind, t \in Turn : Task(d, t) # b
  BY <1>1, <1>4, TaskIs, HookTasks
<1>6. n # <<>> \/ l # <<>> => ~InQueue(ready, b)
  BY <1>1, <1>4 DEF CallsInv, TurnsLined
<1>7. PICK F, B : F = {x \in {b} : n # <<>>} /\ B = {x \in {b} : l # <<>>}
  OBVIOUS
<1>8. /\ n \in Seq(LoopTask) /\ Distinct(n) /\ (\A x : InQueue(n, x) <=> x \in F)
      /\ l \in Seq(LoopTask) /\ Distinct(l) /\ (\A x : InQueue(l, x) <=> x \in B)
  <2>1. \A m \in {<<>>, <<b>>} : m \in Seq(LoopTask) /\ Distinct(m) /\ \A x : InQueue(m, x) <=> m # <<>> /\ x = b
    <3>1. <<b>> # <<>> /\ Distinct(<<b>>) /\ Distinct(<<>>)
      BY DEF Distinct
    <3>2. <<b>> \in Seq(LoopTask) /\ \A x : InQueue(<<b>>, x) <=> x = b
      BY <1>5, FewTasks
    <3>3. <<>> \in Seq(LoopTask) /\ \A x : ~InQueue(<<>>, x)
      BY FewTasks
    <3> QED
      BY <3>1, <3>2, <3>3
  <2> QED
    BY <1>4, <1>7, <2>1
<1>9. Reordered(F, B, {Head(ready)})
  <2>1. \A x : /\ ~(x \in F /\ x \in B)
               /\ x \in F \/ x \in B => ~InQueue(ready, x) \/ x = Head(ready)
    BY <1>6, <1>7
  <2> QED
    BY <1>1, <1>8, <2>1, YieldsApart DEF CallsInv, AuditInv
<1>10. Shifts(NoHook, NoHook)
  <2>1. \A d \in HookKind, t \in Turn : Task(d, t) \notin F /\ Task(d, t) \notin B /\ Task(d, t) \notin {Head(ready)} /\ <<d, t>> # NoHook
    <3>1. \A d \in HookKind, t \in Turn : Task(d, t) # Head(ready) /\ <<d, t>> # NoHook
      BY <1>1, TaskIs, HookTasks DEF HookKind, NoHook
    <3> QED
      BY <1>5, <1>7, <3>1
  <2> QED
    BY <1>9, <2>1, ShiftIs
<1>11. PhasesHold
  BY DEF PhasesHold
<1>12. StartsInLine' /\ ReportsInLine' /\ SlotInLine' /\ RecordsInLine'
  BY <1>2, <1>3, <1>10, <1>11, HooksHold DEF AuditInv
<1>13. RecordsRight'
  BY <1>2, RecordsStand DEF AuditInv
<1>14. WindowsSound'
  <2>1. window' = window /\ exit' = exit /\ phase' = phase
    OBVIOUS
  <2>2. WindowsSound
    BY DEF AuditInv
  <2> QED
    BY <2>1, <2>2 DEF WindowsSound
<1>15. CallsPlaced'
  <2>1. ASSUME NEW o \in DOMAIN call, InQueue(ready', CallTask(o)), call'[o].state = "waiting"
        PROVE  /\ phase[o.turn] = "tools" /\ o \in ToSet(batch)
               /\ InFront(ready', CallTask(o), Task("batch", o.turn))
    <3>1. o # id /\ o \in Id
      BY <1>3, <2>1 DEF CallsInv, CallsFit
    <3>2. CallTask(o) \notin F /\ CallTask(o) \notin B
      BY <1>5, <1>7, <3>1
    <3>3. InQueue(ready, CallTask(o)) /\ call[o].state = "waiting"
      BY <1>3, <1>9, <2>1, <3>1, <3>2 DEF Reordered
    <3>4. /\ phase[o.turn] = "tools" /\ o \in ToSet(batch)
          /\ InFront(ready, CallTask(o), Task("batch", o.turn))
      BY <3>3 DEF AuditInv, CallsPlaced
    <3>5. n = <<>>
      BY <3>1, <3>4
    <3>6. Task("batch", o.turn) \notin F
      BY <1>7, <3>5
    <3> QED
      BY <1>9, <3>2, <3>4, <3>6 DEF Reordered
  <2>2. \A o \in DOMAIN call : phase[o.turn] \in {"model", "tools", "over"}
    BY DEF AuditInv, CallsPlaced
  <2> QED
    BY <1>3, <2>1, <2>2 DEF CallsPlaced
<1>16. BrokenEnds'
  <2> SUFFICES ASSUME NEW t \in Turn, Broken(t)'
               PROVE  \/ phase[t] = "tools" /\ settled' = "raised"
                      \/ phase[t] = "over" /\ exit[t] # "answer"
    BY DEF BrokenEnds
  <2>1. CASE Broken(t)
    <3>1. \/ phase[t] = "tools" /\ settled = "raised"
          \/ phase[t] = "over" /\ exit[t] # "answer"
      BY <2>1 DEF AuditInv, BrokenEnds
    <3> QED
      BY <3>1
  <2>2. CASE ~Broken(t)
    <3>1. id.turn = t /\ c.state = "raised"
      BY <1>3, <2>2 DEF Broken
    <3>2. id \in ToSet(batch) /\ phase[t] = "tools"
      BY <1>1, <2>2, <3>1 DEF CallsInv, CallsHome
    <3>3. BatchSound(t) /\ BatchWhole(t)
      BY <2>2, <3>2 DEF CallsInv, BatchTyped
    <3>4. settled # "done"
      BY <1>1, <3>2, <3>3 DEF BatchSound
    <3>5. settled # "raised"
      <4>1. Undone(id) /\ ~call[id].cancelled
        BY <1>1, <3>1 DEF Undone
      <4> QED
        BY <3>1, <3>2, <3>3, <4>1 DEF BatchWhole
    <3>6. settled = "open"
      BY <3>4, <3>5 DEF CallsInv, BatchTyped
    <3> QED
      BY <3>1, <3>2, <3>6
  <2> QED
    BY <2>1, <2>2
<1> QED
  BY <1>2, <1>10, <1>12, <1>13, <1>14, <1>15, <1>16 DEF AuditInv, Shifts

LEMMA CallOverAudited ==
    ASSUME CallsInv, CallsInv', AuditInv, Runs("call"), NEW id, id = Head(ready).call, NEW c, CallFits(c),
           c.state \in {"done", "raised", "cut"}, c.cancelled = call[id].cancelled, c.state = "raised" => ~c.cancelled,
           CallOver(id, c), SlotGoes(id, c), CountsTyped',
           UNCHANGED <<phase, stopped, exit, window, rounds, batch, records>>
    PROVE  AuditInv'
<1> DEFINE others == \A i \in DOMAIN batch : batch[i] # id => call[batch[i]].state = "done"
           now == c.state \in {"raised", "cut"} \/ others
           mine == settled = "open" /\ id \in ToSet(batch) /\ now
           go == <<Task("batch", id.turn)>>
<1>1. /\ call' = [call EXCEPT ![id] = c]
      /\ settled' = IF ~mine THEN settled ELSE IF c.state = "done" THEN "done" ELSE "raised"
      /\ ~mine => Yields(<<>>, <<>>)
      /\ mine /\ Gathered => Yields(<<>>, go)
      /\ mine /\ ~Gathered => Yields(go, <<>>)
  BY DEF CallOver
<1>2. /\ mine => settled = "open" /\ id \in ToSet(batch)
      /\ ~mine /\ c.state = "raised" => settled # "open" \/ id \notin ToSet(batch)
  OBVIOUS
<1>3. mine /\ ~Gathered => ToSet(batch) = {id}
  <2>1. SUFFICES ASSUME id \in ToSet(batch), ~Gathered PROVE ToSet(batch) = {id}
    OBVIOUS
  <2>2. batch \in Seq(Id)
    BY DEF CallsInv, BatchTyped
  <2>3. Len(batch) \in Nat /\ DOMAIN batch = 1 .. Len(batch) /\ ~(Len(batch) > 1)
    BY <2>1, <2>2 DEF Gathered
  <2>4. \A i, j \in DOMAIN batch : i = j
    BY <2>3
  <2> QED
    BY <2>1, <2>4 DEF ToSet
<1> HIDE DEF mine
<1>4. c.state # "waiting" /\ go # <<>>
  OBVIOUS
<1>5. CASE ~mine
  BY <1>1, <1>2, <1>4, <1>5, CallMovesAudited
<1>6. CASE mine /\ Gathered
  <2>1. settled' = (IF c.state = "done" THEN "done" ELSE "raised") /\ Yields(<<>>, go)
    BY <1>1, <1>6
  <2> QED
    BY <1>1, <1>2, <1>4, <1>6, <2>1, CallMovesAudited
<1>7. CASE mine /\ ~Gathered
  <2>1. settled' = (IF c.state = "done" THEN "done" ELSE "raised") /\ Yields(go, <<>>)
    BY <1>1, <1>7
  <2> QED
    BY <1>1, <1>2, <1>3, <1>4, <1>7, <2>1, CallMovesAudited
<1> QED
  BY <1>5, <1>6, <1>7

LEMMA CountsAre ==
    ASSUME NEW f \in [ToolName -> Nat], NEW name \in ToolName
    PROVE  /\ CountLookup(f, name) \in [ToolName -> Nat]
           /\ \A fault : CountViolation(f, fault, name) \in [ToolName -> Nat]
  BY DEF CountLookup, CountViolation

LEMMA StepCallAudited ==
    ASSUME CallsInv, CallsInv', AuditInv, StepCall
    PROVE  AuditInv'
<1>1. PICK id : id = Head(ready).call
  OBVIOUS
<1>2. Runs("call") /\ UNCHANGED <<phase, stopped, exit, window, rounds, batch, records>>
  BY DEF StepCall, turnVars
<1>3. /\ id \in DOMAIN call /\ id.turn \in Turn /\ CallFits(call[id]) /\ call[id].state \in {"waiting", "running"}
  BY <1>1, <1>2, CallRuns
<1>4. PICK d : d = call[id]
  OBVIOUS
<1>5. /\ d \in CallRecord /\ CallFits(d) /\ d.state \in {"waiting", "running"} /\ d.result = "none"
      /\ d.state = "waiting" => d.shown = "no"
      /\ d.state = "running" => d.shown \in {"start", "silent"}
  BY <1>3, <1>4 DEF CallFits
<1>6. ASSUME NEW c, CallOver(id, c), CallFits(c), c.state \in {"done", "raised", "cut"}, c.cancelled = d.cancelled,
             c.state = "raised" => ~c.cancelled, SlotGoes(id, c), CountsTyped'
      PROVE  AuditInv'
  BY <1>1, <1>2, <1>4, <1>6, CallOverAudited
<1>7. CountsTyped /\ call[id].tool \in ToolName
  BY <1>4, <1>5 DEF AuditInv, CallRecord
<1>8. CASE d.cancelled
  <2>1. PICK c : c = [d EXCEPT !.state = "cut"]
    OBVIOUS
  <2>2. CallFits(c) /\ c.state = "cut" /\ c.cancelled = d.cancelled /\ c.shown = d.shown /\ c.result = d.result
    BY <1>5, <2>1 DEF CallFits, CallRecord
  <2>3. CallOver(id, c) /\ UNCHANGED <<slot, lookups, violations>>
    BY <1>1, <1>4, <1>8, <2>1 DEF StepCall
  <2>4. SlotGoes(id, c)
    BY <1>4, <1>5, <2>2, <2>3 DEF SlotGoes, Seen
  <2>5. CountsTyped'
    BY <1>2, <1>7, <2>3 DEF CountsTyped
  <2> QED
    BY <1>6, <2>2, <2>3, <2>4, <2>5
<1>9. CASE ~d.cancelled /\ d.state = "waiting"
  <2>1. EnterCall(id)
    BY <1>1, <1>4, <1>9 DEF StepCall
  <2>2. CountsTyped'
    <3>1. PICK f : f = lookups[id.turn]
      OBVIOUS
    <3>2. f \in [ToolName -> Nat] /\ lookups \in [Turn -> [ToolName -> Nat]]
      BY <1>3, <1>7, <3>1 DEF CountsTyped
    <3>3. CountLookup(f, call[id].tool) \in [ToolName -> Nat]
      BY <1>7, <3>2, CountsAre
    <3>4. lookups' = [lookups EXCEPT ![id.turn] = CountLookup(f, call[id].tool)] /\ UNCHANGED violations
      BY <2>1, <3>1 DEF EnterCall
    <3>5. lookups' \in [Turn -> [ToolName -> Nat]]
      BY <3>2, <3>3, <3>4
    <3> QED
      BY <1>2, <1>7, <3>4, <3>5 DEF CountsTyped
  <2>3. ASSUME NEW r \in {"throttled", "refused"}, CallOver(id, [d EXCEPT !.state = "done", !.result = r]), UNCHANGED slot
        PROVE  AuditInv'
    <3>1. PICK c : c = [d EXCEPT !.state = "done", !.result = r]
      OBVIOUS
    <3>2. CallFits(c) /\ c.state = "done" /\ c.cancelled = d.cancelled /\ c.result = r
      BY <1>5, <1>9, <3>1 DEF CallFits, CallRecord
    <3>3. SlotGoes(id, c)
      BY <1>4, <1>5, <1>9, <2>3, <3>2 DEF SlotGoes, Seen
    <3> QED
      BY <1>6, <2>2, <2>3, <3>1, <3>2, <3>3
  <2>4. ASSUME CallOver(id, [d EXCEPT !.state = "raised"]), slot' = PreInvoke(slot, id) PROVE AuditInv'
    <3>1. PICK c : c = [d EXCEPT !.state = "raised"]
      OBVIOUS
    <3>2. CallFits(c) /\ c.state = "raised" /\ c.cancelled = d.cancelled /\ c.result = "none"
      BY <1>5, <1>9, <3>1 DEF CallFits, CallRecord
    <3>3. SlotGoes(id, c)
      BY <1>4, <1>9, <2>4, <3>2 DEF SlotGoes, Seen
    <3> QED
      BY <1>6, <1>9, <2>2, <2>4, <3>1, <3>2, <3>3
  <2>5. ASSUME NEW s \in {"start", "silent"}, call' = [call EXCEPT ![id].state = "running", ![id].shown = s],
               Yields(<<>>, <<>>), UNCHANGED settled, slot' = PreInvoke(slot, id)
        PROVE  AuditInv'
    <3>1. PICK c : c = [d EXCEPT !.state = "running", !.shown = s]
      OBVIOUS
    <3>2. CallFits(c) /\ c.state = "running" /\ c.cancelled = d.cancelled /\ c.result = "none" /\ c.shown = s
      BY <1>5, <1>9, <3>1 DEF CallFits, CallRecord
    <3>3. call' = [call EXCEPT ![id] = c]
      BY <1>3, <1>4, <2>5, <3>1
    <3>4. SlotGoes(id, c)
      BY <1>4, <1>9, <2>5, <3>2 DEF SlotGoes, Seen
    <3> QED
      BY <1>1, <1>2, <1>4, <2>2, <2>5, <3>2, <3>3, <3>4, CallMovesAudited
  <2>6. \/ \E r \in {"throttled", "refused"} : CallOver(id, [d EXCEPT !.state = "done", !.result = r]) /\ UNCHANGED slot
        \/ CallOver(id, [d EXCEPT !.state = "raised"]) /\ slot' = PreInvoke(slot, id)
        \/ \E s \in {"start", "silent"} : 
              /\ call' = [call EXCEPT ![id].state = "running", ![id].shown = s] /\ Yields(<<>>, <<>>) /\ UNCHANGED settled
              /\ slot' = PreInvoke(slot, id)
    BY <1>4, <2>1 DEF EnterCall
  <2> QED
    BY <2>3, <2>4, <2>5, <2>6
<1>10. CASE ~d.cancelled /\ d.state = "running"
  <2>1. LeaveCall(id)
    BY <1>1, <1>4, <1>10 DEF StepCall
  <2>2. ASSUME NEW r \in {"ok", "error", "boundary", "escalated"}, EndNotice(id, [d EXCEPT !.result = r]), CountsTyped',
               IF r = "ok" THEN slot' = PostInvoke(slot, id) ELSE UNCHANGED slot
        PROVE  AuditInv'
    <3>1. PICK e : e = [d EXCEPT !.result = r]
      OBVIOUS
    <3>2. e \in CallRecord /\ e.cancelled = d.cancelled /\ e.result = r /\ e.shown = d.shown
      BY <1>5, <3>1 DEF CallRecord
    <3>3. PICK s : s = IF Notified(e.tool) THEN EndPhase(e.result) ELSE "silent"
      OBVIOUS
    <3>4. s \in {"end", "error", "silent"} /\ (s = "end" => r = "ok")
      BY <3>2, <3>3 DEF EndPhase
    <3>5. ASSUME NEW c, c.result = r, c.shown # "no" PROVE SlotGoes(id, c)
      BY <1>4, <1>5, <1>10, <2>2, <3>5 DEF SlotGoes, Seen
    <3>6. ASSUME CallOver(id, [e EXCEPT !.state = "done", !.shown = s]) PROVE AuditInv'
      <4>1. PICK c : c = [e EXCEPT !.state = "done", !.shown = s]
        OBVIOUS
      <4>2. CallFits(c) /\ c.state = "done" /\ c.cancelled = d.cancelled /\ c.result = r /\ c.shown # "no"
        BY <3>2, <3>4, <4>1 DEF CallFits, CallRecord
      <4>3. SlotGoes(id, c)
        BY <3>5, <4>2
      <4> QED
        BY <1>6, <2>2, <3>6, <4>1, <4>2, <4>3
    <3>7. ASSUME CallOver(id, [e EXCEPT !.state = "raised"]) PROVE AuditInv'
      <4>1. PICK c : c = [e EXCEPT !.state = "raised"]
        OBVIOUS
      <4>2. CallFits(c) /\ c.state = "raised" /\ c.cancelled = d.cancelled /\ c.result = r /\ c.shown # "no"
        BY <1>5, <1>10, <3>2, <4>1 DEF CallFits, CallRecord
      <4>3. SlotGoes(id, c)
        BY <3>5, <4>2
      <4> QED
        BY <1>6, <1>10, <2>2, <3>7, <4>1, <4>2, <4>3
    <3> QED
      BY <2>2, <3>1, <3>3, <3>6, <3>7 DEF EndNotice
  <2>3. CASE slot' = PostInvoke(slot, id) /\ EndNotice(id, [call[id] EXCEPT !.result = "ok"]) /\ UNCHANGED <<violations, lookups>>
    <3>1. CountsTyped'
      BY <1>2, <1>7, <2>3 DEF CountsTyped
    <3> QED
      BY <1>4, <2>2, <2>3, <3>1
  <2>4. ASSUME NEW fault \in Faults, violations' = [violations EXCEPT ![id.turn] = CountViolation(@, fault, call[id].tool)],
               EndNotice(id, [call[id] EXCEPT !.result = Classified(violations[id.turn], fault, call[id].tool)]),
               UNCHANGED <<slot, lookups>>
        PROVE  AuditInv'
    <3>1. PICK r : r = Classified(violations[id.turn], fault, call[id].tool)
      OBVIOUS
    <3>2. r \in {"boundary", "escalated", "error"}
      BY <3>1 DEF Classified
    <3>3. PICK f : f = violations[id.turn]
      OBVIOUS
    <3>4. f \in [ToolName -> Nat] /\ violations \in [Turn -> [ToolName -> Nat]]
      BY <1>3, <1>7, <3>3 DEF CountsTyped
    <3>5. CountViolation(f, fault, call[id].tool) \in [ToolName -> Nat]
      BY <1>7, <3>4, CountsAre
    <3>6. violations' \in [Turn -> [ToolName -> Nat]]
      BY <2>4, <3>3, <3>4, <3>5
    <3>7. CountsTyped'
      BY <1>2, <1>7, <2>4, <3>6 DEF CountsTyped
    <3> QED
      BY <1>4, <2>2, <2>4, <3>1, <3>2, <3>7
  <2> QED
    BY <2>1, <2>3, <2>4 DEF LeaveCall
<1> QED
  BY <1>5, <1>8, <1>9, <1>10

(* A cancellation: the calls that are awaited become ready, or the request. *)
LEMMA WakesApart ==
    ASSUME CallsInv, AuditInv, NEW t \in Turn, phase[t] = "tools", NEW l, l = Wakes(t), AddsReady(l)
    PROVE  \E B : /\ Reordered({}, B, {}) 
                  /\ \A x \in B : \E id \in ToSet(batch) : x = CallTask(id) /\ settled = "open" /\ id \in Id
<1>1. batch \in Seq(Id) /\ IsInjective(batch) /\ ToSet(batch) \subseteq Id
  <2>1. batch \in Seq(Id) /\ IsInjective(batch)
    BY DEF CallsInv, BatchTyped
  <2> QED
    BY <2>1 DEF ToSet
<1>2. /\ l \in Seq(LoopTask) /\ Single(l)
      /\ \A x : InQueue(l, x) <=> \E id \in ToSet(batch) : x = CallTask(id) /\ id \in Awaited(t) /\ ~Queued(CallTask(id))
  BY <1>1, WakesAre
<1>3. Distinct(l)
  <2>1. ASSUME NEW i \in 1 .. Len(l) PROVE Lone(l[i])
    <3>1. InQueue(l, l[i])
      BY DEF InQueue
    <3>2. PICK id \in ToSet(batch) : l[i] = CallTask(id)
      BY <1>2, <3>1
    <3> QED
      BY <1>1, <3>2, TaskIs
  <2> QED
    BY <1>2, <2>1 DEF Single, Distinct
<1>4. PICK B : B = {l[i] : i \in 1 .. Len(l)}
  OBVIOUS
<1>5. \A x : InQueue(l, x) <=> x \in B
  BY <1>4 DEF InQueue
<1>6. \A x \in B : \E id \in ToSet(batch) : x = CallTask(id) /\ settled = "open" /\ id \in Id
  BY <1>1, <1>2, <1>5 DEF Awaited
<1>7. \A x : ~(InQueue(ready, x) /\ x \in B)
  <2>1. \A x \in B : ~Queued(x)
    BY <1>2, <1>5
  <2> QED
    BY <2>1, QueuedIs DEF CallsInv
<1>8. Reordered({}, B, {})
  BY <1>2, <1>3, <1>5, <1>7, AddsApart DEF CallsInv, AuditInv
<1> QED
  BY <1>6, <1>8

LEMMA StopAudited ==
    ASSUME CallsInv, CallsInv', AuditInv, NEW t \in Turn, Stop(t)
    PROVE  AuditInv'
<1>1. /\ phase[t] \in {"model", "tools"} /\ stopped' = stopped \cup {t}
      /\ UNCHANGED <<phase, exit, window, rounds, batch, settled, lookups, violations, slot, records>>
  BY DEF Stop, turnVars, auditVars
<1>2. /\ DOMAIN call' = DOMAIN call
      /\ \A o \in DOMAIN call : /\ call'[o].state = call[o].state /\ call'[o].shown = call[o].shown
                                /\ call'[o].result = call[o].result
  <2>1. /\ DOMAIN call' = DOMAIN call
        /\ \A o \in DOMAIN call : call'[o] = call[o] \/ call'[o] = [call[o] EXCEPT !.cancelled = TRUE]
    BY DEF Stop
  <2>2. ASSUME NEW o \in DOMAIN call 
        PROVE  /\ call'[o].state = call[o].state /\ call'[o].shown = call[o].shown
               /\ call'[o].result = call[o].result
    <3>1. PICK d : d = call[o]
      OBVIOUS
    <3>2. d \in CallRecord
      BY <3>1 DEF CallsInv, CallsFit, CallFits
    <3>3. PICK e : e = [d EXCEPT !.cancelled = TRUE]
      OBVIOUS
    <3>4. e.state = d.state /\ e.shown = d.shown /\ e.result = d.result
      BY <3>2, <3>3 DEF CallRecord
    <3> QED
      BY <2>1, <3>1, <3>3, <3>4
  <2> QED
    BY <2>1, <2>2
<1>3. \A u : Hooked(u)' = Hooked(u) /\ (Broken(u)' <=> Broken(u)) /\ Hooked(u) \subseteq DOMAIN call
  BY <1>2 DEF Hooked, Broken
<1>4. HookedHold /\ Onward
  BY <1>1, <1>2, <1>3 DEF HookedHold, Onward
<1>5. SlotSound' /\ RecordsRight'
  BY <1>1, <1>4, SlotStands, RecordsStand DEF AuditInv
<1>6. PhasesHold
  BY <1>1 DEF PhasesHold
<1>7. WindowsSound' /\ CountsTyped'
  BY <1>1, <1>6, WindowsHold DEF AuditInv
<1>8. BrokenEnds'
  BY <1>1, <1>3, BrokenHolds DEF AuditInv
<1>9. ASSUME NEW B, Reordered({}, B, {}), 
             \A o \in DOMAIN call : CallTask(o) \in B => o \in ToSet(batch) /\ phase[o.turn] = "tools" /\ settled = "open"
      PROVE  CallsPlaced'
  <2>1. ASSUME NEW o \in DOMAIN call, InQueue(ready', CallTask(o)), call[o].state = "waiting"
        PROVE  /\ phase[o.turn] = "tools" /\ o \in ToSet(batch)
               /\ InFront(ready', CallTask(o), Task("batch", o.turn))
    <3>1. o \in Id /\ o.turn \in Turn
      BY IdIs DEF CallsInv, CallsFit
    <3>2. CASE CallTask(o) \in B
      <4>1. ~InQueue(ready', Task("batch", o.turn))
        BY <1>1, <1>9, <3>1, <3>2 DEF CallsInv, TurnsLined
      <4> QED
        BY <1>9, <3>2, <4>1, InFrontIs
    <3>3. CASE CallTask(o) \notin B
      BY <1>9, <2>1, <3>3 DEF Reordered, AuditInv, CallsPlaced
    <3> QED
      BY <3>2, <3>3
  <2> QED
    BY <1>1, <1>2, <2>1 DEF AuditInv, CallsPlaced
<1>10. CASE phase[t] = "tools"
  <2>1. PICK l : l = Wakes(t)
    OBVIOUS
  <2>2. AddsReady(l)
    BY <1>10, <2>1 DEF Stop
  <2>3. PICK B : /\ Reordered({}, B, {}) 
                 /\ \A x \in B : \E id \in ToSet(batch) : x = CallTask(id) /\ settled = "open" /\ id \in Id
    BY <1>10, <2>1, <2>2, WakesApart
  <2>4. Shifts(NoHook, NoHook)
    <3>1. \A d \in HookKind, u \in Turn : Task(d, u) \notin B /\ <<d, u>> # NoHook
      BY <2>3, TaskIs, HookTasks DEF HookKind, NoHook
    <3> QED
      BY <2>3, <3>1, ShiftIs
  <2>5. StartsInLine' /\ ReportsInLine' /\ SlotInLine' /\ RecordsInLine'
    BY <1>1, <1>2, <1>6, <2>4, HooksHold DEF AuditInv
  <2>6. CallsPlaced'
    <3>1. \A o \in ToSet(batch) : o.turn = t
      BY <1>10 DEF CallsInv, BatchTyped, BatchSound
    <3>2. \A o \in DOMAIN call : CallTask(o) \in B => o \in ToSet(batch) /\ phase[o.turn] = "tools" /\ settled = "open"
      BY <1>10, <2>3, <3>1, TaskIs
    <3> QED
      BY <1>9, <2>3, <3>2
  <2> QED
    BY <1>5, <1>7, <1>8, <2>4, <2>5, <2>6 DEF AuditInv, Shifts
<1>11. CASE phase[t] = "model"
  <2>1. PICK x : x = Task("reply", t)
    OBVIOUS
  <2>2. \A o, u : CallTask(o) # x /\ Task("batch", u) # x
    BY <2>1, TaskIs
  <2>3. CASE Queued(x)
    <3>1. PICK l : l = <<>>
      OBVIOUS
    <3>2. AddsReady(l)
      BY <1>11, <2>1, <2>3, <3>1 DEF Stop
    <3>3. PICK B : B = {}
      OBVIOUS
    <3>4. Reordered({}, B, {})
      <4>1. l \in Seq(LoopTask) /\ Distinct(l) /\ \A y : InQueue(l, y) <=> y \in B
        BY <3>1, <3>3, FewTasks DEF Distinct
      <4>2. \A y : ~(InQueue(ready, y) /\ y \in B)
        BY <3>3
      <4> QED
        BY <3>2, <4>1, <4>2, AddsApart DEF CallsInv, AuditInv
    <3>5. Shifts(NoHook, NoHook)
      <4>1. \A d \in HookKind, u \in Turn : Task(d, u) \notin B /\ <<d, u>> # NoHook
        BY <3>3 DEF HookKind, NoHook
      <4> QED
        BY <3>4, <4>1, ShiftIs
    <3>6. StartsInLine' /\ ReportsInLine' /\ SlotInLine' /\ RecordsInLine'
      BY <1>1, <1>2, <1>6, <3>5, HooksHold DEF AuditInv
    <3>7. CallsPlaced'
      BY <1>9, <3>3, <3>4
    <3> QED
      BY <1>5, <1>7, <1>8, <3>5, <3>6, <3>7 DEF AuditInv, Shifts
  <2>4. CASE ~Queued(x)
    <3>1. AddsReady(<<x>>) /\ ~InQueue(ready, x) /\ x \in LoopTask
      <4>1. x \in LoopTask /\ QueueTyped
        BY <2>1, TaskIs DEF TaskKind, CallsInv
      <4> QED
        BY <1>11, <2>1, <2>4, <4>1, QueuedIs DEF Stop
    <3>2. PICK B : B = {x}
      OBVIOUS
    <3>3. Reordered({}, B, {})
      BY <3>1, <3>2, OneAdded DEF CallsInv, AuditInv
    <3>4. PICK a : a = <<"reply", t>>
      OBVIOUS
    <3>5. Shifts(NoHook, a)
      <4>1. \A d \in HookKind, u \in Turn : (Task(d, u) \in B <=> <<d, u>> = a) /\ <<d, u>> # NoHook
        BY <2>1, <3>2, <3>4, TaskIs DEF HookKind, NoHook
      <4> QED
        BY <3>3, <4>1, ShiftIs
    <3>6. StartsInLine' /\ ReportsInLine' /\ SlotInLine' /\ RecordsInLine'
      <4>1. t \in stopped' /\ stopped \subseteq stopped'
        BY <1>1
      <4> QED
        BY <1>1, <1>2, <3>4, <3>5, <4>1, ReplyComes DEF AuditInv
    <3>7. CallsPlaced'
      BY <1>9, <2>2, <3>2, <3>3
    <3> QED
      BY <1>5, <1>7, <1>8, <3>5, <3>6, <3>7 DEF AuditInv, Shifts
  <2> QED
    BY <2>3, <2>4
<1> QED
  BY <1>1, <1>10, <1>11

(* A step that changes nothing.                                            *)
LEMMA AuditStill ==
    ASSUME CallsInv, AuditInv, UNCHANGED auditedVars
    PROVE  AuditInv'
<1>1. UNCHANGED <<ready, phase, stopped, exit, records, slot, call, batch, settled, window, rounds, lookups, violations>>
  BY DEF auditedVars, loopVars, turnVars, batchVars, auditVars
<1>2. Shifts(NoHook, NoHook)
  <2>1. \A d \in HookKind, t \in Turn : <<d, t>> # NoHook
    BY DEF NoHook, HookKind
  <2>2. Distinct(ready)
    BY DEF AuditInv
  <2> QED
    BY <1>1, <2>1, <2>2 DEF Shifts
<1>3. KeepsCalls
  BY <1>1 DEF KeepsCalls
<1>4. PhasesHold
  BY <1>1 DEF PhasesHold
<1> QED
  BY <1>1, <1>2, <1>3, <1>4, PlainStep

LEMMA AuditStep ==
    ASSUME CallsInv, CallsInv', AuditInv, [AuditedNext]_auditedVars
    PROVE  AuditInv'
<1>1. CASE UNCHANGED auditedVars
  BY <1>1, AuditStill
<1>2. CASE Begin \/ Reply \/ StepCall \/ BatchOver
  BY <1>2, BeginAudited, ReplyAudited, StepCallAudited, BatchOverAudited
<1>3. CASE EmitAbandoned \/ NotifyCompleted \/ NotifyStarted
  <2>1. \E from, to : /\ <<from, to>> \in {<<"emit", "notify">>, <<"notify", "hook">>, <<"start", "startHook">>} 
                      /\ Passes(from, to)
    BY <1>3 DEF EmitAbandoned, NotifyCompleted, NotifyStarted
  <2> QED
    BY <2>1, PassAudited
<1>4. CASE MessageStarted \/ MessageCompleted
  BY <1>4, StartedAudited, CompletedAudited
<1>5. CASE Returns
  BY <1>5, ModelRepliesAudited, ToolReturnsAudited DEF Returns
<1>6. CASE \E t \in Turn : Arrive(t) \/ Stop(t)
  BY <1>6, ArriveAudited, StopAudited
<1>7. CASE Quiet
  BY <1>7, AuditStill DEF Quiet
<1> QED
  BY <1>1, <1>2, <1>3, <1>4, <1>5, <1>6, <1>7 DEF AuditedNext, LoopStep

LEMMA AuditInit ==
    ASSUME AuditedInit
    PROVE  AuditInv
<1>1. \A x : ~InQueue(ready, x)
  BY DEF AuditedInit, InQueue
<1>2. Distinct(ready)
  BY DEF AuditedInit, Distinct
<1>3. /\ phase = [t \in Turn |-> "new"] /\ exit = [t \in Turn |-> "none"] /\ DOMAIN call = {}
      /\ slot = Empty /\ records = <<>> /\ rounds = [t \in Turn |-> 0]
      /\ lookups = [t \in Turn |-> NoCounts] /\ violations = [t \in Turn |-> NoCounts] /\ window = [t \in Turn |-> <<>>]
  BY DEF AuditedInit
<1>4. \A d, t : ~Due(ready, d, t)
  BY <1>1 DEF Due
<1>5. \A d, t, e, u : Ahead(ready, d, t, e, u)
  BY <1>1, InFrontIs DEF Ahead
<1>6. StartsInLine /\ ReportsInLine /\ SlotInLine
  BY <1>3, <1>4, <1>5 DEF StartsInLine, ReportsInLine, SlotInLine, Returned
<1>7. SlotSound /\ CallsPlaced /\ BrokenEnds
  BY <1>3 DEF SlotSound, CallsPlaced, BrokenEnds, Broken
<1>8. WindowsSound
  BY <1>3 DEF WindowsSound
<1>9. CountsTyped
  BY <1>3, TurnAssumption DEF CountsTyped, NoCounts
<1>10. RecordsInLine /\ RecordsRight
  BY <1>3 DEF RecordsInLine, RecordsRight
<1> QED
  BY <1>2, <1>6, <1>7, <1>8, <1>9, <1>10 DEF AuditInv

LEMMA RecordsImplied ==
    ASSUME CallsInv, AuditInv
    PROVE  RecordsSound
<1>1. AuditedTypeOK
  <2>1. ready \in Seq([does : {"turn", "reply", "call", "batch", "emit", "notify", "hook", "start", "startHook"},
                       turn : Turn, call : Id \cup {NoCall}])
    <3>1. PICK T : T = [does : {"turn", "reply", "call", "batch", "emit", "notify", "hook", "start", "startHook"},
                        turn : Turn, call : Id \cup {NoCall}]
      OBVIOUS
    <3>2. ASSUME NEW x \in LoopTask PROVE x \in T
      <4>1. CASE x \in [does : TaskKind, turn : Turn, call : {NoCall}]
        BY <3>1, <4>1 DEF TaskKind
      <4>2. ASSUME NEW id \in Id, x = CallTask(id) PROVE x \in T
        <5>1. id.turn \in Turn
          BY IdIs
        <5> QED
          BY <3>1, <4>2, <5>1 DEF CallTask
      <4> QED
        BY <4>1, <4>2 DEF LoopTask
    <3>3. ready \in Seq(LoopTask)
      BY DEF CallsInv, QueueTyped
    <3>4. ready \in Seq(T)
      BY <3>2, <3>3
    <3> QED
      BY <3>1, <3>4
  <2>2. /\ lock \in Turn \cup {NoTurn} /\ waiters \in Seq(Turn)
        /\ phase \in [Turn -> {"new", "queued", "waiting", "model", "tools", "over"}]
        /\ stopped \subseteq Turn
        /\ exit \in [Turn -> {"none", "answer", "error", "abandoned"}]
    BY DEF CallsInv, TurnsTyped
  <2>3. window \in [Turn -> Seq({"user", "calls", "tool", "answer"})]
    <3>1. window \in [Turn -> Seq(Roles)]
      BY DEF AuditInv, WindowsSound
    <3> QED
      BY <3>1 DEF Roles
  <2>4. /\ rounds \in [Turn -> 0 .. MaxRounds]
        /\ \A t \in Turn, name \in ToolName : lookups[t][name] \in Nat /\ violations[t][name] \in Nat
    BY DEF AuditInv, CountsTyped
  <2>5. settled \in {"open", "done", "raised"}
    BY DEF CallsInv, BatchTyped
  <2>6. DOMAIN call \subseteq Id
    BY DEF CallsInv, CallsFit
  <2>7. ASSUME NEW id \in DOMAIN call
        PROVE  /\ call[id].tool \in ToolName
               /\ call[id].state \in {"waiting", "running", "done", "raised", "cut"}
               /\ call[id].cancelled \in BOOLEAN
               /\ call[id].shown \in {"no", "start", "end", "error", "silent"}
               /\ call[id].result \in {"none", "ok", "error", "boundary", "escalated", "throttled", "refused"}
    <3>1. PICK d : d = call[id]
      OBVIOUS
    <3>2. d \in CallRecord
      BY <3>1 DEF CallsInv, CallsFit, CallFits
    <3> QED
      BY <3>1, <3>2 DEF CallRecord
  <2>8. slot.trace \in Turn \cup {Unnamed, NoTurn}
    BY DEF AuditInv, SlotSound, SlotOf, Empty, NewTurn
  <2> QED
    BY <2>1, <2>2, <2>3, <2>4, <2>5, <2>6, <2>7, <2>8 DEF AuditedTypeOK
<1>2. DOMAIN records = 1 .. Len(records)
  BY DEF AuditInv, RecordsRight
<1>3. \A i, j \in DOMAIN records : i # j => records[i].turn # records[j].turn
  BY <1>2 DEF AuditInv, RecordsInLine
<1>4. \A i \in DOMAIN records : RecordSound(records[i])
  BY <1>2 DEF AuditInv, RecordsRight
<1> QED
  BY <1>1, <1>3, <1>4 DEF RecordsSound

(* What was recorded of a turn is the turn's (RecordsSound), for any number *)
(* of turns, rounds and calls: at most one record each, which has only     *)
(* calls of its own, agrees with the report of the loop, has every call    *)
(* that passed the guards unless the turn was abandoned, and shows none as *)
(* complete whose result did not reach the post hooks.                     *)
THEOREM RecordsAreSound == AuditedSpec => []RecordsSound
<1>1. AuditedInit => CallsInv /\ AuditInv
  BY CallsInit, AuditInit
<1>2. CallsInv /\ AuditInv /\ [AuditedNext]_auditedVars => CallsInv' /\ AuditInv'
  BY CallsStep, AuditStep
<1>3. CallsInv /\ AuditInv => RecordsSound
  BY RecordsImplied
<1> QED
  BY <1>1, <1>2, <1>3, PTL DEF AuditedSpec
=============================================================================
