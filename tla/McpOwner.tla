------------------------------ MODULE McpOwner ------------------------------
(***************************************************************************)
(* The connection to one MCP server: MCPManager.connect and close, and the *)
(* owner task (_ServerOwner) that opens, rebuilds and tears down the       *)
(* connection while callers only post operations to its queue; and the     *)
(* calls of what the server offers, which retry and ask for a new session  *)
(* on their own.                                                           *)
(*                                                                         *)
(* Servers do not share anything, so one is enough; where connect and close *)
(* gather over all servers, the steps of the others are the time that may  *)
(* pass between two actions here.  A connection is a number that grows with *)
(* every attempt; the wrapper registered from it has the same number.      *)
(***************************************************************************)
EXTENDS Naturals, FiniteSets, SequencesExt

CONSTANTS Connector,         \* messages that call connect
          Caller,            \* calls of the server's tools and prompts
          Closer,            \* calls of close
          MaxOwner,          \* bound: owner objects created
          MaxConn            \* bound: connections attempted

None == 0                    \* no owner, no connection, no caller

ASSUME McpAssumption == 
    /\ MaxOwner \in Nat \ {0} /\ MaxConn \in Nat \ {0}
    /\ Caller \cap Closer = {} /\ None \notin Caller

Owner == 1 .. MaxOwner
Conn == 1 .. MaxConn

VARIABLES 
    registered,   \* MCPManager._owners
    cooling,      \* within RETRY_COOLDOWN_S of a failure
    made,         \* owner objects created so far
    job,          \* what each owner's task is at
    closing,      \* owners with _closing set
    ops,          \* each owner's queue of operations
    current,      \* the operation each owner is executing
    conn,         \* each owner's _stack, or the one it is just opening
    opened,       \* connections attempted so far
    live,         \* connections that are open
    leaked,       \* connections whose teardown timed out
    tool,         \* the registered wrapper
    handler,      \* the owner each wrapper's reconnect handler posts to
    session,      \* the session each wrapper calls
    connect,      \* where each connect call is
    target,       \* the owner it starts
    caller, held,         \* calls: stage, the wrapper they go through
    used, error, answer,  \* retries used, last error, wrapper handed over
    closer, joined,       \* calls of close: stage, and the owner they close
    orphans,      \* history: owners started when no longer registered
    reopened      \* history: owners started while a close was under way

ownerVars == <<job, closing, ops, current, conn>>
wrapperVars == <<tool, handler, session>>
connVars == <<opened, live, leaked, wrapperVars>>
managerVars == <<registered, cooling, made>>
connectVars == <<connect, target, orphans, reopened>>
callerVars == <<caller, held, used, error, answer>>
closerVars == <<closer, joined>>
vars == <<managerVars, ownerVars, connVars, connectVars, callerVars, closerVars>>

(* An operation whose caller gave up waiting is nobody's but still there.  *)
Op == [kind : {"close"}, by : Closer, stale : {None}] 
        \cup [kind : {"reconnect"}, by : Caller \cup {None}, stale : Conn]
NoOp == [kind |-> "none", by |-> None, stale |-> None]

(* What the retry loop tells apart in an exception: its text speaks of a   *)
(* terminated session, its type is one of the passing ones.                *)
Trait == {"terminated", "transient"}

TypeOK == 
    /\ registered \in Owner \cup {None} /\ cooling \in BOOLEAN /\ made \in 0 .. MaxOwner
    /\ job \in [Owner -> {"none", "opening", "serving", "closing", "swapping",
                          "reopening", "leaving", "done"}]
    /\ closing \subseteq Owner
    /\ ops \in [Owner -> Seq(Op)]
    /\ current \in [Owner -> Op \cup {NoOp}]
    /\ conn \in [Owner -> Conn \cup {None}]
    /\ opened \in 0 .. MaxConn /\ live \subseteq Conn /\ leaked \subseteq live
    /\ tool \in Conn \cup {None} 
    /\ handler \in [Conn -> Owner \cup {None}] /\ session \in [Conn -> Conn]
    /\ connect \in [Connector -> {"idle", "starting", "waiting", "up", "down"}]
    /\ target \in [Connector -> Owner \cup {None}]
    /\ caller \in [Caller -> {"idle", "calling", "sleeping", "waiting", "handed", "done"}]
    /\ held \in [Caller -> Conn \cup {None}] /\ answer \in [Caller -> Conn \cup {None}]
    /\ used \in [Caller -> SUBSET Trait] /\ error \in [Caller -> SUBSET Trait]
    /\ closer \in [Closer -> {"idle", "begun", "asked", "joined", "done"}]
    /\ joined \in [Closer -> Owner \cup {None}]
    /\ orphans \subseteq Owner /\ reopened \subseteq Owner

Init == 
    /\ registered = None /\ cooling = FALSE /\ made = 0
    /\ job = [o \in Owner |-> "none"]
    /\ closing = {}
    /\ ops = [o \in Owner |-> <<>>]
    /\ current = [o \in Owner |-> NoOp]
    /\ conn = [o \in Owner |-> None]
    /\ opened = 0 /\ live = {} /\ leaked = {}
    /\ tool = None
    /\ handler = [k \in Conn |-> None] /\ session = [k \in Conn |-> k]
    /\ connect = [c \in Connector |-> "idle"]
    /\ target = [c \in Connector |-> None]
    /\ caller = [r \in Caller |-> "idle"]
    /\ held = [r \in Caller |-> None] /\ answer = [r \in Caller |-> None]
    /\ used = [r \in Caller |-> {}] /\ error = [r \in Caller |-> {}]
    /\ closer = [k \in Closer |-> "idle"]
    /\ joined = [k \in Closer |-> None]
    /\ orphans = {} /\ reopened = {}

AliveOwner(o) == job[o] \notin {"none", "done"}
Connected(o) == job[o] = "serving"

-----------------------------------------------------------------------------
(* Operations that are over: each caller still waiting is handed a wrapper, *)
(* or None; a closer finds the task gone.                                  *)
Settle(done, wrapper) == 
    LET met == {r \in Caller : caller[r] = "waiting" /\ r \in {op.by : op \in done}}
    IN /\ caller' = [r \in Caller |-> IF r \in met THEN "handed" ELSE caller[r]]
       /\ answer' = [r \in Caller |-> IF r \in met THEN wrapper ELSE answer[r]]
       /\ UNCHANGED <<held, used, error>>

(* Slip: an owner that exits leaves its queue as it is.                    *)
Slip_NoDrain(o) == 
    /\ job' = [job EXCEPT ![o] = "done"]
    /\ current' = [current EXCEPT ![o] = NoOp]
    /\ conn' = [conn EXCEPT ![o] = None]
    /\ ops' = [ops EXCEPT ![o] = <<>>]
    /\ Settle({current[o]}, None)
    /\ closer' = [k \in Closer |-> 
         IF closer[k] = "asked" /\ joined[k] = o THEN "joined" ELSE closer[k]]
    /\ UNCHANGED <<closing, joined>>

(* The owner's task ends: the operation in hand and those still queued are *)
(* settled (_drain_ops), and whoever awaits the task resumes.              *)
Exit(o) == 
    /\ job' = [job EXCEPT ![o] = "done"]
    /\ current' = [current EXCEPT ![o] = NoOp]
    /\ conn' = [conn EXCEPT ![o] = None]
    /\ ops' = [ops EXCEPT ![o] = <<>>]
    /\ Settle(ToSet(ops[o]) \cup {current[o]}, None)
    /\ closer' = [k \in Closer |-> 
         IF closer[k] = "asked" /\ joined[k] = o THEN "joined" ELSE closer[k]]
    /\ UNCHANGED <<closing, joined>>

(* ready is set: the connect calls that wait for this attempt resume.      *)
ResolveReady(o, result) == 
    /\ connect' = [c \in Connector |-> 
         IF connect[c] = "waiting" /\ target[c] = o THEN result ELSE connect[c]]
    /\ UNCHANGED <<target, orphans, reopened>>

(* A teardown ends, or its time is up and the connection is given up.      *)
TearDown(k) == 
    \/ live' = live \ {k} /\ UNCHANGED leaked
    \/ k # None /\ leaked' = leaked \cup {k} /\ UNCHANGED live

-----------------------------------------------------------------------------
(* _ServerOwner.start by a connect call: a task that has ended is started  *)
(* anew, an attempt in progress is waited for.                             *)
StartOwner(c, o) == 
    IF ~AliveOwner(o)
    THEN /\ job' = [job EXCEPT ![o] = "opening"]
         /\ closing' = closing \ {o}
         /\ connect' = [connect EXCEPT ![c] = "waiting"]
    ELSE /\ connect' = [connect EXCEPT ![c] = 
                IF job[o] = "opening" THEN "waiting"
                ELSE IF Connected(o) THEN "up" ELSE "down"]
         /\ UNCHANGED <<job, closing>>

(* connect looks up the owner, or makes one unless the server cools down;  *)
(* a connected owner makes it return at once.                              *)
Lookup(o) == 
    \/ registered # None /\ ~Connected(registered) 
       /\ o = registered /\ UNCHANGED managerVars
    \/ registered = None /\ ~cooling /\ made < MaxOwner
       /\ o = made + 1 /\ registered' = o /\ made' = o /\ UNCHANGED cooling

(* Messages connect until the last close has returned. *)
MayConnect == Closer # {} => \E k \in Closer : closer[k] # "done"

(* gather runs the starts as tasks of their own: what connect looked up may *)
(* have changed when they run.                                             *)
Connect(c) == 
    /\ connect[c] = "idle"
    /\ MayConnect
    /\ \E o \in Owner : Lookup(o) /\ target' = [target EXCEPT ![c] = o]
    /\ connect' = [connect EXCEPT ![c] = "starting"]
    /\ UNCHANGED <<orphans, reopened, ownerVars, connVars, callerVars, closerVars>>

CloseUnderWay == \E k \in Closer : closer[k] # "idle"
Noting(group, o, condition) == 
    group' = IF ~AliveOwner(o) /\ condition THEN group \cup {o} ELSE group

Start(c) == 
    /\ connect[c] = "starting"
    /\ StartOwner(c, target[c])
    /\ Noting(orphans, target[c], registered # target[c])
    /\ Noting(reopened, target[c], CloseUnderWay)
    /\ UNCHANGED <<managerVars, ops, current, conn, connVars, target, callerVars, closerVars>>

(* connect returns: a failed owner that has exited is no longer registered *)
(* and the server cools down; a running one stays.                         *)
ConnectReturn(c) == 
    /\ connect[c] \in {"up", "down"}
    /\ connect' = [connect EXCEPT ![c] = "idle"]
    /\ target' = [target EXCEPT ![c] = None]
    /\ IF connect[c] = "down" /\ ~AliveOwner(target[c]) /\ registered = target[c]
       THEN registered' = None /\ cooling' = TRUE
       ELSE registered' = registered /\ cooling' = (cooling /\ connect[c] = "down")
    /\ UNCHANGED <<made, orphans, reopened, ownerVars, connVars, callerVars, closerVars>>

(* The message that connects is cancelled; the attempt is shielded.        *)
ConnectCancelled(c) == 
    /\ connect[c] \in {"starting", "waiting"}
    /\ connect' = [connect EXCEPT ![c] = "idle"]
    /\ target' = [target EXCEPT ![c] = None]
    /\ UNCHANGED <<managerVars, orphans, reopened, ownerVars, connVars, callerVars, closerVars>>

CoolDown == 
    /\ cooling
    /\ cooling' = FALSE
    /\ UNCHANGED <<registered, made, ownerVars, connVars, connectVars, callerVars, closerVars>>

-----------------------------------------------------------------------------
(* An attempt (connect_mcp_servers): once the transport is up and the      *)
(* session initialized, its wrappers are registered, without a handler,    *)
(* while resources and prompts are still being listed.                     *)
Registers(o) == 
    /\ job[o] \in {"opening", "reopening"} /\ conn[o] = None
    /\ opened < MaxConn
    /\ opened' = opened + 1
    /\ live' = live \cup {opened'}
    /\ conn' = [conn EXCEPT ![o] = opened']
    /\ tool' = opened'
    /\ UNCHANGED <<job, closing, ops, current, leaked, handler, session, managerVars,
                   connectVars, callerVars, closerVars>>

(* A failed or timed out attempt closes its own stack; the wrappers stay   *)
(* registered.                                                             *)
AttemptFails(o) == 
    /\ live' = live \ {conn[o]}
    /\ UNCHANGED <<opened, leaked, wrapperVars, managerVars>>

(* attach_reconnect_handlers: what is registered for the server now.       *)
Attaches(o) == 
    handler' = IF tool # None THEN [handler EXCEPT ![tool] = o] ELSE handler

Established(o) == 
    /\ conn[o] # None
    /\ Attaches(o)
    /\ job' = [job EXCEPT ![o] = "serving"]
    /\ UNCHANGED <<closing, ops, conn, opened, live, leaked, tool, session, managerVars>>

Opens(o) == 
    /\ job[o] = "opening"
    /\ Established(o)
    /\ ResolveReady(o, "up")
    /\ UNCHANGED <<current, callerVars, closerVars>>

OpenFails(o) == 
    /\ job[o] = "opening"
    /\ AttemptFails(o)
    /\ ResolveReady(o, "down")
    /\ Exit(o)

TakesClose(o) == 
    /\ Connected(o) /\ ops[o] # <<>> /\ Head(ops[o]).kind = "close"
    /\ job' = [job EXCEPT ![o] = "closing"]
    /\ current' = [current EXCEPT ![o] = Head(ops[o])]
    /\ ops' = [ops EXCEPT ![o] = Tail(@)]
    /\ UNCHANGED <<closing, conn, connVars, managerVars, connectVars, callerVars, closerVars>>

Closes(o) == 
    /\ job[o] = "closing"
    /\ TearDown(conn[o])
    /\ Exit(o)
    /\ UNCHANGED <<opened, wrapperVars, managerVars, connectVars>>

(* A reconnect is a rebuild only if the registered tool is the stale one   *)
(* the caller holds; else someone else rebuilt already.                    *)
NextReconnect(o) == Connected(o) /\ ops[o] # <<>> /\ Head(ops[o]).kind = "reconnect"
Slip_AlwaysRebuilds(op) == FALSE
AlreadyRebuilt(op) == tool \notin {None, op.stale}

HandsBackTool(o) == 
    /\ NextReconnect(o) /\ AlreadyRebuilt(Head(ops[o]))
    /\ Settle({Head(ops[o])}, tool)
    /\ ops' = [ops EXCEPT ![o] = Tail(@)]
    /\ UNCHANGED <<job, closing, current, conn, connVars, managerVars, connectVars, closerVars>>

(* unregister_server_tools: every wrapper that belongs to the server.      *)
Unregisters == tool' = None /\ UNCHANGED <<handler, session>>

TakesReconnect(o) == 
    /\ NextReconnect(o) /\ ~AlreadyRebuilt(Head(ops[o]))
    /\ job' = [job EXCEPT ![o] = "swapping"]
    /\ current' = [current EXCEPT ![o] = Head(ops[o])]
    /\ ops' = [ops EXCEPT ![o] = Tail(@)]
    /\ Unregisters
    /\ UNCHANGED <<closing, conn, opened, live, leaked, managerVars, connectVars, callerVars, closerVars>>

(* The old connection is torn down; a teardown that times out ends the task. *)
Slip_SwapOverLeak(o) == 
    /\ job[o] = "swapping"
    /\ conn' = [conn EXCEPT ![o] = None]
    /\ job' = [job EXCEPT ![o] = "reopening"]
    /\ UNCHANGED <<live, leaked, closing, ops, current, opened, wrapperVars,
                   managerVars, connectVars, callerVars, closerVars>>

SwapClosed(o) == 
    /\ job[o] = "swapping"
    /\ live' = live \ {conn[o]}
    /\ conn' = [conn EXCEPT ![o] = None]
    /\ job' = [job EXCEPT ![o] = "reopening"]
    /\ UNCHANGED <<leaked, closing, ops, current, opened, wrapperVars,
                   managerVars, connectVars, callerVars, closerVars>>

SwapGivenUp(o) == 
    /\ job[o] = "swapping"
    /\ leaked' = leaked \cup {conn[o]}
    /\ Exit(o)
    /\ UNCHANGED <<live, opened, wrapperVars, managerVars, connectVars>>

Reopens(o) == 
    /\ job[o] = "reopening"
    /\ Established(o)
    /\ current' = [current EXCEPT ![o] = NoOp]
    /\ Settle({current[o]}, tool)
    /\ UNCHANGED <<connectVars, closerVars>>

ReopenFails(o) == 
    /\ job[o] = "reopening"
    /\ AttemptFails(o)
    /\ Exit(o)
    /\ UNCHANGED connectVars

(* The transport cancels the task it runs in; the stack is still closed.   *)
ServerKillsTask(o) == 
    /\ Connected(o)
    /\ job' = [job EXCEPT ![o] = "leaving"]
    /\ UNCHANGED <<closing, ops, current, conn, connVars, managerVars, connectVars, callerVars, closerVars>>

Leaves(o) == 
    /\ job[o] = "leaving"
    /\ TearDown(conn[o])
    /\ Exit(o)
    /\ UNCHANGED <<opened, wrapperVars, managerVars, connectVars>>

-----------------------------------------------------------------------------
(* A call goes to the session its wrapper has at that moment.              *)
UsesTool(r) == 
    /\ caller[r] = "idle" /\ tool # None
    /\ caller' = [caller EXCEPT ![r] = "calling"]
    /\ held' = [held EXCEPT ![r] = tool]
    /\ UNCHANGED <<used, error, answer, managerVars, ownerVars, connVars, connectVars, closerVars>>

(* The call is over; of its state only the fact that it is over remains.   *)
Done(r) == 
    /\ caller' = [caller EXCEPT ![r] = "done"]
    /\ held' = [held EXCEPT ![r] = None]
    /\ used' = [used EXCEPT ![r] = {}]
    /\ error' = [error EXCEPT ![r] = {}]
    /\ answer' = [answer EXCEPT ![r] = None]

(* An answer, a timeout, a cancellation by the server or the SDK, an error *)
(* that is neither, or any McpError of a prompt, whose wrapper answers it. *)
CallEnds(r) == 
    /\ caller[r] = "calling"
    /\ Done(r)
    /\ UNCHANGED <<managerVars, ownerVars, connVars, connectVars, closerVars>>

(* A passing error is worth a second call after a second, once.            *)
WithoutNewSession(r, traits) == 
    IF "transient" \in traits \ used[r]
    THEN /\ caller' = [caller EXCEPT ![r] = "sleeping"]
         /\ used' = [used EXCEPT ![r] = @ \cup {"transient"}]
         /\ error' = [error EXCEPT ![r] = {}]
         /\ answer' = [answer EXCEPT ![r] = None]
         /\ UNCHANGED held
    ELSE Done(r)

(* A first sign of a terminated session goes to the owner, if it runs.     *)
MayRefresh(r, traits) == 
    /\ "terminated" \in traits \ used[r]
    /\ handler[held[r]] # None /\ AliveOwner(handler[held[r]])

CallRaises(r, traits) == 
    /\ caller[r] = "calling"
    /\ \/ /\ MayRefresh(r, traits)
          /\ caller' = [caller EXCEPT ![r] = "waiting"]
          /\ error' = [error EXCEPT ![r] = traits]
          /\ ops' = [ops EXCEPT ![handler[held[r]]] = 
                Append(@, [kind |-> "reconnect", by |-> r, stale |-> held[r]])]
          /\ UNCHANGED <<held, used, answer>>
       \/ /\ ~MayRefresh(r, traits)
          /\ WithoutNewSession(r, traits)
          /\ UNCHANGED ops
    /\ UNCHANGED <<job, closing, current, conn, connVars, managerVars, connectVars, closerVars>>

(* The caller stops waiting; its operation stays in the queue.             *)
ReconnectTimeout(r) == 
    /\ caller[r] = "waiting"
    /\ caller' = [caller EXCEPT ![r] = "handed"]
    /\ answer' = [answer EXCEPT ![r] = None]
    /\ LET abandon(op) == IF op.by = r THEN [op EXCEPT !.by = None] ELSE op
       IN /\ ops' = [o \in Owner |-> [i \in DOMAIN ops[o] |-> abandon(ops[o][i])]]
          /\ current' = [o \in Owner |-> abandon(current[o])]
    /\ UNCHANGED <<held, used, error, job, closing, conn, managerVars, connVars,
                   connectVars, closerVars>>

(* The wrapper takes over the session of the one handed back, for every    *)
(* call that uses it, and the call is made again.                          *)
TakesNewSession(r) == 
    /\ caller[r] = "handed" /\ answer[r] # None
    /\ session' = [session EXCEPT ![held[r]] = session[answer[r]]]
    /\ caller' = [caller EXCEPT ![r] = "calling"]
    /\ used' = [used EXCEPT ![r] = @ \cup {"terminated"}]
    /\ error' = [error EXCEPT ![r] = {}]
    /\ answer' = [answer EXCEPT ![r] = None]
    /\ UNCHANGED <<held, opened, live, leaked, tool, handler, managerVars, ownerVars,
                   connectVars, closerVars>>

HandedNothing(r) == 
    /\ caller[r] = "handed" /\ answer[r] = None
    /\ WithoutNewSession(r, error[r])
    /\ UNCHANGED <<managerVars, ownerVars, connVars, connectVars, closerVars>>

CallsAgain(r) == 
    /\ caller[r] = "sleeping"
    /\ caller' = [caller EXCEPT ![r] = "calling"]
    /\ UNCHANGED <<held, used, error, answer, managerVars, ownerVars, connVars,
                   connectVars, closerVars>>

-----------------------------------------------------------------------------
(* MCPManager.close.                                                       *)
CloseBegins(k) == 
    /\ closer[k] = "idle"
    /\ closer' = [closer EXCEPT ![k] = IF registered = None THEN "done" ELSE "begun"]
    /\ joined' = [joined EXCEPT ![k] = registered]
    /\ UNCHANGED <<managerVars, ownerVars, connVars, connectVars, callerVars>>

(* Slip: an owner that is not connected is taken for one with nothing open. *)
Slip_ClosesOnlyConnected(k) == 
    /\ closer[k] = "begun"
    /\ IF joined[k] \in closing \/ ~Connected(joined[k])
       THEN closer' = [closer EXCEPT ![k] = "joined"] /\ UNCHANGED <<closing, ops>>
       ELSE /\ closer' = [closer EXCEPT ![k] = "asked"]
            /\ closing' = closing \cup {joined[k]}
            /\ ops' = [ops EXCEPT ![joined[k]] = Append(@, [kind |-> "close", by |-> k,
                                                           stale |-> None])]
    /\ UNCHANGED <<joined, job, current, conn, managerVars, connVars, connectVars, callerVars>>

(* request_close: nothing to wait for if the owner has exited or someone   *)
(* else closes it.                                                         *)
RequestClose(k) == 
    /\ closer[k] = "begun"
    /\ IF joined[k] \in closing \/ ~AliveOwner(joined[k])
       THEN closer' = [closer EXCEPT ![k] = "joined"] /\ UNCHANGED <<closing, ops>>
       ELSE /\ closer' = [closer EXCEPT ![k] = "asked"]
            /\ closing' = closing \cup {joined[k]}
            /\ ops' = [ops EXCEPT ![joined[k]] = Append(@, [kind |-> "close", by |-> k,
                                                           stale |-> None])]
    /\ UNCHANGED <<joined, job, current, conn, managerVars, connVars, connectVars, callerVars>>

CloseTimeout(k) == 
    /\ closer[k] = "asked"
    /\ closer' = [closer EXCEPT ![k] = "joined"]
    /\ UNCHANGED <<joined, managerVars, ownerVars, connVars, connectVars, callerVars>>

(* All servers were waited for: owners that have exited are forgotten and  *)
(* their tools unregistered.                                               *)
CloseReturns(k) == 
    /\ closer[k] = "joined"
    /\ closer' = [closer EXCEPT ![k] = "done"]
    /\ joined' = [joined EXCEPT ![k] = None]
    /\ IF ~AliveOwner(joined[k]) /\ registered = joined[k]
       THEN registered' = None /\ Unregisters
       ELSE UNCHANGED <<registered, wrapperVars>>
    /\ UNCHANGED <<cooling, made, ownerVars, opened, live, leaked, connectVars, callerVars>>

-----------------------------------------------------------------------------
OwnerStep(o) == 
    \/ Registers(o) \/ Opens(o) \/ OpenFails(o) \/ TakesClose(o) \/ Closes(o)
    \/ HandsBackTool(o) \/ TakesReconnect(o) \/ SwapClosed(o) \/ SwapGivenUp(o)
    \/ Reopens(o) \/ ReopenFails(o) \/ Leaves(o)

CallStep(r) == 
    \/ CallEnds(r) \/ \E traits \in SUBSET Trait \ {{}} : CallRaises(r, traits)
    \/ TakesNewSession(r) \/ HandedNothing(r) \/ CallsAgain(r)

Next == 
    \/ \E c \in Connector : 
        Connect(c) \/ Start(c) \/ ConnectReturn(c) \/ ConnectCancelled(c)
    \/ CoolDown
    \/ \E o \in Owner : OwnerStep(o) \/ ServerKillsTask(o)
    \/ \E r \in Caller : UsesTool(r) \/ CallStep(r) \/ ReconnectTimeout(r)
    \/ \E k \in Closer : 
        CloseBegins(k) \/ RequestClose(k) \/ CloseTimeout(k) \/ CloseReturns(k)

Spec == Init /\ [][Next]_vars

(* Opening and teardown are bounded by asyncio.timeout, so the owner's task *)
(* always moves on; each request is bounded by wait_for.  Nothing is asked *)
(* of the messages, of close, or of the time a call waits for a reconnect. *)
Fairness == 
    /\ \A o \in Owner : WF_vars(OwnerStep(o))
    /\ \A r \in Caller : WF_vars(CallStep(r))

LiveSpec == Spec /\ Fairness

-----------------------------------------------------------------------------
(* A server never has two connections at once, through any mix of retries, *)
(* rebuilds, kills and closes, but for those whose teardown was given up   *)
(* and those of orphans; an open one is the _stack of a running owner.     *)
OneConnection == 
    /\ TypeOK
    /\ Cardinality({conn[o] : o \in Owner \ orphans} \cap (live \ leaked)) <= 1
    /\ \A k \in live \ leaked : \E o \in Owner : AliveOwner(o) /\ conn[o] = k

(* A rebuild tears down the session its caller found dead and never one    *)
(* that another caller has rebuilt in the meantime.  (An orphan and the    *)
(* owner made in its place take each other's tools for their own.)         *)
RebuildsOnlyStale == 
    [][\A o \in Owner : 
        orphans = {} /\ job[o] = "serving" /\ job'[o] = "swapping" 
            => current'[o].stale = conn[o]]_vars

(* A call that was handed a wrapper calls another session than the one it  *)
(* found dead, unless an earlier call had already moved the wrapper to that *)
(* session: the owner compares wrappers, not sessions (mcp_manager.py:347). *)
RetriesElsewhere == 
    [][\A r \in Caller : 
        caller[r] = "handed" /\ caller'[r] = "calling" /\ session[held[r]] = held[r]
            => session'[held[r]] # session[held[r]]]_vars

(* Rebuilding and handing back fit together: never a new session for       *)
(* nothing, never the dead one again.                                      *)
RefreshIsRight == RebuildsOnlyStale /\ RetriesElsewhere

(* A call ends whatever happens to the connection, the owner's task and    *)
(* its queue: _drain_ops and the finally of _serve settle every operation, *)
(* and each kind of retry is used once.                                    *)
EveryCallEnds == 
    \A r \in Caller : caller[r] = "calling" ~> caller[r] = "done"

(* A close leaves no connection, even if it gave up waiting for an owner   *)
(* that was still opening one, unless a message connected after it began   *)
(* or brought back an orphan.  (tests/test_mcp_lifecycle.py:300 expects    *)
(* the same of the messages that connect while the close is under way.)    *)
CloseLeavesNothing == 
    (\A k \in Closer : closer[k] = "done") 
        ~> live \subseteq leaked \cup {conn[o] : o \in orphans \cup reopened}
=============================================================================
