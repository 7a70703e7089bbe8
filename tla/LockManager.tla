---------------------------- MODULE LockManager ----------------------------
(***************************************************************************)
(* kernel/lock_manager.py: LockManager.acquire, one asyncio.Lock per user  *)
(* and then one global asyncio.Semaphore.  Both are FIFO: a task that finds *)
(* the primitive taken, or someone already waiting for it, joins the queue,  *)
(* and a cancelled waiter leaves the queue.  A task holds its user's lock   *)
(* while it waits for the gate.                                            *)
(*                                                                         *)
(* The asyncio primitives are the standard library's, modelled from how    *)
(* acquire uses them.                                                      *)
(***************************************************************************)
EXTENDS Naturals, FiniteSets, Sequences

CONSTANTS Task, User, owner, MaxConcurrent,
          NoTask         \* "nobody": the value of a free lock

ASSUME LockAssumption == 
    /\ IsFiniteSet(Task)
    /\ owner \in [Task -> User]
    /\ MaxConcurrent \in Nat
    /\ NoTask \notin Task

VARIABLES lockOwner,     \* lockOwner[u]: the task that holds u's lock
          lockQ,         \* lockQ[u]: the tasks waiting for u's lock
          gateFree,      \* the permits left in the semaphore
          gateQ,         \* the tasks waiting for a permit
          stage          \* where each task is inside acquire

lockVars == <<lockOwner, lockQ, gateFree, gateQ, stage>>

Stages == {"out", "lockQ", "gateQ", "in"}

LockTypeOK == 
    /\ lockOwner \in [User -> Task \cup {NoTask}]
    /\ lockQ \in [User -> Seq(Task)]
    /\ gateFree \in Nat
    /\ gateQ \in Seq(Task)
    /\ stage \in [Task -> Stages]

LockInit == 
    /\ lockOwner = [u \in User |-> NoTask]
    /\ lockQ = [u \in User |-> <<>>]
    /\ gateFree = MaxConcurrent
    /\ gateQ = <<>>
    /\ stage = [t \in Task |-> "out"]

(* Slips the runs tell apart from the code: a permit that is not counted,  *)
(* and a gate that lets everybody in.                                      *)
Slip_NoPermit == gateFree' = gateFree

Gated == MaxConcurrent > 0
GateOpen == ~Gated \/ (gateFree > 0 /\ gateQ = <<>>)
LockOpen(u) == lockOwner[u] = NoTask /\ lockQ[u] = <<>>

TakePermit == gateFree' = IF Gated THEN gateFree - 1 ELSE gateFree
ReturnPermit == gateFree' = IF Gated THEN gateFree + 1 ELSE gateFree

DropAt(q, i) == SubSeq(q, 1, i - 1) \o SubSeq(q, i + 1, Len(q))

-----------------------------------------------------------------------------
(* The holder of a user's lock asks for a permit without suspending. *)
TakeLock(t) == 
    /\ lockOwner' = [lockOwner EXCEPT ![owner[t]] = t]
    /\ \/ /\ GateOpen
          /\ TakePermit
          /\ stage' = [stage EXCEPT ![t] = "in"]
          /\ UNCHANGED gateQ
       \/ /\ ~GateOpen
          /\ gateQ' = Append(gateQ, t)
          /\ stage' = [stage EXCEPT ![t] = "gateQ"]
          /\ UNCHANGED gateFree

(* "async with lock" on a lock nobody holds or waits for. *)
AcquireFree(t) == 
    /\ stage[t] = "out"
    /\ LockOpen(owner[t])
    /\ TakeLock(t)
    /\ UNCHANGED lockQ

(* "async with lock" suspends behind the waiters already there. *)
AcquireQueued(t) == 
    /\ stage[t] = "out"
    /\ ~LockOpen(owner[t])
    /\ lockQ' = [lockQ EXCEPT ![owner[t]] = Append(@, t)]
    /\ stage' = [stage EXCEPT ![t] = "lockQ"]
    /\ UNCHANGED <<lockOwner, gateFree, gateQ>>

(* The first waiter of a released lock is resumed. *)
LockGranted(t) == 
    /\ stage[t] = "lockQ"
    /\ lockOwner[owner[t]] = NoTask
    /\ lockQ[owner[t]] # <<>>
    /\ Head(lockQ[owner[t]]) = t
    /\ lockQ' = [lockQ EXCEPT ![owner[t]] = Tail(@)]
    /\ TakeLock(t)

(* The first waiter of the gate gets a returned permit. *)
GateGranted(t) == 
    /\ stage[t] = "gateQ"
    /\ gateFree > 0
    /\ gateQ # <<>>
    /\ Head(gateQ) = t
    /\ gateQ' = Tail(gateQ)
    /\ TakePermit
    /\ stage' = [stage EXCEPT ![t] = "in"]
    /\ UNCHANGED <<lockOwner, lockQ>>

(* The body of the "async with" ends, normally or by an exception: the     *)
(* permit and the lock are both given back.                                *)
Release(t) == 
    /\ stage[t] = "in"
    /\ ReturnPermit
    /\ lockOwner' = [lockOwner EXCEPT ![owner[t]] = NoTask]
    /\ stage' = [stage EXCEPT ![t] = "out"]
    /\ UNCHANGED <<lockQ, gateQ>>

Slip_GateWaitKeepsLock(t) == 
    /\ stage[t] = "gateQ"
    /\ \E i \in DOMAIN gateQ : gateQ[i] = t /\ gateQ' = DropAt(gateQ, i)
    /\ stage' = [stage EXCEPT ![t] = "out"]
    /\ UNCHANGED <<lockOwner, lockQ, gateFree>>

(* CancelledError while waiting for the lock: only the queue forgets t. *)
CancelLockWait(t) == 
    /\ stage[t] = "lockQ"
    /\ \E i \in DOMAIN lockQ[owner[t]] : 
          /\ lockQ[owner[t]][i] = t
          /\ lockQ' = [lockQ EXCEPT ![owner[t]] = DropAt(@, i)]
    /\ stage' = [stage EXCEPT ![t] = "out"]
    /\ UNCHANGED <<lockOwner, gateFree, gateQ>>

(* CancelledError while waiting for the gate: the lock is given back too.  *)
CancelGateWait(t) == 
    /\ stage[t] = "gateQ"
    /\ \E i \in DOMAIN gateQ : gateQ[i] = t /\ gateQ' = DropAt(gateQ, i)
    /\ lockOwner' = [lockOwner EXCEPT ![owner[t]] = NoTask]
    /\ stage' = [stage EXCEPT ![t] = "out"]
    /\ UNCHANGED <<lockQ, gateFree>>

LockStep(t) == 
    \/ AcquireFree(t) \/ AcquireQueued(t)
    \/ LockGranted(t) \/ GateGranted(t)
    \/ Release(t)
    \/ CancelLockWait(t) \/ CancelGateWait(t)

LockNext == \E t \in Task : LockStep(t)

LockSpec == LockInit /\ [][LockNext]_lockVars

-----------------------------------------------------------------------------
Inside == {t \in Task : stage[t] = "in"}

(* acquire keeps the abstract promise of UserMutex: "same user serial,     *)
(* different users parallel", with at most MaxConcurrent bodies running.   *)
Mutex == INSTANCE UserMutex WITH inside <- Inside
MutexSpec == Mutex!Spec

(* Serialisation of one user (lock_manager.py:42): no two tasks of one     *)
(* user are inside, however waiters are queued, resumed and cancelled.     *)
UserSerial == 
    \A s, t \in Inside : owner[s] = owner[t] => s = t

(* Every permit is either in the semaphore or held by a task inside: a     *)
(* cancelled waiter neither leaks a permit nor returns one it never had.   *)
PermitsConserved == 
    Gated => gateFree + Cardinality(Inside) = MaxConcurrent

(* A lock is held exactly by a task that is inside or waits for the gate,  *)
(* so no cancellation leaves a user locked for ever.                       *)
LockHeldByLiveTask == 
    /\ \A u \in User : lockOwner[u] # NoTask =>
          stage[lockOwner[u]] \in {"gateQ", "in"} /\ owner[lockOwner[u]] = u
    /\ \A t \in Task : stage[t] \in {"gateQ", "in"} => lockOwner[owner[t]] = t
=============================================================================
