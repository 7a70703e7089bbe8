---------------------------- MODULE Kernel_proofs -----------------------------
(***************************************************************************)
(* Proofs about the message path of the kernel.  First LockManager and      *)
(* TurnDispatch, for every set of messages, every assignment of messages   *)
(* to users and every gate: the lock keeps its contract, the turns of one  *)
(* user never overlap, every turn that ends leaves exactly one report, and *)
(* the entries of _active_turns are messages still being handled.  Then    *)
(* SubagentDelivery, for any number of turns, subagents and sessions and   *)
(* any limit: the limit on concurrent subagents, the types, and that a     *)
(* result is kept once.                                                    *)
(***************************************************************************)
EXTENDS TurnDispatch, SubagentDelivery, FiniteSetTheorems, SequenceTheorems, TLAPS

-----------------------------------------------------------------------------
(* LockManager: the tasks are any tasks that use acquire.                  *)

(* Removing one waiter leaves a queue of tasks (the CancelledError path of *)
(* asyncio.Lock.acquire and asyncio.Semaphore.acquire).                    *)
LEMMA DropAtType == 
    ASSUME NEW q \in Seq(Task), NEW i \in DOMAIN q
    PROVE  DropAt(q, i) \in Seq(Task)
<1>1. Len(q) \in Nat /\ DOMAIN q = 1..Len(q)
  BY LenProperties
<1>2. \A k \in DOMAIN q : q[k] \in Task
  BY <1>1, ElementOfSeq
<1>3. SubSeq(q, 1, i - 1) \in Seq(Task)
  BY <1>1, <1>2, SubSeqProperties
<1>4. SubSeq(q, i + 1, Len(q)) \in Seq(Task)
  BY <1>1, <1>2, SubSeqProperties
<1>5. QED
  BY <1>3, <1>4, ConcatProperties DEF DropAt

(* Every step keeps the queues and the maps of lock_manager.py well typed. *)
LEMMA LockTypeStep == LockTypeOK /\ [LockNext]_lockVars => LockTypeOK'
<1> USE LockAssumption
<1>1. CASE UNCHANGED lockVars
  BY <1>1 DEF LockTypeOK, lockVars
<1>2. ASSUME LockTypeOK, NEW t \in Task, LockStep(t)
      PROVE  LockTypeOK'
  <2> USE <1>2 DEF LockTypeOK, Stages
  <2>0. owner[t] \in User /\ lockQ[owner[t]] \in Seq(Task)
    OBVIOUS
  <2>1. ASSUME TakeLock(t), lockQ' \in [User -> Seq(Task)]
        PROVE  LockTypeOK'
    <3>1. lockOwner' \in [User -> Task \cup {NoTask}]
      BY <2>0, <2>1 DEF TakeLock
    <3>2. gateFree' \in Nat
      BY <2>1 DEF TakeLock, TakePermit, GateOpen, Gated
    <3>3. gateQ' \in Seq(Task)
      <4>1. gateQ' = gateQ \/ gateQ' = Append(gateQ, t)
        BY <2>1 DEF TakeLock
      <4>2. Append(gateQ, t) \in Seq(Task)
        BY AppendProperties
      <4>3. QED
        BY <4>1, <4>2
    <3>4. stage' \in [Task -> Stages]
      BY <2>1 DEF TakeLock
    <3>5. QED
      BY <2>1, <3>1, <3>2, <3>3, <3>4
  <2>2. CASE AcquireFree(t)
    BY <2>1, <2>2 DEF AcquireFree
  <2>3. CASE AcquireQueued(t)
    BY <2>0, <2>3 DEF AcquireQueued
  <2>4. CASE LockGranted(t)
    <3>1. lockQ' \in [User -> Seq(Task)]
      BY <2>0, <2>4, HeadTailProperties DEF LockGranted
    <3>2. QED
      BY <2>1, <2>4, <3>1 DEF LockGranted
  <2>5. CASE GateGranted(t)
    BY <2>5, HeadTailProperties DEF GateGranted, TakePermit, Gated
  <2>6. CASE Release(t)
    BY <2>0, <2>6 DEF Release, ReturnPermit
  <2>7. CASE CancelLockWait(t)
    BY <2>0, <2>7, DropAtType DEF CancelLockWait
  <2>8. CASE CancelGateWait(t)
    BY <2>0, <2>8, DropAtType DEF CancelGateWait
  <2>9. QED
    BY <1>2, <2>2, <2>3, <2>4, <2>5, <2>6, <2>7, <2>8 DEF LockStep
<1>3. QED
  BY <1>1, <1>2 DEF LockNext

(* Type correctness of the lock manager. *)
THEOREM LockTyping == LockSpec => []LockTypeOK
<1>1. LockInit => LockTypeOK
  BY LockAssumption, EmptySeq DEF LockInit, LockTypeOK, Stages
<1>2. QED
  BY <1>1, LockTypeStep, PTL DEF LockSpec

(* The lock of a user is held exactly by a task of that user that is       *)
(* inside or waits for the gate: no cancellation path leaks a lock.        *)
LEMMA LockHeldStep == 
    LockTypeOK /\ LockHeldByLiveTask /\ [LockNext]_lockVars => LockHeldByLiveTask'
<1> USE LockAssumption
<1>1. CASE UNCHANGED lockVars
  BY <1>1 DEF LockHeldByLiveTask, lockVars
<1>2. ASSUME LockTypeOK, LockHeldByLiveTask, NEW t \in Task, LockStep(t)
      PROVE  LockHeldByLiveTask'
  <2> USE <1>2 DEF LockTypeOK, LockHeldByLiveTask, Stages
  <2>1. CASE TakeLock(t) /\ lockOwner[owner[t]] = NoTask
    BY <2>1 DEF TakeLock
  <2>2. CASE AcquireFree(t)
    BY <2>1, <2>2 DEF AcquireFree, LockOpen
  <2>3. CASE AcquireQueued(t)
    BY <2>3 DEF AcquireQueued
  <2>4. CASE LockGranted(t)
    BY <2>1, <2>4 DEF LockGranted
  <2>5. CASE GateGranted(t)
    BY <2>5 DEF GateGranted
  <2>6. CASE Release(t)
    BY <2>6 DEF Release
  <2>7. CASE CancelLockWait(t)
    BY <2>7 DEF CancelLockWait
  <2>8. CASE CancelGateWait(t)
    BY <2>8 DEF CancelGateWait
  <2>9. QED
    BY <1>2, <2>2, <2>3, <2>4, <2>5, <2>6, <2>7, <2>8 DEF LockStep
<1>3. QED
  BY <1>1, <1>2 DEF LockNext

(* A held lock always has a live holder, and the holder is unique. *)
THEOREM LockHeld == LockSpec => []LockHeldByLiveTask
<1>1. LockInit => LockHeldByLiveTask
  BY LockAssumption DEF LockInit, LockHeldByLiveTask
<1>2. QED
  BY <1>1, LockHeldStep, LockTyping, PTL DEF LockSpec

(* Messages of one user are processed one at a time (lock_manager.py:42).  *)
THEOREM Serialised == LockSpec => []UserSerial
<1>1. LockHeldByLiveTask => UserSerial
  BY DEF LockHeldByLiveTask, UserSerial, Inside
<1>2. QED
  BY <1>1, LockHeld, PTL

-----------------------------------------------------------------------------
(* A task that starts or ends its body changes the size of Inside by one.  *)
LEMMA InsideGrows == 
    ASSUME LockTypeOK, NEW t \in Task, stage[t] # "in",
           stage' = [stage EXCEPT ![t] = "in"]
    PROVE  /\ IsFiniteSet(Inside) /\ Inside' = Inside \cup {t}
           /\ Cardinality(Inside) \in Nat
           /\ Cardinality(Inside') = Cardinality(Inside) + 1
<1>1. IsFiniteSet(Inside)
  BY LockAssumption, FS_Subset DEF Inside
<1>2. Inside' = Inside \cup {t} /\ t \notin Inside
  BY DEF Inside, LockTypeOK
<1>3. QED
  BY <1>1, <1>2, FS_AddElement, FS_CardinalityType

LEMMA InsideShrinks == 
    ASSUME LockTypeOK, NEW t \in Task, stage[t] = "in",
           stage' = [stage EXCEPT ![t] = "out"]
    PROVE  /\ Inside' = Inside \ {t} /\ t \in Inside
           /\ Cardinality(Inside) \in Nat
           /\ Cardinality(Inside') = Cardinality(Inside) - 1
<1>1. IsFiniteSet(Inside)
  BY LockAssumption, FS_Subset DEF Inside
<1>2. Inside' = Inside \ {t} /\ t \in Inside
  BY DEF Inside, LockTypeOK
<1>3. QED
  BY <1>1, <1>2, FS_RemoveElement, FS_CardinalityType

(* A step between two places outside the body leaves Inside alone. *)
LEMMA InsideSame == 
    ASSUME LockTypeOK, NEW t \in Task, stage[t] # "in", NEW p, p # "in",
           stage' = [stage EXCEPT ![t] = p]
    PROVE  Inside' = Inside
  BY DEF Inside, LockTypeOK

(* The semaphore's counter and the tasks inside add up to its size: waiters *)
(* that are cancelled neither leak a permit nor return one they never had. *)
LEMMA PermitsStep == 
    LockTypeOK /\ PermitsConserved /\ [LockNext]_lockVars => PermitsConserved'
<1> USE LockAssumption
<1>1. CASE UNCHANGED lockVars
  BY <1>1 DEF PermitsConserved, lockVars, Inside, Gated
<1>2. ASSUME LockTypeOK, PermitsConserved, Gated, NEW t \in Task, LockStep(t)
      PROVE  gateFree' + Cardinality(Inside') = MaxConcurrent
  <2>0. gateFree \in Nat /\ gateFree + Cardinality(Inside) = MaxConcurrent
    BY <1>2 DEF PermitsConserved, LockTypeOK
  <2>1. ASSUME TakeLock(t), stage[t] # "in" PROVE gateFree' + Cardinality(Inside') = MaxConcurrent
    <3>1. CASE GateOpen
      BY <1>2, <2>0, <2>1, <3>1, InsideGrows DEF TakeLock, TakePermit, GateOpen
    <3>2. CASE ~GateOpen
      BY <1>2, <2>0, <2>1, <3>2, InsideSame DEF TakeLock
    <3>3. QED
      BY <3>1, <3>2
  <2>2. CASE AcquireFree(t)
    BY <2>1, <2>2 DEF AcquireFree
  <2>3. CASE AcquireQueued(t)
    BY <1>2, <2>0, <2>3, InsideSame DEF AcquireQueued
  <2>4. CASE LockGranted(t)
    BY <2>1, <2>4 DEF LockGranted
  <2>5. CASE GateGranted(t)
    <3>1. stage[t] # "in" /\ gateFree' = gateFree - 1
      BY <1>2, <2>5 DEF GateGranted, TakePermit
    <3>2. Cardinality(Inside) \in Nat /\ Cardinality(Inside') = Cardinality(Inside) + 1
      BY <1>2, <2>5, <3>1, InsideGrows DEF GateGranted
    <3>3. QED
      BY <2>0, <3>1, <3>2
  <2>6. CASE Release(t)
    <3>1. gateFree' = gateFree + 1
      BY <1>2, <2>6 DEF Release, ReturnPermit
    <3>2. Cardinality(Inside) \in Nat /\ Cardinality(Inside') = Cardinality(Inside) - 1
      BY <1>2, <2>6, InsideShrinks DEF Release
    <3>3. QED
      BY <2>0, <3>1, <3>2
  <2>7. CASE CancelLockWait(t)
    BY <1>2, <2>0, <2>7, InsideSame DEF CancelLockWait
  <2>8. CASE CancelGateWait(t)
    BY <1>2, <2>0, <2>8, InsideSame DEF CancelGateWait
  <2>9. QED
    BY <1>2, <2>2, <2>3, <2>4, <2>5, <2>6, <2>7, <2>8 DEF LockStep
<1>3. QED
  BY <1>1, <1>2 DEF LockNext, PermitsConserved, Gated

(* The gate never leaks: permits free plus bodies running is its size. *)
THEOREM GateConserved == LockSpec => []PermitsConserved
<1>1. LockInit => PermitsConserved
  <2>1. LockInit => Inside = {}
    BY DEF LockInit, Inside
  <2>2. Cardinality({}) = 0
    BY FS_EmptySet
  <2>3. SUFFICES ASSUME LockInit PROVE gateFree + Cardinality(Inside) = MaxConcurrent
    BY DEF PermitsConserved
  <2>4. gateFree = MaxConcurrent /\ MaxConcurrent \in Nat /\ Cardinality(Inside) = 0
    BY <2>1, <2>2, <2>3, LockAssumption DEF LockInit
  <2>5. QED
    BY <2>4
<1>2. QED
  BY <1>1, PermitsStep, LockTyping, PTL DEF LockSpec

-----------------------------------------------------------------------------
(* LockManager implements UserMutex: what acquire does with two asyncio    *)
(* primitives is the atomic entry and exit its callers rely on.            *)
THEOREM Refinement == LockSpec => MutexSpec
<1> USE LockAssumption
<1>1. LockInit => Mutex!Init
  BY DEF LockInit, Mutex!Init, Inside
<1>2. ASSUME LockTypeOK, LockHeldByLiveTask, PermitsConserved, [LockNext]_lockVars
      PROVE  [Mutex!Next]_Inside
  <2>1. CASE UNCHANGED lockVars
    BY <2>1 DEF lockVars, Inside
  <2>2. ASSUME NEW t \in Task, LockStep(t)
        PROVE  [Mutex!Next]_Inside
    <3>1. ASSUME stage[t] # "in", stage' = [stage EXCEPT ![t] = "in"],
                 \A s \in Inside : owner[s] # owner[t],
                 Gated => gateFree > 0
          PROVE  Mutex!Next
      <4>1. Inside' = Inside \cup {t} /\ t \notin Inside
        BY <1>2, <3>1, InsideGrows DEF Inside
      <4>2. MaxConcurrent > 0 => Cardinality(Inside) < MaxConcurrent
        <5>1. Cardinality(Inside) \in Nat
          BY <1>2, <3>1, InsideGrows
        <5>2. gateFree \in Nat
          BY <1>2 DEF LockTypeOK
        <5>3. QED
          BY <1>2, <3>1, <5>1, <5>2 DEF PermitsConserved, Gated
      <4>3. Mutex!Enter(t)
        <5>1. Mutex!Cardinality(Inside) = Cardinality(Inside)
          BY DEF Mutex!Cardinality, Cardinality
        <5>2. QED
          BY ONLY <3>1, <4>1, <4>2, <5>1 DEF Mutex!Enter, Mutex!SameUser
      <4>4. QED
        BY <4>3 DEF Mutex!Next
    <3>2. ASSUME TakeLock(t), stage[t] # "in", lockOwner[owner[t]] = NoTask
          PROVE  [Mutex!Next]_Inside
      <4>1. \A s \in Inside : owner[s] # owner[t]
        BY <1>2, <3>2 DEF LockHeldByLiveTask, Inside
      <4>2. CASE GateOpen
        BY <3>1, <3>2, <4>1, <4>2 DEF TakeLock, GateOpen
      <4>3. CASE ~GateOpen
        BY <1>2, <3>2, <4>3, InsideSame DEF TakeLock
      <4>4. QED
        BY <4>2, <4>3
    <3>3. CASE AcquireFree(t)
      BY <3>2, <3>3 DEF AcquireFree, LockOpen
    <3>4. CASE AcquireQueued(t)
      BY <1>2, <3>4, InsideSame DEF AcquireQueued
    <3>5. CASE LockGranted(t)
      BY <3>2, <3>5 DEF LockGranted
    <3>6. CASE GateGranted(t)
      <4>1. \A s \in Inside : owner[s] # owner[t]
        BY <1>2, <3>6 DEF LockHeldByLiveTask, Inside, GateGranted
      <4>2. QED
        BY <3>1, <3>6, <4>1 DEF GateGranted
    <3>7. CASE Release(t)
      BY <1>2, <3>7, InsideShrinks DEF Release, Mutex!Next, Mutex!Leave
    <3>8. CASE CancelLockWait(t)
      BY <1>2, <3>8, InsideSame DEF CancelLockWait
    <3>9. CASE CancelGateWait(t)
      BY <1>2, <3>9, InsideSame DEF CancelGateWait
    <3>10. QED
      BY <2>2, <3>3, <3>4, <3>5, <3>6, <3>7, <3>8, <3>9 DEF LockStep
  <2>3. QED
    BY <1>2, <2>1, <2>2 DEF LockNext
<1>3. QED
  BY <1>1, <1>2, LockTyping, LockHeld, GateConserved, PTL
     DEF LockSpec, MutexSpec, Mutex!Spec

-----------------------------------------------------------------------------
(* TurnDispatch: the tasks are the messages.                               *)

(* Every step of a message uses LockManager.acquire or leaves it alone. *)
LEMMA DispatchUsesLock == [Next]_vars => [LockNext]_lockVars
<1>1. CASE UNCHANGED vars
  BY <1>1 DEF vars
<1>2. ASSUME NEW t \in Task, Acquire(t) PROVE LockStep(t)
  BY <1>2 DEF Acquire, LockStep
<1>3. ASSUME NEW t \in Task, Register(t) PROVE LockStep(t) \/ UNCHANGED lockVars
  BY <1>2, <1>3 DEF Register
<1>4. ASSUME NEW t \in Task, Finish(t) PROVE LockStep(t)
  BY <1>4 DEF Finish, LockStep
<1>5. ASSUME NEW t \in Task, TaskStep(t) PROVE LockStep(t) \/ UNCHANGED lockVars
  <2>1. CASE Refuse(t) \/ AdmitToMcp(t)
    BY <2>1 DEF Refuse, AdmitToMcp
  <2>2. CASE AdmitDirect(t) \/ McpConnected(t)
    BY <1>3, <2>2 DEF AdmitDirect, McpConnected
  <2>3. CASE BlockerDone(t)
    BY <1>2, <2>3 DEF BlockerDone
  <2>4. CASE LockReady(t)
    BY <2>4 DEF LockReady, LockStep
  <2>5. CASE RestoreDone(t) \/ BuildDone(t) \/ RunDone(t)
    BY <2>5 DEF RestoreDone, BuildDone, RunDone
  <2>6. CASE SaveDone(t) \/ HandlerFails(t)
    BY <1>4, <2>6 DEF SaveDone, HandlerFails
  <2>7. CASE CancelDelivered(t)
    BY <1>4, <2>7 DEF CancelDelivered, CancelInside, CancelAcquire, CancelBlocked, LockStep
  <2>8. CASE Hooks(t)
    BY <2>8 DEF Hooks, EmitAbandoned, Notify, HooksDone
  <2>9. QED
    BY <1>5, <2>1, <2>2, <2>3, <2>4, <2>5, <2>6, <2>7, <2>8 DEF TaskStep, Waits, Works
<1>6. ASSUME NEW u \in User, Stop(u) PROVE UNCHANGED lockVars
  BY <1>6 DEF Stop
<1>7. CASE Shutdown
  BY <1>7 DEF Shutdown, BeginShutdown, TurnsQuiet, TurnsDeadline, CancelledQuiet,
              CancelledDeadline, HooksQuiet, HooksDeadline, Unload, Proceed
<1>8. QED
  BY <1>1, <1>5, <1>6, <1>7 DEF Next, LockNext

LEMMA DispatchImplementsLock == Spec => LockSpec
<1>1. Init => LockInit
  BY DEF Init
<1>2. QED
  BY <1>1, DispatchUsesLock, PTL DEF Spec, LockSpec

(* "Same user serial, different users parallel" (kernel.py:270-272): the   *)
(* bodies of handle_message keep the promise of UserMutex.                 *)
THEOREM TurnsSerialised == Spec => MutexSpec
  BY DispatchImplementsLock, Refinement, PTL

(* The same as an invariant: no two turns of a user overlap. *)
COROLLARY NoOverlap == Spec => []UserSerial
  BY DispatchImplementsLock, Serialised, PTL

-----------------------------------------------------------------------------
(* The types of what the kernel and the loop keep about each message.      *)
DispatchTypes == 
    /\ phase \in [Task -> Phases]
    /\ cancelled \subseteq Task
    /\ active \in [User -> Task \cup {NoTask}]
    /\ blocker \in [User -> Task \cup {NoTask}]
    /\ awaited \in [Task -> Task \cup {NoTask}]
    /\ begun \subseteq Task
    /\ report \in [Task -> Reports]
    /\ kernel \in KernelStages
    /\ draining \subseteq Task
    /\ timedOut \in BOOLEAN

LEMMA DispatchTypesStep == DispatchTypes /\ [Next]_vars => DispatchTypes'
<1> USE LockAssumption
<1> USE DEF DispatchTypes, Phases, Reports, KernelStages
<1>1. CASE UNCHANGED vars
  BY <1>1 DEF vars, taskVars, hookVars, kernelVars
<1>2. ASSUME DispatchTypes, NEW t \in Task, Acquire(t)
      PROVE  phase' \in [Task -> Phases] /\ begun' \subseteq Task
  BY <1>2 DEF Acquire, EnterOrWait
<1>3. ASSUME DispatchTypes, NEW t \in Task, Register(t) PROVE DispatchTypes'
  <2>1. owner[t] \in User
    OBVIOUS
  <2>2. active' \in [User -> Task \cup {NoTask}] /\ blocker' \in [User -> Task \cup {NoTask}]
    BY <1>3, <2>1 DEF Register
  <2>3. phase' \in [Task -> Phases] /\ begun' \subseteq Task
    BY <1>2, <1>3 DEF Register
  <2>4. awaited' \in [Task -> Task \cup {NoTask}]
    BY <1>3, <2>1 DEF Register
  <2>5. QED
    BY <1>3, <2>2, <2>3, <2>4 DEF Register, kernelVars
<1>4. ASSUME DispatchTypes, NEW t \in Task, Finish(t)
      PROVE  DispatchTypes'
  <2>1. report' \in [Task -> Reports]
    BY <1>4 DEF Finish, LeavesReport
  <2>2. QED
    BY <1>4, <2>1 DEF Finish, kernelVars
<1>5. ASSUME DispatchTypes, NEW t \in Task, Abort(t)
      PROVE  /\ phase' \in [Task -> Phases]
             /\ cancelled' \subseteq Task /\ active' \in [User -> Task \cup {NoTask}]
             /\ UNCHANGED <<begun, kernel, draining, timedOut>>
  BY <1>5 DEF Abort, kernelVars
<1>6. ASSUME DispatchTypes, NEW t \in Task, TaskStep(t) PROVE DispatchTypes'
  <2>1. CASE Refuse(t)
    BY <1>6, <2>1 DEF Refuse, hookVars, kernelVars
  <2>2. CASE AdmitToMcp(t)
    BY <1>6, <2>2 DEF AdmitToMcp, hookVars, kernelVars
  <2>3. CASE AdmitDirect(t) \/ McpConnected(t)
    BY <1>3, <1>6, <2>3 DEF AdmitDirect, McpConnected
  <2>4. CASE BlockerDone(t)
    <3>1. phase' \in [Task -> Phases] /\ begun' \subseteq Task
      BY <1>2, <1>6, <2>4 DEF BlockerDone
    <3>2. QED
      BY <1>6, <2>4, <3>1 DEF BlockerDone, kernelVars
  <2>5. CASE LockReady(t)
    BY <1>6, <2>5 DEF LockReady, EnterOrWait, hookVars, kernelVars
  <2>6. CASE RestoreDone(t) \/ BuildDone(t)
    BY <1>6, <2>6 DEF RestoreDone, BuildDone, hookVars, kernelVars
  <2>7. CASE RunDone(t)
    BY <1>6, <2>7 DEF RunDone, kernelVars
  <2>8. CASE SaveDone(t) \/ HandlerFails(t)
    BY <1>4, <1>6, <2>8 DEF SaveDone, HandlerFails
  <2>9. CASE CancelDelivered(t)
    <3>1. CASE CancelInside(t)
      BY <1>4, <1>6, <3>1 DEF CancelInside
    <3>2. CASE CancelAcquire(t)
      BY <1>5, <1>6, <3>2 DEF CancelAcquire, hookVars
    <3>3. CASE CancelBlocked(t)
      <4>1. report' \in [Task -> Reports] /\ awaited' \in [Task -> Task \cup {NoTask}]
        BY <1>6, <3>3 DEF CancelBlocked
      <4>2. QED
        BY <1>5, <1>6, <3>3, <4>1 DEF CancelBlocked
    <3>4. QED
      BY <2>9, <3>1, <3>2, <3>3 DEF CancelDelivered
  <2>10. CASE EmitAbandoned(t) \/ HooksDone(t)
    BY <1>6, <2>10 DEF EmitAbandoned, HooksDone, taskVars, kernelVars
  <2>11. CASE Notify(t)
    BY <1>6, <2>11 DEF Notify, taskVars, kernelVars
  <2>12. QED
    BY <1>6, <2>1, <2>2, <2>3, <2>4, <2>5, <2>6, <2>7, <2>8, <2>9, <2>10, <2>11
       DEF TaskStep, Waits, Works, Hooks
<1>7. ASSUME DispatchTypes, NEW u \in User, Stop(u) PROVE DispatchTypes'
  BY <1>7 DEF Stop, hookVars, kernelVars
<1>8. ASSUME DispatchTypes, Shutdown PROVE DispatchTypes'
  <2>1. Registered \subseteq Task
    BY <1>8 DEF Registered
  <2>2. CASE TurnsDeadline
    BY <1>8, <2>1, <2>2 DEF TurnsDeadline, Proceed, hookVars
  <2>3. CASE CancelledDeadline \/ HooksDeadline
    BY <1>8, <2>3 DEF CancelledDeadline, HooksDeadline, Proceed, hookVars
  <2>4. CASE BeginShutdown \/ TurnsQuiet \/ CancelledQuiet \/ HooksQuiet \/ Unload
    BY <1>8, <2>4 DEF BeginShutdown, TurnsQuiet, CancelledQuiet, HooksQuiet, Unload,
                      Proceed, hookVars
  <2>5. QED
    BY <1>8, <2>2, <2>3, <2>4 DEF Shutdown
<1>9. QED
  BY <1>1, <1>6, <1>7, <1>8 DEF Next

(* Type correctness of the dispatch path. *)
THEOREM Typing == Spec => []TypeOK
<1>1. Init => DispatchTypes
  BY LockAssumption DEF Init, DispatchTypes, Phases, Reports, KernelStages
<1>2. Spec => []DispatchTypes
  BY <1>1, DispatchTypesStep, PTL DEF Spec
<1>3. LockTypeOK /\ DispatchTypes => TypeOK
  BY DEF TypeOK, DispatchTypes
<1>4. QED
  BY <1>2, <1>3, DispatchImplementsLock, LockTyping, PTL
-----------------------------------------------------------------------------
(* What the dispatch path adds to the lock: PhasesAgree ties the phase of  *)
(* a message to its place in LockManager, and the reports to the phases.   *)
OnlyBegunReported == \A t \in Task : report[t] # "none" => t \in begun
ReportInv == PhasesAgree /\ EveryTurnReported /\ OnlyBegunReported

LEMMA ReportStep == 
    TypeOK /\ ReportInv /\ [Next]_vars => ReportInv'
<1> USE LockAssumption
<1> USE DEF ReportInv, PhasesAgree, EveryTurnReported, OnlyBegunReported, Inner
<1>0. TypeOK => /\ phase \in [Task -> Phases] /\ report \in [Task -> Reports]
                /\ stage \in [Task -> Stages] /\ begun \subseteq Task
                /\ awaited \in [Task -> Task \cup {NoTask}]
  BY DEF TypeOK, LockTypeOK
<1>1. CASE UNCHANGED vars
  BY <1>1 DEF vars, taskVars, hookVars, lockVars
<1>2. ASSUME TypeOK, ReportInv, NEW t \in Task, 
             \/ Acquire(t) 
             \/ (LockGranted(t) \/ GateGranted(t)) /\ EnterOrWait(t),
             phase[t] \notin Inner \cup {"done"}, UNCHANGED report
      PROVE  ReportInv'
  <2>1. /\ \/ stage' = [stage EXCEPT ![t] = "in"]
           \/ stage' = [stage EXCEPT ![t] = "lockQ"]
           \/ stage' = [stage EXCEPT ![t] = "gateQ"]
        /\ phase' = [phase EXCEPT ![t] = IF stage'[t] = "in" THEN "restore" ELSE "acquire"]
        /\ begun' = IF stage'[t] = "in" THEN begun \cup {t} ELSE begun
    BY <1>2 DEF Acquire, AcquireFree, AcquireQueued, LockGranted, GateGranted, TakeLock, EnterOrWait
  <2>2. t \notin begun /\ report[t] = "none"
    BY <1>2
  <2>3. CASE stage' = [stage EXCEPT ![t] = "in"]
    <3>1. phase' = [phase EXCEPT ![t] = "restore"] /\ begun' = begun \cup {t}
      BY <1>0, <1>2, <2>1, <2>3
    <3>2. QED
      BY <1>0, <1>2, <2>2, <2>3, <3>1
  <2>4. CASE stage' # [stage EXCEPT ![t] = "in"]
    <3>1. phase' = [phase EXCEPT ![t] = "acquire"] /\ begun' = begun
      BY <1>0, <1>2, <2>1, <2>4
    <3>2. QED
      BY <1>0, <1>2, <2>1, <2>2, <2>4, <3>1
  <2>5. QED
    BY <2>3, <2>4
<1>3. ASSUME TypeOK, ReportInv, NEW t \in Task, Register(t),
             phase[t] \in {"idle", "mcp"}
      PROVE  ReportInv'
  <2>1. CASE Acquire(t)
    BY <1>2, <1>3, <2>1 DEF Register
  <2>2. CASE phase' = [phase EXCEPT ![t] = "blocker"] /\ UNCHANGED <<lockVars, begun>>
    BY <1>0, <1>3, <2>2 DEF Register, lockVars
  <2>3. QED
    BY <1>3, <2>1, <2>2 DEF Register
<1>4. ASSUME TypeOK, ReportInv, NEW t \in Task, Finish(t), phase[t] \in Inner
      PROVE  ReportInv'
  BY <1>0, <1>4 DEF Finish, Release, LeavesReport
<1>5. ASSUME TypeOK, ReportInv, NEW t \in Task, TaskStep(t) PROVE ReportInv'
  <2>1. CASE Refuse(t) \/ AdmitToMcp(t)
    BY <1>0, <1>5, <2>1 DEF Refuse, AdmitToMcp, Arrives, hookVars, lockVars
  <2>2. CASE AdmitDirect(t) \/ McpConnected(t)
    BY <1>3, <1>5, <2>2 DEF AdmitDirect, McpConnected, Arrives
  <2>3. CASE BlockerDone(t)
    BY <1>2, <1>5, <2>3 DEF BlockerDone
  <2>4. CASE LockReady(t)
    BY <1>2, <1>5, <2>4 DEF LockReady, hookVars
  <2>5. CASE RestoreDone(t) \/ BuildDone(t)
    BY <1>0, <1>5, <2>5 DEF RestoreDone, BuildDone, hookVars, lockVars
  <2>6. CASE RunDone(t)
    BY <1>0, <1>5, <2>6 DEF RunDone, lockVars
  <2>7. CASE SaveDone(t) \/ HandlerFails(t)
    BY <1>4, <1>5, <2>7 DEF SaveDone, HandlerFails
  <2>8. CASE CancelDelivered(t)
    <3>1. CASE CancelInside(t)
      BY <1>4, <1>5, <3>1 DEF CancelInside
    <3>2. CASE CancelAcquire(t)
      <4>1. stage' = [stage EXCEPT ![t] = "out"] /\ phase' = [phase EXCEPT ![t] = "done"]
            /\ UNCHANGED <<report, begun>>
        BY <3>2 DEF CancelAcquire, CancelLockWait, CancelGateWait, Abort, hookVars
      <4>2. phase[t] = "acquire"
        BY <3>2 DEF CancelAcquire
      <4>3. QED
        BY <1>0, <1>5, <4>1, <4>2
    <3>3. CASE CancelBlocked(t)
      BY <1>0, <1>5, <3>3 DEF CancelBlocked, Abort, lockVars
    <3>4. QED
      BY <2>8, <3>1, <3>2, <3>3 DEF CancelDelivered
  <2>9. CASE Hooks(t)
    BY <1>0, <1>5, <2>9 DEF Hooks, EmitAbandoned, Notify, HooksDone, taskVars, lockVars
  <2>10. QED
    BY <1>5, <2>1, <2>2, <2>3, <2>4, <2>5, <2>6, <2>7, <2>8, <2>9 DEF TaskStep, Waits, Works
<1>6. ASSUME TypeOK, ReportInv, NEW u \in User, Stop(u) PROVE ReportInv'
  BY <1>6 DEF Stop, hookVars, lockVars
<1>7. ASSUME TypeOK, ReportInv, Shutdown PROVE ReportInv'
  BY <1>7 DEF Shutdown, BeginShutdown, TurnsQuiet, TurnsDeadline, CancelledQuiet,
              CancelledDeadline, HooksQuiet, HooksDeadline, Unload, Proceed, hookVars, lockVars
<1>8. QED
  BY <1>1, <1>5, <1>6, <1>7 DEF Next

LEMMA ReportInvariant == Spec => []ReportInv
<1>1. Init => ReportInv
  BY DEF Init, LockInit, ReportInv, PhasesAgree, EveryTurnReported, OnlyBegunReported, Inner
<1>2. QED
  BY <1>1, ReportStep, Typing, PTL DEF Spec

(* "Exactly one terminal report per turn" (loop.py:1255), the first half:  *)
(* however a turn ends, it leaves a report or the task that will emit it.  *)
THEOREM TurnsReported == Spec => []EveryTurnReported
<1>1. ReportInv => EveryTurnReported
  BY DEF ReportInv
<1>2. QED
  BY <1>1, ReportInvariant, PTL

(* The second half: a report only ever moves forward, so turn_report_emitted *)
(* makes the exits of the turn state machine emit at most one.             *)
THEOREM ReportedOnce == Spec => NoSecondReport
<1> USE DEF Rank
<1>1. ASSUME TypeOK, ReportInv, [Next]_vars, NEW t \in Task
      PROVE  Rank[report[t]] <= Rank[report'[t]]
  <2>0. report \in [Task -> Reports] /\ awaited \in [Task -> Task \cup {NoTask}]
    BY <1>1 DEF TypeOK
  <2>1. ASSUME UNCHANGED report PROVE Rank[report[t]] <= Rank[report'[t]]
    BY <2>0, <2>1 DEF Reports
  <2>2. ASSUME NEW s \in Task, Finish(s) PROVE Rank[report[t]] <= Rank[report'[t]]
    BY <2>0, <2>2 DEF Finish, LeavesReport, Reports
  <2>3. ASSUME NEW s \in Task, TaskStep(s) PROVE Rank[report[t]] <= Rank[report'[t]]
    <3>1. CASE Refuse(s) \/ AdmitToMcp(s) \/ LockReady(s) \/ RestoreDone(s) \/ BuildDone(s)
      BY <2>1, <3>1 DEF Refuse, AdmitToMcp, LockReady, RestoreDone, BuildDone, hookVars
    <3>2. CASE AdmitDirect(s) \/ McpConnected(s) \/ BlockerDone(s)
      BY <2>1, <3>2 DEF AdmitDirect, McpConnected, BlockerDone, Register
    <3>3. CASE RunDone(s)
      <4>1. report[s] = "none"
        BY <1>1, <3>3 DEF RunDone, ReportInv, PhasesAgree
      <4>2. QED
        BY ONLY <2>0, <3>3, <4>1 DEF RunDone, Reports, Rank
    <3>4. CASE SaveDone(s) \/ HandlerFails(s) \/ CancelInside(s)
      BY <2>2, <3>4 DEF SaveDone, HandlerFails, CancelInside
    <3>5. CASE CancelAcquire(s)
      BY <2>1, <3>5 DEF CancelAcquire, hookVars
    <3>6. CASE CancelBlocked(s)
      BY <2>0, <3>6 DEF CancelBlocked, Reports
    <3>7. CASE Hooks(s)
      BY <2>0, <3>7 DEF Hooks, EmitAbandoned, Notify, HooksDone, Reports
    <3>8. QED
      BY <2>3, <3>1, <3>2, <3>3, <3>4, <3>5, <3>6, <3>7
         DEF TaskStep, Waits, Works, CancelDelivered
  <2>4. ASSUME NEW u \in User, Stop(u) PROVE UNCHANGED report
    BY <2>4 DEF Stop, hookVars
  <2>5. CASE Shutdown
    BY <2>1, <2>5 DEF Shutdown, BeginShutdown, TurnsQuiet, TurnsDeadline, CancelledQuiet,
              CancelledDeadline, HooksQuiet, HooksDeadline, Unload, Proceed, hookVars
  <2>6. CASE UNCHANGED vars
    BY <2>1, <2>6 DEF vars, hookVars
  <2>7. QED
    BY <1>1, <2>1, <2>3, <2>4, <2>5, <2>6 DEF Next
<1>2. TypeOK /\ ReportInv /\ [Next]_vars => 
          [ReportsMoveOn]_vars
  BY <1>1 DEF ReportsMoveOn
<1>3. QED
  BY <1>2, Typing, ReportInvariant, PTL DEF Spec, NoSecondReport

(* Both halves: every turn leaves exactly one report.                       *)
THEOREM ExactlyOneReport == Spec => OneReport
<1>1. [ReportsMoveOn]_vars /\ EveryTurnReported' => [ReportsMoveOn /\ EveryTurnReported']_vars
  OBVIOUS
<1>2. QED
  BY <1>1, TurnsReported, ReportedOnce, PTL DEF OneReport, NoSecondReport

(* No path of a message leaks the lock or a permit.                         *)
THEOREM NothingLeaks == Spec => []LocksSound
<1>1. TypeOK /\ PermitsConserved /\ LockHeldByLiveTask => LocksSound
  BY DEF LocksSound
<1>2. QED
  BY <1>1, Typing, DispatchImplementsLock, GateConserved, LockHeld, PTL
-----------------------------------------------------------------------------
(* _active_turns.  An entry is a message being handled because an entry is *)
(* made when a message leaves "idle" or "mcp" and every way out of a       *)
(* message clears its user's entry.                                        *)
Ended == {"idle", "done"}
Handled == {"blocker", "acquire"} \cup Inner

(* A serial user has at most one message under way, which from Register on *)
(* is the entry: nobody else's end can clear it.                           *)
SerialOne == 
    \A s, t \in Task : 
        owner[s] = owner[t] /\ owner[t] \in SerialUser /\ s # t => phase[s] \in Ended \/ phase[t] \in Ended
SerialEntry == 
    \A t \in Task : owner[t] \in SerialUser /\ phase[t] \in Handled => active[owner[t]] = t
McpOnly == \A t \in Task : phase[t] = "mcp" => t \in NeedsMcp

(* The stages of shutdown, for the messages the drain answers for: those   *)
(* left when the bound of the first wait expires are the ones it waits for *)
(* again, and nothing is added to them behind the closed gate.             *)
Answerable(t) == t \notin NeedsMcp /\ owner[t] \in SerialUser
Drained == 
    \A t \in Task : Answerable(t) => 
        /\ kernel = "drainCancelled" => phase[t] \in Ended \/ t \in draining
        /\ kernel \in {"drainHooks", "stopping", "down"} /\ ~timedOut => phase[t] \in Ended
        /\ kernel \in {"stopping", "down"} /\ ~timedOut => ~HookPending(t)
ActiveInv == ActiveIsLive /\ SerialOne /\ SerialEntry /\ McpOnly /\ Drained

(* What one step does to the phases and to _active_turns.                  *)
Steps(t) == 
    /\ \/ phase[t] = "idle" /\ phase' = [phase EXCEPT ![t] = "done"] /\ active' = active
       \/ /\ Arrives(t) /\ kernel = "up" /\ t \in NeedsMcp
          /\ phase' = [phase EXCEPT ![t] = "mcp"] /\ active' = active
       \/ /\ (Arrives(t) /\ kernel = "up" /\ t \notin NeedsMcp) \/ phase[t] = "mcp"
          /\ \E p \in Handled : phase' = [phase EXCEPT ![t] = p]
          /\ active' = [active EXCEPT ![owner[t]] = t]
       \/ /\ phase[t] \in Handled
          /\ \E p \in Handled : phase' = [phase EXCEPT ![t] = p]
          /\ active' = active
       \/ /\ phase[t] \in Handled
          /\ phase' = [phase EXCEPT ![t] = "done"]
          /\ active' = [active EXCEPT ![owner[t]] = NoTask]
       \/ UNCHANGED <<phase, active>>
    /\ \A s \in Task : HookPending(s)' => HookPending(s) \/ (s = t /\ phase[t] \in Inner)
    /\ UNCHANGED kernelVars

LEMMA StepOfMessage == 
    ASSUME TypeOK, NEW t \in Task, TaskStep(t)
    PROVE  Steps(t)
<1> USE DEF Steps, Handled, Inner, kernelVars
<1>0. /\ phase \in [Task -> Phases] /\ report \in [Task -> Reports]
      /\ awaited \in [Task -> Task \cup {NoTask}]
  BY DEF TypeOK
<1>a. ASSUME EnterOrWait(t)
      PROVE  \E p \in Handled : phase' = [phase EXCEPT ![t] = p]
  BY <1>a DEF EnterOrWait
<1>b. ASSUME UNCHANGED report PROVE \A s \in Task : HookPending(s)' => HookPending(s)
  BY <1>b DEF HookPending
<1>c. ASSUME \/ phase[t] = "idle" /\ Arrives(t) /\ kernel = "up" /\ t \notin NeedsMcp
             \/ phase[t] = "mcp",
             Register(t)
      PROVE  Steps(t)
  <2>1. \E p \in Handled : phase' = [phase EXCEPT ![t] = p]
    BY <1>c, <1>a DEF Register, Acquire
  <2>2. active' = [active EXCEPT ![owner[t]] = t] /\ UNCHANGED <<report, kernel, draining, timedOut>>
    BY <1>c DEF Register
  <2> QED
    BY <1>b, <1>c, <2>1, <2>2
<1>d. ASSUME Finish(t), phase[t] \in Inner PROVE Steps(t)
  <2>1. \A s \in Task : HookPending(s)' => HookPending(s) \/ s = t
    BY <1>0, <1>d DEF Finish, LeavesReport, HookPending
  <2> QED
    BY <1>d, <2>1 DEF Finish
<1>1. CASE Refuse(t) \/ AdmitToMcp(t)
  BY <1>1, <1>b DEF Refuse, AdmitToMcp, Arrives, hookVars
<1>2. CASE AdmitDirect(t) \/ McpConnected(t)
  BY <1>2, <1>c DEF AdmitDirect, McpConnected, Arrives
<1>3. CASE BlockerDone(t)
  BY <1>3, <1>a, <1>b DEF BlockerDone, Acquire
<1>4. CASE LockReady(t)
  BY <1>4, <1>a, <1>b DEF LockReady, hookVars
<1>5. CASE RestoreDone(t) \/ BuildDone(t)
  BY <1>5, <1>b DEF RestoreDone, BuildDone, hookVars
<1>6. CASE RunDone(t)
  <2>1. \A s \in Task : HookPending(s)' => HookPending(s) \/ s = t
    BY <1>0, <1>6 DEF RunDone, HookPending
  <2> QED
    BY <1>6, <2>1 DEF RunDone
<1>7. CASE SaveDone(t) \/ HandlerFails(t) \/ CancelInside(t)
  BY <1>7, <1>d DEF SaveDone, HandlerFails, CancelInside
<1>8. CASE CancelAcquire(t)
  BY <1>8, <1>b DEF CancelAcquire, Abort, hookVars
<1>9. CASE CancelBlocked(t)
  <2>1. \A s \in Task : HookPending(s)' => HookPending(s)
    BY <1>0, <1>9 DEF CancelBlocked, HookPending
  <2> QED
    BY <1>9, <2>1 DEF CancelBlocked, Abort
<1>10. CASE Hooks(t)
  <2>1. \A s \in Task : HookPending(s)' => HookPending(s)
    BY <1>0, <1>10 DEF Hooks, EmitAbandoned, Notify, HooksDone, HookPending
  <2> QED
    BY <1>10, <2>1 DEF Hooks, EmitAbandoned, Notify, HooksDone, taskVars
<1> QED
  BY <1>1, <1>2, <1>3, <1>4, <1>5, <1>6, <1>7, <1>8, <1>9, <1>10
     DEF TaskStep, Waits, Works, CancelDelivered

LEMMA ActiveStep == TypeOK /\ ActiveInv /\ [Next]_vars => ActiveInv'
<1> SUFFICES ASSUME TypeOK, ActiveInv, [Next]_vars PROVE ActiveInv'
  OBVIOUS
<1> USE LockAssumption, DispatchAssumption
<1>0. /\ phase \in [Task -> Phases] /\ active \in [User -> Task \cup {NoTask}]
      /\ draining \subseteq Task /\ timedOut \in BOOLEAN /\ kernel \in KernelStages
  BY DEF TypeOK
<1>1. ASSUME NEW t \in Task, TaskStep(t) PROVE ActiveInv'
  <2>0. Steps(t)
    BY <1>1, StepOfMessage
  <2>1. ActiveIsLive'
    BY <1>0, <2>0 DEF Steps, ActiveInv, ActiveIsLive, Handled, Inner, Arrives
  <2>2. SerialOne'
    BY <1>0, <2>0 DEF Steps, ActiveInv, SerialOne, Ended, Handled, Inner, Arrives, SameUser
  <2>3. SerialEntry'
    BY <1>0, <2>0 DEF Steps, ActiveInv, SerialOne, SerialEntry, Ended, Handled, Inner,
                      Arrives, SameUser
  <2>4. McpOnly'
    BY <1>0, <2>0 DEF Steps, ActiveInv, McpOnly, Handled, Inner
  <2>5. Drained'
    BY <1>0, <2>0 DEF Steps, ActiveInv, McpOnly, Drained, Answerable, Ended, Handled, Inner,
                      kernelVars
  <2> QED
    BY <2>1, <2>2, <2>3, <2>4, <2>5 DEF ActiveInv
<1>2. ASSUME NEW u \in User, Stop(u) PROVE ActiveInv'
  BY <1>2 DEF Stop, hookVars, kernelVars, ActiveInv, ActiveIsLive, SerialOne, SerialEntry,
              McpOnly, Drained, HookPending
<1>3. CASE Shutdown
  <2>1. UNCHANGED <<phase, active, report>>
    BY <1>3 DEF Shutdown, BeginShutdown, TurnsQuiet, TurnsDeadline, CancelledQuiet,
                CancelledDeadline, HooksQuiet, HooksDeadline, Unload, Proceed, hookVars
  <2>2. (ActiveIsLive /\ SerialOne /\ SerialEntry /\ McpOnly)'
    BY <2>1 DEF ActiveInv, ActiveIsLive, SerialOne, SerialEntry, McpOnly
  <2>3. ASSUME NEW t \in Task, Answerable(t), phase[t] \notin Ended
        PROVE  t \in Registered
    <3>1. phase[t] \in Handled
      BY <1>0, <2>3 DEF ActiveInv, McpOnly, Answerable, Ended, Handled, Inner, Phases
    <3> QED
      BY <2>3, <3>1 DEF ActiveInv, SerialEntry, Answerable, Registered
  <2>4. Drained'
    <3>1. CASE BeginShutdown
      BY <2>1, <3>1 DEF BeginShutdown, Proceed, Drained
    <3>2. CASE TurnsQuiet
      BY <2>1, <2>3, <3>2 DEF TurnsQuiet, Proceed, Drained, Answerable
    <3>3. CASE TurnsDeadline
      BY <2>1, <2>3, <3>3 DEF TurnsDeadline, Proceed, Drained, Answerable
    <3>4. CASE CancelledQuiet
      BY <2>1, <3>4 DEF CancelledQuiet, Proceed, ActiveInv, Drained, Answerable, Ended
    <3>5. CASE CancelledDeadline \/ HooksDeadline
      BY <2>1, <3>5 DEF CancelledDeadline, HooksDeadline, Proceed, Drained
    <3>6. CASE HooksQuiet
      BY <2>1, <3>6 DEF HooksQuiet, Proceed, ActiveInv, Drained, Answerable, HookPending
    <3>7. CASE Unload
      BY <2>1, <3>7 DEF Unload, Proceed, ActiveInv, Drained, Answerable, HookPending
    <3> QED
      BY <1>3, <3>1, <3>2, <3>3, <3>4, <3>5, <3>6, <3>7 DEF Shutdown
  <2> QED
    BY <2>2, <2>4 DEF ActiveInv
<1>4. CASE UNCHANGED vars
  BY <1>4 DEF vars, taskVars, hookVars, kernelVars, ActiveInv, ActiveIsLive, SerialOne,
              SerialEntry, McpOnly, Drained, HookPending
<1> QED
  BY <1>1, <1>2, <1>3, <1>4 DEF Next

(* What /stop and the drain of shutdown rely on: an entry of _active_turns *)
(* is a message being handled (kernel.py:332-370), for a user who sends    *)
(* one message at a time it is the running turn (README.md:32), and a      *)
(* shutdown that kept its bounds leaves nothing of such a user behind.     *)
THEOREM StopAndDrainReach == Spec => []ActiveTurnsServe
<1>1. Init => ActiveInv
  BY DEF Init, ActiveInv, ActiveIsLive, SerialOne, SerialEntry, McpOnly, Drained, Ended,
         Handled, Inner
<1>2. Spec => []ActiveInv
  BY <1>1, ActiveStep, Typing, PTL DEF Spec
<1>3. TypeOK /\ ReportInv /\ ActiveInv => ActiveTurnsServe
  <2> SUFFICES ASSUME TypeOK, ReportInv, ActiveInv PROVE ActiveTurnsServe
    OBVIOUS
  <2>1. \A t \in Inside : t \in Task /\ phase[t] \in Inner
    BY DEF Inside, ReportInv, PhasesAgree
  <2>2. SerialStopReachesTurn
    BY <2>1 DEF SerialStopReachesTurn, ActiveInv, SerialEntry, Handled
  <2>3. SerialShutdownLosesNothing
    BY <2>1 DEF SerialShutdownLosesNothing, DownCleanly, Lost, ActiveInv, Drained, Answerable,
                Ended, Inner
  <2> QED
    BY <2>2, <2>3 DEF ActiveTurnsServe, ActiveInv
<1> QED
  BY <1>2, <1>3, Typing, ReportInvariant, PTL

-----------------------------------------------------------------------------
(* SubagentDelivery.                                                       *)

(* The bound is checked against _running_tasks, so the proof has to know    *)
(* that every running subagent is in it and that it is itself bounded.     *)
LimitInv ==
    /\ registered \subseteq Sub /\ IsFiniteSet(registered)
    /\ work \in [Sub -> {"none", "running", "announced"}]
    /\ Working \subseteq registered
    /\ Cardinality(registered) <= MaxRunning

(* The initial states have no subagent. *)
LEMMA LimitInit == DeliveryInit => LimitInv
<1> SUFFICES ASSUME DeliveryInit PROVE LimitInv
  OBVIOUS
<1>1. registered = {} /\ Cardinality(registered) = 0 /\ IsFiniteSet(registered)
  BY FS_EmptySet DEF DeliveryInit
<1>2. Working = {}
  BY DEF DeliveryInit, Working
<1> QED
  BY <1>1, <1>2, DeliveryAssumption DEF DeliveryInit, LimitInv

(* A step of the system keeps the bound: a spawn checks it, and the done   *)
(* callback comes after the subagent has ended.                            *)
LEMMA LimitStep == LimitInv /\ [DeliveryNext]_deliveryVars => LimitInv'
<1> SUFFICES ASSUME LimitInv, [DeliveryNext]_deliveryVars PROVE LimitInv'
  OBVIOUS
<1> USE DEF LimitInv
<1>same. ASSUME UNCHANGED subVars PROVE LimitInv'
  BY <1>same DEF subVars, Working
<1>1. ASSUME NEW t \in Turn, Enter(t) \/ Build(t) \/ Drain(t) \/ End(t) PROVE LimitInv'
  BY <1>1, <1>same DEF Enter, Build, Drain, End
<1>2. ASSUME NEW t \in Turn, NEW s \in Sub, Spawn(t, s) PROVE LimitInv'
  <2>1. IsFiniteSet(registered') /\ registered' \subseteq Sub
    BY <1>2, FS_AddElement DEF Spawn
  <2>2. Cardinality(registered') <= Cardinality(registered) + 1
    <3>1. Cardinality(registered) \in Nat
      BY FS_CardinalityType
    <3>2. Cardinality(registered \cup {s}) \in {Cardinality(registered), Cardinality(registered) + 1}
      BY FS_AddElement
    <3> QED
      BY <3>1, <3>2, <1>2 DEF Spawn
  <2>3. Cardinality(registered') <= MaxRunning
    BY <1>2, <2>1, <2>2, FS_CardinalityType, DeliveryAssumption DEF Spawn
  <2>4. Working' \subseteq registered'
    BY <1>2 DEF Spawn, Working
  <2>5. work' \in [Sub -> {"none", "running", "announced"}]
    BY <1>2 DEF Spawn
  <2> QED
    BY <2>1, <2>3, <2>4, <2>5
<1>3. ASSUME NEW s \in Sub, Announce(s) PROVE LimitInv'
  BY <1>3 DEF Announce, Working
<1>4. ASSUME NEW s \in Sub, Cleanup(s) PROVE LimitInv'
  <2>1. IsFiniteSet(registered') /\ Cardinality(registered') <= Cardinality(registered)
    BY <1>4, FS_Subset DEF Cleanup
  <2>2. Cardinality(registered') <= MaxRunning
    BY <2>1, FS_CardinalityType, DeliveryAssumption
  <2>3. Working' \subseteq registered'
    BY <1>4 DEF Cleanup, Working
  <2> QED
    BY <1>4, <2>1, <2>2, <2>3 DEF Cleanup
<1>5. CASE UNCHANGED deliveryVars
  BY <1>5, <1>same DEF deliveryVars
<1> QED
  BY <1>1, <1>2, <1>3, <1>4, <1>5 DEF DeliveryNext

(* The bound on _running_tasks bounds the subagents that run. *)
LEMMA LimitImplied == LimitInv => LimitRespected
<1> SUFFICES ASSUME LimitInv PROVE LimitRespected
  OBVIOUS
<1>1. IsFiniteSet(Working) /\ Cardinality(Working) <= Cardinality(registered)
  BY FS_Subset DEF LimitInv
<1> QED
  BY <1>1, FS_CardinalityType, DeliveryAssumption DEF LimitInv, LimitRespected

(* spawn never lets more than max_concurrent_subagents run, whichever turns *)
(* and parallel tool calls reach it.                                       *)
THEOREM LimitHolds == DeliverySpec => []LimitRespected
<1>1. DeliverySpec => []LimitInv
  BY LimitInit, LimitStep, PTL DEF DeliverySpec
<1> QED
  BY <1>1, LimitImplied, PTL
-----------------------------------------------------------------------------
(* Types, with what they rest on: an origin is set before anything uses it, *)
(* a trigger exists once its result does, and a turn in dispatch is in line. *)
InLine(t) == \E i \in 1 .. Len(line) : line[i] = t

Types ==
    /\ DeliveryTypeOK
    /\ \A s \in Sub : work[s] # "none" => origin[s] \in Session
    /\ \A s \in Sub : state[s] # "idle" => work[s] = "announced"
    /\ \A t \in Turn : state[t] = "waiting" => InLine(t)

LEMMA SessionOfTurn ==
    ASSUME Types, NEW t \in Turn, state[t] # "idle"
    PROVE  TurnSession(t) \in Session
  BY DeliveryAssumption DEF Types, TurnSession, Turn

LEMMA Concatenated ==
    ASSUME NEW S, NEW a \in Seq(S), NEW b \in Seq(S)
    PROVE  /\ a \o b \in Seq(S) /\ Len(a \o b) = Len(a) + Len(b)
           /\ Len(a) \in Nat /\ Len(b) \in Nat
           /\ \A i \in 1 .. Len(a) : (a \o b)[i] = a[i]
           /\ \A i \in 1 .. Len(b) : (a \o b)[Len(a) + i] = b[i]
  OBVIOUS

LEMMA RemovedAt ==
    ASSUME NEW S, NEW seq \in Seq(S), NEW i \in 1 .. Len(seq)
    PROVE  /\ RemoveAt(seq, i) \in Seq(S)
           /\ \A k \in 1 .. Len(seq) : k # i =>
                 \E m \in 1 .. Len(RemoveAt(seq, i)) : RemoveAt(seq, i)[m] = seq[k]
<1> DEFINE before == SubSeq(seq, 1, i - 1)
           after  == SubSeq(seq, i + 1, Len(seq))
<1>1. /\ before \in Seq(S) /\ Len(before) = i - 1
      /\ after \in Seq(S) /\ Len(after) = Len(seq) - i
      /\ \A k \in 1 .. i - 1 : before[k] = seq[k]
      /\ \A k \in 1 .. Len(seq) - i : after[k] = seq[i + k]
  OBVIOUS
<1> HIDE DEF before, after
<1>2. /\ before \o after \in Seq(S) /\ Len(before \o after) = Len(seq) - 1
      /\ \A k \in 1 .. i - 1 : (before \o after)[k] = seq[k]
      /\ \A k \in 1 .. Len(seq) - i : (before \o after)[i - 1 + k] = seq[i + k]
  <2>1. /\ before \o after \in Seq(S) /\ Len(before \o after) = Len(before) + Len(after)
        /\ \A k \in 1 .. Len(before) : (before \o after)[k] = before[k]
        /\ \A k \in 1 .. Len(after) : (before \o after)[Len(before) + k] = after[k]
    <3>1. before \in Seq(S) /\ after \in Seq(S)
      BY <1>1
    <3>2. \A a, b \in Seq(S) :
             /\ a \o b \in Seq(S) /\ Len(a \o b) = Len(a) + Len(b)
             /\ \A k \in 1 .. Len(a) : (a \o b)[k] = a[k]
             /\ \A k \in 1 .. Len(b) : (a \o b)[Len(a) + k] = b[k]
      BY Concatenated
    <3> QED
      BY <3>1, <3>2, Zenon
  <2>2. Len(seq) \in Nat
    OBVIOUS
  <2>3. Len(before) + Len(after) = Len(seq) - 1
    BY <1>1, <2>2
  <2>4. ASSUME NEW k \in 1 .. i - 1 PROVE (before \o after)[k] = seq[k]
    BY <1>1, <2>1
  <2>5. ASSUME NEW k \in 1 .. Len(seq) - i PROVE (before \o after)[i - 1 + k] = seq[i + k]
    BY <1>1, <2>1
  <2> QED
    BY <2>1, <2>3, <2>4, <2>5
<1>3. RemoveAt(seq, i) = before \o after
  BY DEF RemoveAt, before, after
<1>4. ASSUME NEW k \in 1 .. Len(seq), k # i
      PROVE  \E m \in 1 .. Len(before \o after) : (before \o after)[m] = seq[k]
  <2>1. CASE k < i
    <3>1. k \in 1 .. i - 1 /\ k \in 1 .. Len(before \o after)
      BY <1>2, <2>1
    <3> QED
      BY <1>2, <3>1
  <2>2. CASE k > i
    <3>1. k - 1 \in 1 .. Len(before \o after) /\ k - i \in 1 .. Len(seq) - i
      BY <1>2, <2>2
    <3>2. i - 1 + (k - i) = k - 1 /\ i + (k - i) = k
      OBVIOUS
    <3> QED
      BY <1>2, <3>1, <3>2
  <2> QED
    BY <1>4, <2>1, <2>2
<1> QED
  BY <1>2, <1>3, <1>4

LEMMA TypesStep == Types /\ [DeliveryNext]_deliveryVars => Types'
<1> SUFFICES ASSUME Types, [DeliveryNext]_deliveryVars PROVE Types'
  OBVIOUS
<1> USE DeliveryAssumption
<1>0. /\ state \in [Turn -> {"idle", "created", "waiting", "running", "done", "cancelled"}]
      /\ line \in Seq(Turn) /\ pendq \in Turn \cup {NoTurn} /\ blank \in [Turn -> 0 .. QueueRoom]
      /\ work \in [Sub -> {"none", "running", "announced"}] /\ registered \subseteq Sub
      /\ origin \in [Sub -> Session \cup {NoSession}]
      /\ results \in Seq(Sub) /\ history \in [Session -> Seq(Sub)]
      /\ Sub \subseteq Turn /\ Message \subseteq Turn
  BY DEF Types, DeliveryTypeOK, Turn
<1>1. ASSUME NEW t \in Turn, Enter(t) PROVE Types'
  <2>1. /\ line' \in Seq(Turn) /\ Len(line') = Len(line) + 1 /\ line'[Len(line) + 1] = t
        /\ \A i \in 1 .. Len(line) : line'[i] = line[i]
    BY <1>0, <1>1 DEF Enter
  <2>2. DeliveryTypeOK'
    BY <1>0, <1>1, <2>1 DEF Enter, DeliveryTypeOK, subVars
  <2>3. \A x \in Turn : state'[x] = "waiting" => InLine(x)'
    <3>1. Len(line) \in Nat
      BY <1>0
    <3> QED
      BY <1>0, <1>1, <2>1, <3>1 DEF Enter, Types, InLine
  <2>4. t \in Sub => state[t] = "created"
    BY <1>1 DEF Enter
  <2> QED
    BY <1>0, <1>1, <2>2, <2>3, <2>4 DEF Enter, Types, subVars
<1>2. ASSUME NEW t \in Turn, Build(t) PROVE Types'
  <2>1. TurnSession(t) \in Session
    BY <1>2, SessionOfTurn DEF Build
  <2>2. history' \in [Session -> Seq(Sub)]
    BY <1>0, <1>2, <2>1 DEF Build
  <2> QED
    BY <1>0, <1>2, <2>2 DEF Build, Types, DeliveryTypeOK, subVars, InLine
<1>3. ASSUME NEW t \in Turn, Drain(t) PROVE Types'
  BY <1>0, <1>3 DEF Drain, Types, DeliveryTypeOK, subVars, InLine
<1>4. ASSUME NEW t \in Turn, End(t) PROVE Types'
  <2>1. PICK i \in 1 .. Len(line) : line[i] = t /\ line' = RemoveAt(line, i)
    BY <1>0, <1>4 DEF End, At
  <2>2. /\ line' \in Seq(Turn)
        /\ \A k \in 1 .. Len(line) : k # i => \E m \in 1 .. Len(line') : line'[m] = line[k]
    <3>1. line \in Seq(Turn)
      BY <1>0
    <3>2. /\ RemoveAt(line, i) \in Seq(Turn)
          /\ \A k \in 1 .. Len(line) : k # i =>
                \E m \in 1 .. Len(RemoveAt(line, i)) : RemoveAt(line, i)[m] = line[k]
      BY <3>1, RemovedAt, Zenon
    <3> QED
      BY <2>1, <3>2, Zenon
  <2>3. DeliveryTypeOK'
    BY <1>0, <1>4, <2>2 DEF End, DeliveryTypeOK, subVars
  <2>4. \A x \in Turn : state'[x] = "waiting" => InLine(x)'
    <3>1. state'[t] # "waiting" /\ \A x \in Turn : x # t => state'[x] = state[x]
      BY <1>0, <1>4 DEF End
    <3>2. ASSUME NEW x \in Turn, x # t, InLine(x) PROVE InLine(x)'
      BY <2>1, <2>2, <3>2 DEF InLine
    <3> QED
      BY <3>1, <3>2 DEF Types
  <2> QED
    BY <1>0, <1>4, <2>3, <2>4 DEF End, Types, subVars
<1>5. ASSUME NEW t \in Turn, NEW s \in Sub, Spawn(t, s) PROVE Types'
  <2>1. TurnSession(t) \in Session
    BY <1>5, SessionOfTurn DEF Spawn
  <2> QED
    BY <1>0, <1>5, <2>1 DEF Spawn, Types, DeliveryTypeOK, turnVars, InLine
<1>6. ASSUME NEW s \in Sub, Announce(s) PROVE Types'
  <2>1. results' \in Seq(Sub)
    BY <1>0, <1>6 DEF Announce
  <2>2. blank' \in [Turn -> 0 .. QueueRoom]
    <3>1. \/ blank' = blank
          \/ /\ pendq \in Turn /\ blank[pendq] < QueueRoom
             /\ blank' = [blank EXCEPT ![pendq] = blank[pendq] + 1]
      BY <1>0, <1>6 DEF Announce, Inject, Injectable
    <3>2. pendq \in Turn /\ blank[pendq] < QueueRoom => blank[pendq] + 1 \in 0 .. QueueRoom
      BY <1>0
    <3>3. CASE blank' = [blank EXCEPT ![pendq] = blank[pendq] + 1] /\ pendq \in Turn
                 /\ blank[pendq] + 1 \in 0 .. QueueRoom
      BY <1>0, <3>3
    <3> QED
      BY <1>0, <3>1, <3>2, <3>3
  <2>3. state' \in {state, [state EXCEPT ![s] = "created"]}
    BY <1>6 DEF Announce, Inject
  <2> QED
    <3>1. DeliveryTypeOK'
      BY <1>0, <1>6, <2>1, <2>2, <2>3 DEF Announce, Types, DeliveryTypeOK
    <3>2. line' = line /\ \A x \in Turn : state'[x] = "waiting" => state[x] = "waiting"
      BY <1>0, <1>6, <2>3 DEF Announce
    <3> QED
      BY <1>0, <1>6, <2>1, <2>2, <2>3, <3>1, <3>2 DEF Announce, Types, InLine
<1>7. ASSUME NEW s \in Sub, Cleanup(s) PROVE Types'
  BY <1>0, <1>7 DEF Cleanup, Types, DeliveryTypeOK, turnVars, InLine
<1>8. CASE UNCHANGED deliveryVars
  BY <1>8 DEF deliveryVars, turnVars, subVars, Types, DeliveryTypeOK, InLine
<1> QED
  BY <1>1, <1>2, <1>3, <1>4, <1>5, <1>6, <1>7, <1>8 DEF DeliveryNext

LEMMA TypesInvariant == DeliverySpec => []Types
<1>1. DeliveryInit => Types
  BY DeliveryAssumption DEF DeliveryInit, Types, DeliveryTypeOK, Turn
<1> QED
  BY <1>1, TypesStep, PTL DEF DeliverySpec

-----------------------------------------------------------------------------
(* What is announced is somewhere, and what is somewhere is announced and   *)
(* nowhere else.                                                            *)
Has(seq, x) == \E i \in 1 .. Len(seq) : seq[i] = x
InBuffer(s)     == Has(results, s)
InHistory(c, s) == Has(history[c], s)

Somewhere ==
    \A s \in Sub : work[s] = "announced" <=> (InBuffer(s) \/ \E c \in Session : InHistory(c, s))

Distinct(seq) == \A i, k \in 1 .. Len(seq) : seq[i] = seq[k] => i = k

NowhereElse ==
    /\ Distinct(results)
    /\ \A c \in Session : Distinct(history[c])
    /\ \A s \in Sub, c \in Session : InHistory(c, s) =>
          /\ ~InBuffer(s)
          /\ \A d \in Session : InHistory(d, s) => d = c

PlaceInv == Somewhere /\ NowhereElse

(* Joining two sequences, and joining two without a common element.        *)
LEMMA JoinedHas ==
    ASSUME NEW S, NEW a \in Seq(S), NEW b \in Seq(S), NEW x
    PROVE  Has(a \o b, x) <=> Has(a, x) \/ Has(b, x)
<1>1. /\ Len(a \o b) = Len(a) + Len(b) /\ Len(a) \in Nat /\ Len(b) \in Nat
      /\ \A i \in 1 .. Len(a) : (a \o b)[i] = a[i]
      /\ \A i \in 1 .. Len(b) : (a \o b)[Len(a) + i] = b[i]
  BY Concatenated
<1>2. \A i \in 1 .. Len(a \o b) :
         \/ i \in 1 .. Len(a) /\ (a \o b)[i] = a[i]
         \/ i - Len(a) \in 1 .. Len(b) /\ (a \o b)[i] = b[i - Len(a)]
  BY <1>1
<1>3. ASSUME NEW i \in 1 .. Len(b) PROVE Len(a) + i \in 1 .. Len(a \o b)
  BY <1>1
<1>4. ASSUME NEW i \in 1 .. Len(a) PROVE i \in 1 .. Len(a \o b)
  BY <1>1
<1> QED
  BY <1>1, <1>2, <1>3, <1>4 DEF Has

LEMMA Joined ==
    ASSUME NEW S, NEW a \in Seq(S), NEW b \in Seq(S), Distinct(a), Distinct(b),
           \A i \in 1 .. Len(a), k \in 1 .. Len(b) : a[i] # b[k]
    PROVE  Distinct(a \o b)
<1>1. /\ Len(a \o b) = Len(a) + Len(b) /\ Len(a) \in Nat /\ Len(b) \in Nat
      /\ \A i \in 1 .. Len(a) : (a \o b)[i] = a[i]
      /\ \A i \in 1 .. Len(b) : (a \o b)[Len(a) + i] = b[i]
  BY Concatenated
<1>2. \A i \in 1 .. Len(a \o b) :
         \/ i \in 1 .. Len(a) /\ (a \o b)[i] = a[i]
         \/ i - Len(a) \in 1 .. Len(b) /\ (a \o b)[i] = b[i - Len(a)]
  BY <1>1
<1> SUFFICES ASSUME NEW i \in 1 .. Len(a \o b), NEW k \in 1 .. Len(a \o b),
                    (a \o b)[i] = (a \o b)[k]
             PROVE  i = k
  BY DEF Distinct
<1> QED
  BY <1>1, <1>2 DEF Distinct

LEMMA PlaceStep == Types /\ PlaceInv /\ [DeliveryNext]_deliveryVars => PlaceInv'
<1> SUFFICES ASSUME Types, PlaceInv, [DeliveryNext]_deliveryVars PROVE PlaceInv'
  OBVIOUS
<1> USE DeliveryAssumption
<1>0. /\ work \in [Sub -> {"none", "running", "announced"}]
      /\ results \in Seq(Sub) /\ history \in [Session -> Seq(Sub)]
  BY DEF Types, DeliveryTypeOK
<1>same. ASSUME UNCHANGED <<results, history>>,
                \A s \in Sub : work'[s] = "announced" <=> work[s] = "announced"
         PROVE  PlaceInv'
  BY <1>same DEF PlaceInv, Somewhere, NowhereElse, Distinct, InBuffer, InHistory, Has
<1>1. ASSUME NEW t \in Turn, Enter(t) \/ Drain(t) \/ End(t) PROVE PlaceInv'
  BY <1>1, <1>same DEF Enter, Drain, End, subVars
<1>2. ASSUME NEW t \in Turn, NEW s \in Sub, Spawn(t, s) PROVE PlaceInv'
  BY <1>0, <1>2, <1>same DEF Spawn
<1>3. ASSUME NEW s \in Sub, Cleanup(s) PROVE PlaceInv'
  BY <1>3, <1>same DEF Cleanup
<1>4. CASE UNCHANGED deliveryVars
  BY <1>4, <1>same DEF deliveryVars, subVars
<1>5. ASSUME NEW t \in Turn, Build(t) PROVE PlaceInv'
  <2> DEFINE c == TurnSession(t)
  <2>1. c \in Session
    BY <1>5, SessionOfTurn DEF Build
  <2>2. /\ work' = work /\ results' = <<>>
        /\ \A d \in Session : history'[d] = IF d = c THEN history[c] \o results ELSE history[d]
    BY <1>0, <1>5, <2>1 DEF Build, subVars
  <2> HIDE DEF c
  <2>3. \A s \in Sub : ~InBuffer(s)'
    BY <2>2 DEF InBuffer, Has
  <2>4. ASSUME NEW s \in Sub, NEW d \in Session
        PROVE  InHistory(d, s)' <=> InHistory(d, s) \/ (d = c /\ InBuffer(s))
    <3>1. Has(history[c] \o results, s) <=> InHistory(c, s) \/ InBuffer(s)
      BY <1>0, <2>1, JoinedHas DEF InHistory, InBuffer
    <3>2. CASE d = c
      BY <2>2, <3>1, <3>2 DEF InHistory, Has
    <3>3. CASE d # c
      BY <2>2, <3>3 DEF InHistory, Has
    <3> QED
      BY <3>2, <3>3
  <2>5. Somewhere'
    BY <2>1, <2>2, <2>3, <2>4 DEF PlaceInv, Somewhere
  <2>6. ASSUME NEW d \in Session PROVE Distinct(history'[d])
    <3>1. \A i \in 1 .. Len(history[c]), k \in 1 .. Len(results) : history[c][i] # results[k]
      BY <1>0, <2>1 DEF PlaceInv, NowhereElse, InHistory, InBuffer, Has
    <3> QED
      BY <1>0, <2>1, <2>2, <3>1, Joined DEF PlaceInv, NowhereElse
  <2>7. Distinct(results')
    BY <2>2 DEF Distinct
  <2> QED
    BY <2>3, <2>4, <2>5, <2>6, <2>7 DEF PlaceInv, NowhereElse
<1>6. ASSUME NEW s \in Sub, Announce(s) PROVE PlaceInv'
  <2>1. /\ work[s] = "running" /\ work' = [work EXCEPT ![s] = "announced"]
        /\ results' = Append(results, s) /\ history' = history
    BY <1>6 DEF Announce
  <2>2. ~InBuffer(s) /\ \A c \in Session : ~InHistory(c, s)
    BY <2>1 DEF PlaceInv, Somewhere
  <2>3. /\ Len(results') = Len(results) + 1 /\ Len(results) \in Nat
        /\ results'[Len(results) + 1] = s
        /\ \A i \in 1 .. Len(results) : results'[i] = results[i]
    BY <1>0, <2>1
  <2>4. ASSUME NEW x PROVE InBuffer(x)' <=> InBuffer(x) \/ x = s
    BY <2>3 DEF InBuffer, Has
  <2>5. ASSUME NEW x, NEW c PROVE InHistory(c, x)' <=> InHistory(c, x)
    BY <2>1 DEF InHistory, Has
  <2>6. Somewhere'
    BY <1>0, <2>1, <2>4, <2>5 DEF PlaceInv, Somewhere
  <2>7. Distinct(results')
    BY <2>2, <2>3 DEF PlaceInv, NowhereElse, Distinct, InBuffer, Has
  <2> QED
    BY <2>1, <2>2, <2>4, <2>5, <2>6, <2>7 DEF PlaceInv, NowhereElse
<1> QED
  BY <1>1, <1>2, <1>3, <1>4, <1>5, <1>6 DEF DeliveryNext

(* In terms of places.                                                      *)
LEMMA PlacesOf ==
    ASSUME Types, NEW s, NEW p
    PROVE  p \in Places(s) <=>
              \/ \E i \in 1 .. Len(results) : p = <<NoSession, i>> /\ results[i] = s
              \/ \E c \in Session : \E i \in 1 .. Len(history[c]) : p = <<c, i>> /\ history[c][i] = s
<1>1. /\ results \in Seq(Sub) /\ history \in [Session -> Seq(Sub)] /\ NoSession \notin Session
  BY DeliveryAssumption DEF Types, DeliveryTypeOK
<1>2. /\ Box(NoSession) = results
      /\ \A c \in Session : Box(c) = history[c]
  BY <1>1 DEF Box
<1>3. p \in Places(s) <=> \E c \in Session \cup {NoSession} : p \in {c} \X At(s, Box(c))
  BY DEF Places
<1>4. \A seq \in Seq(Sub) : At(s, seq) = {i \in 1 .. Len(seq) : seq[i] = s}
  BY DEF At
<1>5. At(s, results) = {i \in 1 .. Len(results) : results[i] = s}
  BY <1>1, <1>4
<1>6. \A c \in Session : At(s, history[c]) = {i \in 1 .. Len(history[c]) : history[c][i] = s}
  BY <1>1, <1>4
<1>7. p \in Places(s) <=>
         \/ p \in {NoSession} \X At(s, results)
         \/ \E c \in Session : p \in {c} \X At(s, history[c])
  BY <1>2, <1>3
<1>8. p \in {NoSession} \X At(s, results) <=>
         \E i \in 1 .. Len(results) : p = <<NoSession, i>> /\ results[i] = s
  BY <1>5
<1>9. ASSUME NEW c \in Session
      PROVE  p \in {c} \X At(s, history[c]) <=>
                \E i \in 1 .. Len(history[c]) : p = <<c, i>> /\ history[c][i] = s
  BY <1>6
<1> QED
  BY <1>7, <1>8, <1>9, Zenon

LEMMA OnePlace == Types /\ PlaceInv => OnceInBufferOrHistory
<1> SUFFICES ASSUME Types, PlaceInv, NEW s \in Sub
             PROVE  Cardinality(Places(s)) = IF work[s] = "announced" THEN 1 ELSE 0
  BY DEF OnceInBufferOrHistory, Types, Has
<1>1. CASE work[s] # "announced"
  <2>1. ~InBuffer(s) /\ \A c \in Session : ~InHistory(c, s)
    BY <1>1 DEF PlaceInv, Somewhere
  <2>2. \A p : p \notin Places(s)
    BY <2>1, PlacesOf DEF InBuffer, InHistory, Has
  <2>3. Places(s) = {}
    BY <2>2
  <2> QED
    BY <1>1, <2>3, FS_EmptySet
<1>2. CASE work[s] = "announced"
  <2>1. CASE InBuffer(s)
    <3>1. PICK i \in 1 .. Len(results) : results[i] = s
      BY <2>1 DEF InBuffer, Has
    <3>2. \A c \in Session : ~InHistory(c, s)
      BY <2>1 DEF PlaceInv, NowhereElse
    <3>3. \A k \in 1 .. Len(results) : results[k] = s => k = i
      BY <3>1 DEF PlaceInv, NowhereElse, Distinct
    <3>4. \A p : p \in Places(s) <=> p = <<NoSession, i>>
      BY <3>1, <3>2, <3>3, PlacesOf DEF InHistory, Has
    <3>5. Places(s) = {<<NoSession, i>>}
      BY <3>4
    <3> QED
      BY <1>2, <3>5, FS_Singleton
  <2>2. CASE ~InBuffer(s)
    <3>1. PICK c \in Session : InHistory(c, s)
      BY <1>2, <2>2 DEF PlaceInv, Somewhere
    <3>2. PICK i \in 1 .. Len(history[c]) : history[c][i] = s
      BY <3>1 DEF InHistory, Has
    <3>3. /\ \A d \in Session : InHistory(d, s) => d = c
          /\ \A k \in 1 .. Len(history[c]) : history[c][k] = s => k = i
      BY <3>1, <3>2 DEF PlaceInv, NowhereElse, Distinct
    <3>4. \A p : p \in Places(s) <=> p = <<c, i>>
      BY <2>2, <3>2, <3>3, PlacesOf DEF InBuffer, InHistory, Has
    <3>5. Places(s) = {<<c, i>>}
      BY <3>4
    <3> QED
      BY <1>2, <3>5, FS_Singleton
  <2> QED
    BY <2>1, <2>2
<1> QED
  BY <1>1, <1>2

(* loop.py:1386: every announced result is in the user's buffer or in the   *)
(* messages of one session, and there once, whatever turns of whichever     *)
(* sessions take the buffer, are cancelled in the line or lose their queue. *)
THEOREM ResultsKeptOnce == DeliverySpec => []OnceInBufferOrHistory
<1>1. DeliveryInit => PlaceInv
  BY DEF DeliveryInit, PlaceInv, Somewhere, NowhereElse, Distinct, InBuffer, InHistory, Has
<1>2. DeliverySpec => []PlaceInv
  BY <1>1, PlaceStep, TypesInvariant, PTL DEF DeliverySpec
<1> QED
  BY <1>2, OnePlace, TypesInvariant, PTL
===============================================================================
