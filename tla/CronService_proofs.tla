-------------------------- MODULE CronService_proofs --------------------------
(***************************************************************************)
(* Proofs about CronService for any number of jobs, timer tasks, restarts   *)
(* and any failure of the writes: memory never holds a job the file lacks,  *)
(* and a removed job stays removed; the types; while no write fails         *)
(* something wakes in time for the earliest job; while calm, executions     *)
(* neither overlap nor repeat.                                              *)
(***************************************************************************)
EXTENDS CronService, WellFoundedInduction, TLAPS

(* Ids are given out in order, the file has at least the jobs of memory,    *)
(* and neither has a removed one.                                           *)
IInv ==
    /\ added \in Seq({"at", "every"})
    /\ DOMAIN store \subseteq DOMAIN disk
    /\ DOMAIN disk \subseteq 1 .. Len(added)
    /\ removed \subseteq 1 .. Len(added)
    /\ removed \cap DOMAIN disk = {}

LEMMA InitIInv == Init => IInv
  BY DEF Init, IInv, None

(* What the steps of the service do to the two sets of jobs.                *)
LEMMA SavedIsStored ==
    ASSUME NEW tk, NEW jobs, NEW run, SaveAndArm(tk, jobs, run)
    PROVE  disk' = jobs
  BY DEF SaveAndArm

LEMMA EndTickDisk ==
    ASSUME NEW t, NEW tk, NEW jobs, EndTick(t, tk, jobs)
    PROVE  disk' = jobs \/ disk' = disk
  BY SavedIsStored DEF EndTick

LEMMA WithoutDomain ==
    ASSUME NEW jobs, NEW j
    PROVE  DOMAIN Without(jobs, j) = DOMAIN jobs \ {j}
  BY DEF Without

LEMMA RecomputeDomain ==
    ASSUME NEW jobs PROVE DOMAIN RecomputeNextRuns(jobs) = DOMAIN jobs
  BY DEF RecomputeNextRuns

LEMMA LoadedDomain ==
    ASSUME IInv PROVE DOMAIN Loaded \subseteq DOMAIN disk
  BY DEF IInv, Loaded

LEMMA StartedDomain ==
    ASSUME IInv PROVE DOMAIN Started \subseteq DOMAIN disk
  BY LoadedDomain, RecomputeDomain DEF Started

LEMMA AfterRunDomain ==
    ASSUME NEW t, NEW j PROVE DOMAIN AfterRun(t, j) \subseteq DOMAIN store
  BY WithoutDomain DEF AfterRun

LEMMA AppendLonger ==
    ASSUME added \in Seq({"at", "every"}), NEW kind \in {"at", "every"}
    PROVE  /\ Append(added, kind) \in Seq({"at", "every"})
           /\ Len(Append(added, kind)) = Len(added) + 1
           /\ Len(added) \in Nat
  OBVIOUS

LEMMA StepIInv == IInv /\ [Next]_vars => IInv'
<1>1. ASSUME IInv, UNCHANGED <<store, disk, added, removed>> PROVE IInv'
  BY <1>1 DEF IInv
<1> SUFFICES ASSUME IInv, [Next]_vars PROVE IInv'
  OBVIOUS
<1>2. CASE UNCHANGED vars
  BY <1>1, <1>2 DEF vars
<1>3. ASSUME NEW who, NEW kind \in {"at", "every"}, AddJob(who, kind) PROVE IInv'
  <2> DEFINE j    == Len(added) + 1
             base == Started
             jobs == [i \in DOMAIN base \cup {j} |-> IF i = j THEN NewJob(kind) ELSE base[i]]
  <2>1. store' = jobs /\ added' = Append(added, kind) /\ removed' = removed
    BY <1>3 DEF AddJob
  <2>2. disk' = jobs
    BY <1>3, SavedIsStored DEF AddJob
  <2>3. DOMAIN base \subseteq DOMAIN disk
    BY StartedDomain
  <2>4. DOMAIN jobs = DOMAIN base \cup {j}
    OBVIOUS
  <2> HIDE DEF base, jobs
  <2>5. Len(added') = Len(added) + 1 /\ Len(added) \in Nat /\ added' \in Seq({"at", "every"})
    BY <2>1, AppendLonger DEF IInv
  <2>6. removed \cap DOMAIN disk = {} /\ removed \subseteq 1 .. Len(added)
        /\ DOMAIN disk \subseteq 1 .. Len(added)
    BY DEF IInv
  <2>7. j \notin removed
    BY <2>5, <2>6
  <2>8. removed \cap DOMAIN jobs = {}
    BY <2>3, <2>4, <2>6, <2>7
  <2>9. DOMAIN jobs \subseteq 1 .. Len(added')
    BY <2>3, <2>4, <2>5, <2>6
  <2>10. removed \subseteq 1 .. Len(added')
    BY <2>5, <2>6
  <2>11. QED
    BY <2>1, <2>2, <2>5, <2>8, <2>9, <2>10 DEF IInv
<1>4. ASSUME NEW who, NEW j, RemoveJob(who, j) PROVE IInv'
  <2>1. store' = Without(Loaded, j) /\ removed' = removed \cup {j} /\ added' = added
        /\ j \in DOMAIN Loaded
    BY <1>4 DEF RemoveJob
  <2>2. disk' = Without(Loaded, j)
    BY <1>4, SavedIsStored DEF RemoveJob
  <2>3. QED
    BY <2>1, <2>2, LoadedDomain, WithoutDomain DEF IInv
<1>5. ASSUME NEW who, ListJobs(who) PROVE IInv'
  BY <1>5, LoadedDomain DEF ListJobs, IInv, history
<1>12. ASSUME NEW who, RefuseAdd(who) PROVE IInv'
  <2>1. store' = Started /\ UNCHANGED <<added, removed>>
    BY <1>12 DEF RefuseAdd
  <2>2. disk' = Started
    BY <1>12, SavedIsStored DEF RefuseAdd
  <2>3. QED
    BY <2>1, <2>2, StartedDomain DEF IInv
<1>6. ASSUME NEW t, Wake(t) PROVE IInv'
  <2>1. store' = Loaded /\ UNCHANGED history
    BY <1>6 DEF Wake
  <2>2. disk' = Loaded \/ disk' = disk
    BY <1>6, EndTickDisk DEF Wake
  <2>3. QED
    BY <2>1, <2>2, LoadedDomain DEF IInv, history
<1>7. ASSUME NEW t, Delivered(t) PROVE IInv'
  <2> DEFINE jobs == AfterRun(t, NextOf(tick[t].queue))
  <2>1. store' = jobs /\ UNCHANGED history
    BY <1>7 DEF Delivered
  <2>2. disk' = jobs \/ disk' = disk
    BY <1>7, EndTickDisk DEF Delivered
  <2>3. QED
    BY <2>1, <2>2, AfterRunDomain DEF IInv, history
<1>8. CASE Restart
  <2>1. UNCHANGED history
    BY <1>8 DEF Restart
  <2>2. \/ store' = RecomputeNextRuns(disk) /\ disk' = RecomputeNextRuns(disk)
        \/ store' = None /\ disk' = disk
    BY <1>8 DEF Restart
  <2>3. DOMAIN None = {}
    BY DEF None
  <2>4. QED
    BY <2>1, <2>2, <2>3, RecomputeDomain DEF IInv, history
<1>9. ASSUME NEW t, Connected(t) \/ TakeLock(t) \/ TurnEnds(t) \/ TurnCancelled(t)
                    \/ TickCancelled(t) \/ StopTurn(t)
      PROVE IInv'
  BY <1>1, <1>9 DEF Connected, TakeLock, TurnEnds, TurnCancelled, TickCancelled, StopTurn,
                    service, history
<1>10. CASE UserTurnBegins \/ UserTurnEnds \/ BeginShutdown \/ ServiceStops \/ Clock
  BY <1>1, <1>10 DEF UserTurnBegins, UserTurnEnds, BeginShutdown, ServiceStops, Clock, service,
                     history
<1>11. QED
  BY <1>2, <1>3, <1>4, <1>5, <1>6, <1>7, <1>8, <1>9, <1>10, <1>12 DEF Next

LEMMA Inductive == Spec => []IInv
<1>1. Init => IInv
  BY InitIInv
<1>2. QED
  BY <1>1, StepIInv, PTL DEF Spec

(* No accepted job is held by memory alone, whatever ticks are cancelled    *)
(* and whatever writes at the end of a tick fail.                           *)
THEOREM AcceptedIsStored == Spec => []NothingOnlyInMemory
<1>1. IInv => NothingOnlyInMemory
  BY DEF IInv, NothingOnlyInMemory
<1>2. QED
  BY <1>1, Inductive, PTL

(* A job the tool removed is never again in memory or in the file, whatever *)
(* ticks were executing with an older list.                                 *)
THEOREM RemovedForGood == Spec => []RemovedStaysRemoved
<1>1. IInv => RemovedStaysRemoved
  BY DEF IInv, RemovedStaysRemoved
<1>2. QED
  BY <1>1, Inductive, PTL

(* Both: what the tool answered to "add" and "remove" stands.               *)
THEOREM WordKept == Spec => []StoreKeepsWord
<1>1. NothingOnlyInMemory /\ RemovedStaysRemoved => StoreKeepsWord
  BY DEF StoreKeepsWord
<1>2. QED
  BY <1>1, AcceptedIsStored, RemovedForGood, PTL
-----------------------------------------------------------------------------
(* Every non-empty set of naturals has a least element, which is what makes *)
(* NextOf and NextWake well defined.                                        *)
LEMMA LeastNatural ==
    ASSUME NEW S \in SUBSET Nat, S # {}
    PROVE  \E x \in S : \A y \in S : x <= y
<1> DEFINE Below == OpToRel(<, Nat)
<1>1. IsWellFoundedOn(Below, Nat)
  BY NatLessThanWellFounded
<1>2. \A x, y \in Nat : y < x => <<y, x>> \in Below
  BY DEF OpToRel
<1> HIDE DEF Below
<1>3. PICK x \in S : \A y \in S : <<y, x>> \notin Below
  BY <1>1, WFMin, Zenon
<1>4. ASSUME NEW y \in S PROVE x <= y
  <2>1. x \in Nat /\ y \in Nat
    OBVIOUS
  <2>2. ~(y < x)
    BY <1>2, <1>3, <2>1, Zenon
  <2> QED
    BY <2>1, <2>2
<1> QED
  BY <1>4

LEMMA NextOfQueue ==
    ASSUME NEW q \in SUBSET Jobs, q # {}
    PROVE  NextOf(q) \in q
<1>1. \E x \in q : \A y \in q : x <= y
  BY LeastNatural DEF Jobs
<1> QED
  BY <1>1 DEF NextOf

LEMMA NextWakeInTime ==
    ASSUME NEW jobs, now \in Nat, \A j \in DOMAIN jobs : jobs[j].next \in Nat
    PROVE  /\ NextWake(jobs) \in Nat
           /\ \A j \in DOMAIN jobs : jobs[j].next # 0 =>
                 NextWake(jobs) <= (IF jobs[j].next < now THEN now ELSE jobs[j].next)
<1> DEFINE times == {jobs[j].next : j \in DOMAIN jobs} \ {0}
<1>1. times \subseteq Nat /\ MaxSleep \in Nat
  BY BoundsAssumption
<1>2. CASE times = {}
  BY <1>1, <1>2 DEF NextWake
<1>3. CASE times # {}
  <2> DEFINE first == CHOOSE x \in times : \A y \in times : x <= y
  <2>1. \E x \in times : \A y \in times : x <= y
    BY <1>1, <1>3, LeastNatural
  <2>2. first \in times /\ \A y \in times : first <= y
    BY <2>1
  <2>3. NextWake(jobs) = IF first <= now THEN now
                         ELSE IF first <= now + MaxSleep THEN first ELSE now + MaxSleep
    BY <1>3 DEF NextWake
  <2>4. \A j \in DOMAIN jobs : jobs[j].next # 0 => jobs[j].next \in times
    OBVIOUS
  <2> HIDE DEF first, times
  <2> QED
    BY <1>1, <2>2, <2>3, <2>4
<1> QED
  BY <1>2, <1>3

-----------------------------------------------------------------------------
(* The jobs of a store at time n, when the kinds given out are ids: a       *)
(* one-time job is scheduled at its time or not at all, and a recurring one *)
(* within its period.                                                       *)
Sound(m, n, ids) ==
    /\ DOMAIN m \subseteq 1 .. Len(ids)
    /\ \A j \in DOMAIN m :
          /\ m[j] \in Job
          /\ ids[j] = "at" => m[j].at # 0 /\ m[j].next \in {0, m[j].at}
          /\ ids[j] = "every" => m[j].at = 0 /\ m[j].next \in 1 .. n + Period

(* The record of a tick, and what a tick without an execution looks like.   *)
TickRec == [pc : {"none", "sleep", "connect", "wait", "run", "deliver"},
            wake : Nat, queue : SUBSET Jobs, fresh : BOOLEAN, cancel : BOOLEAN]
Runs(rec) == rec.pc \in {"connect", "wait", "run", "deliver"}
Quiet(rec) == rec.queue = {} /\ rec.fresh /\ ~rec.cancel

TicksSound(tk, n) ==
    /\ tk \in [Ticks -> TickRec]
    /\ \A t \in Ticks :
          /\ tk[t].queue \subseteq 1 .. n
          /\ Runs(tk[t]) => tk[t].queue # {}
          /\ ~Runs(tk[t]) => Quiet(tk[t])

ClockTypes ==
    /\ now \in 0 .. MaxNow /\ restarts \in 0 .. MaxRestarts
    /\ {hasFile, running, timerActive, closing} \subseteq BOOLEAN
    /\ added \in Seq({"at", "every"}) /\ Len(added) <= MaxJobs
    /\ removed \subseteq 1 .. Len(added)
    /\ ran \in [Jobs -> 0 .. 2]
    /\ worst \in Calm .. Failed

TickTypes ==
    /\ timer \in Ticks \cup {NoTick}
    /\ lock \in {Free, User} \cup Ticks
    /\ TicksSound(tick, Len(added))

StoreTypes == Sound(store, now, added) /\ Sound(disk, now, added)

Types == ClockTypes /\ TickTypes /\ StoreTypes

LEMMA AddedAreJobs ==
    ASSUME ClockTypes
    PROVE  Len(added) \in Nat /\ 1 .. Len(added) \subseteq Jobs
  BY BoundsAssumption DEF ClockTypes, Jobs

LEMMA SoundLater ==
    ASSUME NEW m, NEW n \in Nat, NEW k \in Nat, n <= k, NEW ids, Sound(m, n, ids)
    PROVE  Sound(m, k, ids)
  BY BoundsAssumption DEF Sound, Job

LEMMA SoundWithout ==
    ASSUME NEW m, NEW n, NEW ids, Sound(m, n, ids), NEW j
    PROVE  Sound(Without(m, j), n, ids)
  BY DEF Sound, Without

LEMMA SoundRecomputed ==
    ASSUME ClockTypes, NEW m, NEW n, Sound(m, n, added)
    PROVE  Sound(RecomputeNextRuns(m), now, added)
<1> DEFINE r == RecomputeNextRuns(m)
<1>1. DOMAIN r = DOMAIN m
  BY DEF RecomputeNextRuns
<1>2. ASSUME NEW j \in DOMAIN m
      PROVE  /\ r[j] \in Job
             /\ added[j] = "at" => r[j].at # 0 /\ r[j].next \in {0, r[j].at}
             /\ added[j] = "every" => r[j].at = 0 /\ r[j].next \in 1 .. now + Period
  <2>1. r[j] = [m[j] EXCEPT !.next = ComputeNextRun(m[j])]
    BY <1>2 DEF RecomputeNextRuns
  <2>2. m[j] \in Job /\ added[j] \in {"at", "every"}
    BY <1>2 DEF Sound, ClockTypes
  <2>3. ComputeNextRun(m[j]) \in Nat
    BY <2>2, BoundsAssumption DEF ComputeNextRun, Job, ClockTypes
  <2>4. r[j] \in Job /\ r[j].at = m[j].at /\ r[j].next = ComputeNextRun(m[j])
    BY <2>1, <2>2, <2>3 DEF Job
  <2>5. /\ added[j] = "at" => m[j].at # 0
        /\ added[j] = "every" => m[j].at = 0
    BY <1>2 DEF Sound
  <2> QED
    BY <2>2, <2>3, <2>4, <2>5, BoundsAssumption DEF ComputeNextRun, Job, ClockTypes
<1> QED
  BY <1>1, <1>2 DEF Sound

LEMMA SoundLoaded == ASSUME Types PROVE Sound(Loaded, now, added)
  BY DEF Types, StoreTypes, Loaded

LEMMA SoundStarted == ASSUME Types PROVE Sound(Started, now, added)
  BY SoundLoaded, SoundRecomputed DEF Started, Types

(* The store of AddJob. *)
LEMMA SoundAdded ==
    ASSUME ClockTypes, NEW base, Sound(base, now, added), NEW kind \in {"at", "every"}
    PROVE  LET j == Len(added) + 1
           IN  Sound([i \in DOMAIN base \cup {j} |-> IF i = j THEN NewJob(kind) ELSE base[i]],
                     now, Append(added, kind))
<1> DEFINE j    == Len(added) + 1
           jobs == [i \in DOMAIN base \cup {j} |-> IF i = j THEN NewJob(kind) ELSE base[i]]
           ids  == Append(added, kind)
<1>1. /\ Len(ids) = j /\ ids[j] = kind /\ Len(added) \in Nat
      /\ \A i \in 1 .. Len(added) : ids[i] = added[i]
  BY DEF ClockTypes
<1>2. /\ NewJob(kind) \in Job
      /\ kind = "at" => NewJob(kind).at # 0 /\ NewJob(kind).next = NewJob(kind).at
      /\ kind = "every" => NewJob(kind).at = 0 /\ NewJob(kind).next \in 1 .. now + Period
  BY BoundsAssumption DEF NewJob, Job, ClockTypes
<1>3. DOMAIN jobs = DOMAIN base \cup {j} /\ jobs[j] = NewJob(kind)
      /\ \A i \in DOMAIN base : i # j => jobs[i] = base[i]
  OBVIOUS
<1>4. DOMAIN base \subseteq 1 .. Len(added)
  BY DEF Sound
<1> HIDE DEF jobs, ids
<1>5. ASSUME NEW i \in DOMAIN jobs
      PROVE  /\ jobs[i] \in Job
             /\ ids[i] = "at" => jobs[i].at # 0 /\ jobs[i].next \in {0, jobs[i].at}
             /\ ids[i] = "every" => jobs[i].at = 0 /\ jobs[i].next \in 1 .. now + Period
  <2>1. CASE i = j
    BY <1>1, <1>2, <1>3, <2>1
  <2>2. CASE i # j
    <3>1. i \in DOMAIN base /\ ids[i] = added[i] /\ jobs[i] = base[i]
      BY <1>1, <1>3, <1>4, <1>5, <2>2
    <3> QED
      BY <3>1 DEF Sound
  <2> QED
    BY <2>1, <2>2
<1>6. DOMAIN jobs \subseteq 1 .. Len(ids)
  BY <1>1, <1>3, <1>4
<1>7. Sound(jobs, now, ids)
  BY <1>5, <1>6 DEF Sound
<1> QED
  BY <1>7 DEF jobs, ids

LEMMA SoundAfterRun ==
    ASSUME Types, NEW t, NEW j \in 1 .. Len(added)
    PROVE  Sound(AfterRun(t, j), now, added)
<1>1. CASE added[j] = "at"
  BY <1>1, SoundWithout DEF AfterRun, Types, StoreTypes
<1>2. CASE added[j] # "at" /\ tick[t].fresh /\ j \in DOMAIN store
  <2>1. AfterRun(t, j) = [store EXCEPT ![j].next = now + Period]
    BY <1>2 DEF AfterRun
  <2>2. added[j] = "every" /\ now + Period \in 1 .. now + Period
    BY <1>2, BoundsAssumption DEF Types, ClockTypes
  <2>3. Sound(store, now, added)
    BY DEF Types, StoreTypes
  <2> QED
    BY <1>2, <2>1, <2>2, <2>3 DEF Sound, Job
<1>3. CASE added[j] # "at" /\ ~(tick[t].fresh /\ j \in DOMAIN store)
  BY <1>3 DEF AfterRun, Types, StoreTypes
<1> QED
  BY <1>1, <1>2, <1>3

-----------------------------------------------------------------------------
(* What happens to the ticks.                                               *)
Sleeper(jobs) == [Idle EXCEPT !.pc = "sleep", !.wake = NextWake(jobs)]

LEMMA IdleIsQuiet == Idle \in TickRec /\ ~Runs(Idle) /\ Quiet(Idle) /\ Idle.pc = "none"
  BY DEF Idle, TickRec, Runs, Quiet

LEMMA SleeperIsQuiet ==
    ASSUME now \in Nat, NEW jobs, \A j \in DOMAIN jobs : jobs[j].next \in Nat
    PROVE  /\ Sleeper(jobs) \in TickRec /\ ~Runs(Sleeper(jobs)) /\ Quiet(Sleeper(jobs))
           /\ Sleeper(jobs).pc = "sleep" /\ Sleeper(jobs).wake = NextWake(jobs)
  BY NextWakeInTime DEF Sleeper, Idle, TickRec, Runs, Quiet

LEMMA IdleTick ==
    ASSUME NEW n, NEW tk, TicksSound(tk, n), NEW t \in Ticks
    PROVE  TicksSound([tk EXCEPT ![t] = Idle], n)
  BY IdleIsQuiet DEF TicksSound, Quiet

LEMMA CancelledTicks ==
    ASSUME NEW n, NEW tk, TicksSound(tk, n), NEW x \in Ticks \cup {NoTick}
    PROVE  LET c == Cancel(tk, x)
           IN  /\ TicksSound(c, n)
               /\ \A t \in Ticks : t # x => c[t] = tk[t]
               /\ \A t \in Ticks : t = x =>
                     \/ tk[t].pc = "none" /\ c[t] = tk[t]
                     \/ tk[t].pc = "sleep" /\ c[t] = Idle
                     \/ Runs(tk[t]) /\ c[t] = [tk[t] EXCEPT !.cancel = TRUE]
<1> USE NamesAssumption
<1>1. CASE x = NoTick
  BY <1>1 DEF Cancel
<1>2. CASE x \in Ticks /\ tk[x].pc = "none"
  BY <1>2 DEF Cancel
<1>3. CASE x \in Ticks /\ tk[x].pc = "sleep"
  <2>1. Cancel(tk, x) = [tk EXCEPT ![x] = Idle]
    BY <1>3 DEF Cancel
  <2> QED
    <3>1. TicksSound([tk EXCEPT ![x] = Idle], n) /\ tk \in [Ticks -> TickRec]
      BY <1>3, IdleTick DEF TicksSound
    <3> QED
      BY <1>3, <2>1, <3>1
<1>4. CASE x \in Ticks /\ Runs(tk[x])
  <2>1. Cancel(tk, x) = [tk EXCEPT ![x].cancel = TRUE]
    BY <1>4 DEF Cancel, Runs
  <2>2. tk[x] \in TickRec
    BY <1>4 DEF TicksSound
  <2>3. /\ [tk[x] EXCEPT !.cancel = TRUE] \in TickRec
        /\ Runs([tk[x] EXCEPT !.cancel = TRUE])
        /\ [tk[x] EXCEPT !.cancel = TRUE].queue = tk[x].queue
    BY <1>4, <2>2 DEF TickRec, Runs
  <2> QED
    BY <1>4, <2>1, <2>3 DEF TicksSound
<1> QED
  BY <1>1, <1>2, <1>3, <1>4 DEF TicksSound, TickRec, Runs

LEMMA ReloadedTicks ==
    ASSUME NEW n, TicksSound(tick, n)
    PROVE  /\ TicksSound(Reloaded, n)
           /\ timerActive => Reloaded = tick
           /\ \A t \in Ticks : \/ Reloaded[t] = tick[t]
                               \/ Runs(tick[t]) /\ Reloaded[t] = [tick[t] EXCEPT !.fresh = FALSE]
<1>1. CASE timerActive
  <2>1. Reloaded = tick
    BY <1>1 DEF Reloaded
  <2> QED
    BY <1>1, <2>1
<1>2. CASE ~timerActive
  <2>1. Reloaded = [t \in Ticks |-> IF Executing(t) THEN [tick[t] EXCEPT !.fresh = FALSE]
                                                  ELSE tick[t]]
    BY <1>2 DEF Reloaded
  <2>2. ASSUME NEW t \in Ticks, Executing(t)
        PROVE  LET r == [tick[t] EXCEPT !.fresh = FALSE]
               IN  r \in TickRec /\ Runs(r) /\ r.queue = tick[t].queue
    BY <2>2 DEF TicksSound, TickRec, Runs, Executing
  <2>3. \A t \in Ticks : Executing(t) <=> Runs(tick[t])
    BY DEF Executing, Runs
  <2>4. tick \in [Ticks -> TickRec]
    BY DEF TicksSound
  <2>5. \A t \in Ticks : \/ Reloaded[t] = tick[t]
                         \/ Runs(tick[t]) /\ Reloaded[t] = [tick[t] EXCEPT !.fresh = FALSE]
    BY <2>1, <2>3
  <2>6. TicksSound(Reloaded, n)
    BY <2>1, <2>2, <2>3, <2>4 DEF TicksSound
  <2> QED
    BY <1>2, <2>5, <2>6
<1> QED
  BY <1>1, <1>2

(* After _arm_timer: the old timer is cancelled; the new one, if there is   *)
(* one, sleeps until the earliest job.                                      *)
Armed(tk, jobs, run) ==
    LET c == Cancel(tk, timer)
    IN  /\ run => /\ timer' \in Ticks /\ c[timer'].pc = "none"
                  /\ tick' = [c EXCEPT ![timer'] = Sleeper(jobs)]
        /\ ~run => timer' = timer /\ tick' = c

LEMMA Arming ==
    ASSUME NEW n, NEW tk, TicksSound(tk, n), timer \in Ticks \cup {NoTick}, now \in Nat,
           NEW jobs, \A j \in DOMAIN jobs : jobs[j].next \in Nat,
           NEW run, ArmTimer(tk, jobs, run)
    PROVE  Armed(tk, jobs, run) /\ TicksSound(tick', n) /\ timer' \in Ticks \cup {NoTick}
<1> DEFINE rest == Cancel(tk, timer)
           free == {t \in Ticks : rest[t].pc = "none"}
           new  == CHOOSE t \in free : \A u \in free : t <= u
<1>1. TicksSound(rest, n)
  BY CancelledTicks
<1>2. CASE ~run
  BY <1>1, <1>2 DEF ArmTimer, Armed
<1>3. CASE run
  <2>1. free # {} /\ timer' = new /\ tick' = [rest EXCEPT ![new] = Sleeper(jobs)]
    BY <1>3 DEF ArmTimer, Sleeper
  <2>2. \E t \in free : \A u \in free : t <= u
    <3>1. free \subseteq Nat /\ free # {}
      BY <2>1 DEF Ticks
    <3> QED
      BY <3>1, LeastNatural
  <2>3. new \in free
    BY <2>2
  <2> HIDE DEF new
  <2>4. TicksSound([rest EXCEPT ![new] = Sleeper(jobs)], n)
    BY <1>1, <2>3, SleeperIsQuiet DEF TicksSound, Quiet
  <2> QED
    BY <1>3, <2>1, <2>3, <2>4 DEF Armed
<1> QED
  BY <1>2, <1>3

NextIsNatural(jobs) == \A j \in DOMAIN jobs : jobs[j].next \in Nat

LEMMA SoundIsNatural ==
    ASSUME NEW m, NEW n, NEW ids, Sound(m, n, ids) PROVE NextIsNatural(m)
  BY DEF Sound, NextIsNatural, Job

(* After the end of _on_timer: saved and armed, or the write failed.        *)
Ended(t, tk, jobs) ==
    LET rest == [tk EXCEPT ![t] = Idle]
    IN  /\ timerActive' = FALSE
        /\ \/ /\ disk' = jobs /\ hasFile' = TRUE /\ worst' = worst
              /\ Armed(rest, jobs, running)
           \/ /\ disk' = disk /\ hasFile' = hasFile /\ worst' = Failed
              /\ tick' = rest /\ timer' = timer

LEMMA EndingTick ==
    ASSUME Types, NEW tk, TicksSound(tk, Len(added)), NEW t \in Ticks,
           NEW jobs, NextIsNatural(jobs), EndTick(t, tk, jobs)
    PROVE  /\ Ended(t, tk, jobs) /\ TicksSound(tick', Len(added))
           /\ timer' \in Ticks \cup {NoTick}
<1> DEFINE rest == [tk EXCEPT ![t] = Idle]
<1>1. TicksSound(rest, Len(added))
  BY IdleTick
<1>2. timerActive' = FALSE
  BY DEF EndTick
<1>3. CASE SaveAndArm(rest, jobs, running) /\ UNCHANGED worst
  <2>1. disk' = jobs /\ hasFile' = TRUE /\ ArmTimer(rest, jobs, running)
    BY <1>3 DEF SaveAndArm
  <2>2. now \in Nat /\ timer \in Ticks \cup {NoTick}
    BY DEF Types, ClockTypes, TickTypes
  <2>3. Armed(rest, jobs, running) /\ TicksSound(tick', Len(added)) /\ timer' \in Ticks \cup {NoTick}
    BY <1>1, <2>1, <2>2, Arming DEF NextIsNatural
  <2> QED
    BY <1>2, <1>3, <2>1, <2>3 DEF Ended
<1>4. CASE /\ tick' = rest /\ Worsen(Failed)
           /\ UNCHANGED <<disk, hasFile, timer>>
  <2>1. worst' = Failed
    BY <1>4 DEF Worsen, Types, ClockTypes, Calm, Failed
  <2> QED
    BY <1>1, <1>2, <1>4, <2>1 DEF Ended, Types, TickTypes
<1> QED
  BY <1>3, <1>4 DEF EndTick

LEMMA Worsening ==
    ASSUME Types, NEW d \in Calm .. Failed, Worsen(d)
    PROVE  worst' \in Calm .. Failed /\ worst' >= worst /\ worst' >= d
  BY DEF Worsen, Types, ClockTypes, Calm, Failed

LEMMA Changing ==
    ASSUME Types, ChangeJobs
    PROVE  /\ worst' \in Calm .. Failed /\ worst' >= worst
           /\ worst' < Changed => (worst < Changed /\ \A t \in Ticks : ~Runs(tick[t]))
<1>1. \A t \in Ticks : Executing(t) <=> Runs(tick[t])
  BY DEF Executing, Runs
<1>2. worst \in Calm .. Failed
  BY DEF Types, ClockTypes
<1>3. CASE \E t \in Ticks : Executing(t)
  <2>1. Worsen(Changed)
    BY <1>3 DEF ChangeJobs
  <2> QED
    BY <2>1, Worsening DEF Calm, Changed, Failed
<1>4. CASE ~\E t \in Ticks : Executing(t)
  BY <1>1, <1>2, <1>4 DEF ChangeJobs, Calm, Changed, Failed
<1> QED
  BY <1>3, <1>4

(* A change of the jobs by the tool: what its three forms have in common.   *)
JobsChanged(jobs, run) ==
    /\ store' = jobs /\ disk' = jobs /\ hasFile' = TRUE /\ running' = run
    /\ Armed(Reloaded, jobs, run)
    /\ ChangeJobs
    /\ UNCHANGED <<now, timerActive, lock, closing, restarts, ran>>

LEMMA ToolChanges ==
    ASSUME Types, NEW jobs, NextIsNatural(jobs), NEW run, SaveAndArm(Reloaded, jobs, run)
    PROVE  /\ disk' = jobs /\ hasFile' = TRUE /\ Armed(Reloaded, jobs, run)
           /\ TicksSound(tick', Len(added)) /\ timer' \in Ticks \cup {NoTick}
<1>1. disk' = jobs /\ hasFile' = TRUE /\ ArmTimer(Reloaded, jobs, run)
  BY DEF SaveAndArm
<1>2. now \in Nat /\ timer \in Ticks \cup {NoTick} /\ TicksSound(tick, Len(added))
  BY DEF Types, ClockTypes, TickTypes
<1>3. TicksSound(Reloaded, Len(added))
  BY <1>2, ReloadedTicks
<1> QED
  BY <1>1, <1>2, <1>3, Arming DEF NextIsNatural

LEMMA Adding ==
    ASSUME Types, NEW who, NEW kind \in {"at", "every"}, AddJob(who, kind)
    PROVE  LET j    == Len(added) + 1
               jobs == [i \in DOMAIN Started \cup {j} |-> IF i = j THEN NewJob(kind) ELSE Started[i]]
           IN  /\ JobsChanged(jobs, TRUE) /\ added' = Append(added, kind) /\ removed' = removed
               /\ j \in Jobs /\ Sound(jobs, now, added')
               /\ TicksSound(tick', Len(added)) /\ timer' \in Ticks \cup {NoTick}
<1> DEFINE j    == Len(added) + 1
           jobs == [i \in DOMAIN Started \cup {j} |-> IF i = j THEN NewJob(kind) ELSE Started[i]]
<1>1. /\ SaveAndArm(Reloaded, jobs, TRUE) /\ store' = jobs /\ added' = Append(added, kind)
      /\ removed' = removed /\ j \in Jobs /\ running' = TRUE /\ ChangeJobs
      /\ UNCHANGED <<now, timerActive, lock, closing, restarts, ran>>
  BY DEF AddJob
<1>2. Sound(jobs, now, added')
  BY <1>1, SoundStarted, SoundAdded DEF Types
<1>3. NextIsNatural(jobs)
  BY <1>2, SoundIsNatural
<1> HIDE DEF j, jobs
<1>4. /\ disk' = jobs /\ hasFile' = TRUE /\ Armed(Reloaded, jobs, TRUE)
      /\ TicksSound(tick', Len(added)) /\ timer' \in Ticks \cup {NoTick}
  BY <1>1, <1>3, ToolChanges
<1>5. JobsChanged(jobs, TRUE)
  BY <1>1, <1>4 DEF JobsChanged
<1> QED
  BY <1>1, <1>2, <1>4, <1>5 DEF j, jobs

LEMMA Refusing ==
    ASSUME Types, NEW who, RefuseAdd(who)
    PROVE  /\ ~running /\ JobsChanged(Started, TRUE) /\ UNCHANGED <<added, removed>>
           /\ Sound(Started, now, added)
           /\ TicksSound(tick', Len(added)) /\ timer' \in Ticks \cup {NoTick}
<1>1. Sound(Started, now, added) /\ NextIsNatural(Started)
  BY SoundStarted, SoundIsNatural
<1>2. /\ SaveAndArm(Reloaded, Started, TRUE) /\ store' = Started /\ running' = TRUE /\ ~running
      /\ ChangeJobs
      /\ UNCHANGED <<now, timerActive, lock, closing, restarts, ran, added, removed>>
  BY DEF RefuseAdd
<1> QED
  BY <1>1, <1>2, ToolChanges DEF JobsChanged

LEMMA Removing ==
    ASSUME Types, NEW who, NEW j, RemoveJob(who, j)
    PROVE  /\ JobsChanged(Without(Loaded, j), running) /\ added' = added
           /\ j \in DOMAIN Loaded /\ removed' = removed \cup {j}
           /\ Sound(Without(Loaded, j), now, added)
           /\ TicksSound(tick', Len(added)) /\ timer' \in Ticks \cup {NoTick}
<1>1. Sound(Without(Loaded, j), now, added) /\ NextIsNatural(Without(Loaded, j))
  BY SoundLoaded, SoundWithout, SoundIsNatural
<1>2. /\ SaveAndArm(Reloaded, Without(Loaded, j), running) /\ store' = Without(Loaded, j)
      /\ running' = running /\ ChangeJobs /\ j \in DOMAIN Loaded /\ removed' = removed \cup {j}
      /\ UNCHANGED <<now, timerActive, lock, closing, restarts, ran, added>>
  BY DEF RemoveJob
<1> QED
  BY <1>1, <1>2, ToolChanges DEF JobsChanged

DueOf(l) == {j \in DOMAIN l : l[j].next # 0 /\ now >= l[j].next}

LEMMA BegunIsOnDuty ==
    ASSUME NEW rec \in TickRec, NEW q \in SUBSET Jobs
    PROVE  LET b == Begin(rec, q)
           IN  /\ b \in TickRec /\ b.pc \in {"connect", "deliver"} /\ b.queue = q
               /\ b.fresh = rec.fresh /\ b.cancel = rec.cancel
<1> DEFINE b  == Begin(rec, q)
           pc == IF closing THEN "deliver" ELSE "connect"
<1>1. b = [rec EXCEPT !.pc = pc, !.wake = 0, !.queue = q]
  BY DEF Begin
<1>2. pc \in {"connect", "deliver"}
  OBVIOUS
<1> HIDE DEF b, pc
<1>3. /\ b \in TickRec /\ b.pc \in {"connect", "deliver"} /\ b.queue = q
      /\ b.fresh = rec.fresh /\ b.cancel = rec.cancel
  BY <1>1, <1>2 DEF TickRec
<1> QED
  BY <1>3 DEF b

LEMMA Beginning ==
    ASSUME NEW n \in Nat, NEW tk, TicksSound(tk, n), NEW t \in Ticks, 1 .. n \subseteq Jobs,
           NEW q, q \subseteq 1 .. n, q # {}
    PROVE  LET b == Begin(tk[t], q)
           IN  /\ b.pc \in {"connect", "deliver"} /\ b.queue = q
               /\ b.fresh = tk[t].fresh /\ b.cancel = tk[t].cancel
               /\ Runs(b) /\ TicksSound([tk EXCEPT ![t] = b], n)
<1> DEFINE b == Begin(tk[t], q)
<1>1. tk[t] \in TickRec /\ tk \in [Ticks -> TickRec]
  BY DEF TicksSound
<1>2. /\ b \in TickRec /\ b.pc \in {"connect", "deliver"} /\ b.queue = q
      /\ b.fresh = tk[t].fresh /\ b.cancel = tk[t].cancel
  BY <1>1, BegunIsOnDuty
<1>3. Runs(b)
  BY <1>2 DEF Runs
<1> HIDE DEF b
<1>4. TicksSound([tk EXCEPT ![t] = b], n)
  BY <1>1, <1>2, <1>3 DEF TicksSound
<1> QED
  BY <1>2, <1>3, <1>4 DEF b

LEMMA Waking ==
    ASSUME Types, NEW t \in Ticks, Wake(t)
    PROVE  /\ tick[t].pc = "sleep" /\ running /\ store' = Loaded
           /\ \/ Ended(t, Reloaded, Loaded)
              \/ /\ DueOf(Loaded) # {} /\ DueOf(Loaded) \subseteq 1 .. Len(added)
                 /\ timerActive' = TRUE
                 /\ tick' = [Reloaded EXCEPT ![t] = Begin(tick[t], DueOf(Loaded))]
                 /\ UNCHANGED <<disk, hasFile, timer, worst>>
           /\ UNCHANGED <<now, running, lock, closing, restarts, added, removed, ran>>
           /\ TicksSound(tick', Len(added)) /\ timer' \in Ticks \cup {NoTick}
<1>1. /\ tick[t].pc = "sleep" /\ running /\ store' = Loaded
      /\ UNCHANGED <<now, running, lock, closing, restarts, added, removed, ran>>
  BY DEF Wake, history
<1>2. /\ TicksSound(tick, Len(added)) /\ Len(added) \in Nat /\ 1 .. Len(added) \subseteq Jobs
      /\ timer \in Ticks \cup {NoTick}
  BY BoundsAssumption DEF Types, TickTypes, ClockTypes, Jobs
<1>3. TicksSound(Reloaded, Len(added)) /\ Reloaded[t] = tick[t]
  BY <1>1, <1>2, ReloadedTicks DEF Runs
<1>4. Sound(Loaded, now, added) /\ NextIsNatural(Loaded)
  BY SoundLoaded, SoundIsNatural
<1>5. CASE EndTick(t, Reloaded, Loaded)
  BY <1>1, <1>3, <1>4, <1>5, EndingTick
<1>6. CASE /\ DueOf(Loaded) # {} /\ timerActive' = TRUE
           /\ tick' = [Reloaded EXCEPT ![t] = Begin(tick[t], DueOf(Loaded))]
           /\ UNCHANGED <<disk, hasFile, timer, worst>>
  <2>1. DueOf(Loaded) \subseteq 1 .. Len(added)
    BY <1>4 DEF DueOf, Sound
  <2>2. TicksSound(tick', Len(added))
    BY <1>2, <1>3, <1>6, <2>1, Beginning
  <2> QED
    BY <1>1, <1>2, <1>6, <2>1, <2>2
<1> QED
  BY <1>5, <1>6 DEF Wake, DueOf

LEMMA Delivering ==
    ASSUME Types, NEW t \in Ticks, Delivered(t)
    PROVE  LET j    == NextOf(tick[t].queue)
               rest == tick[t].queue \ {j}
           IN  /\ tick[t].pc = "deliver" /\ ~tick[t].cancel
               /\ j \in tick[t].queue /\ j \in 1 .. Len(added)
               /\ store' = AfterRun(t, j) /\ Sound(store', now, added)
               /\ \/ rest = {} /\ Ended(t, tick, AfterRun(t, j))
                  \/ /\ rest # {} /\ tick' = [tick EXCEPT ![t] = Begin(tick[t], rest)]
                     /\ UNCHANGED <<disk, hasFile, timer, timerActive, worst>>
               /\ UNCHANGED <<now, running, lock, closing, restarts, added, removed, ran>>
               /\ TicksSound(tick', Len(added)) /\ timer' \in Ticks \cup {NoTick}
<1> DEFINE j    == NextOf(tick[t].queue)
           rest == tick[t].queue \ {j}
<1>1. /\ tick[t].pc = "deliver" /\ ~tick[t].cancel /\ store' = AfterRun(t, j)
      /\ UNCHANGED <<now, running, lock, closing, restarts, added, removed, ran>>
      /\ \/ rest = {} /\ EndTick(t, tick, AfterRun(t, j))
         \/ /\ rest # {} /\ tick' = [tick EXCEPT ![t] = Begin(tick[t], rest)]
            /\ UNCHANGED <<disk, hasFile, timer, timerActive, worst>>
  <2>1. tick' = [tick EXCEPT ![t] = Begin(@, rest)] <=> tick' = [tick EXCEPT ![t] = Begin(tick[t], rest)]
    BY DEF Types, TickTypes, TicksSound
  <2> QED
    BY <2>1 DEF Delivered, history
<1>2. /\ TicksSound(tick, Len(added)) /\ Len(added) \in Nat /\ 1 .. Len(added) \subseteq Jobs
      /\ timer \in Ticks \cup {NoTick}
  BY BoundsAssumption DEF Types, TickTypes, ClockTypes, Jobs
<1>3. j \in tick[t].queue /\ j \in 1 .. Len(added) /\ rest \subseteq 1 .. Len(added)
  <2>1. tick[t].queue # {} /\ tick[t].queue \subseteq 1 .. Len(added)
    BY <1>1, <1>2 DEF TicksSound, Runs
  <2>2. j \in tick[t].queue
    BY <1>2, <2>1, NextOfQueue
  <2> QED
    BY <2>1, <2>2
<1> HIDE DEF j, rest
<1>4. Sound(AfterRun(t, j), now, added) /\ NextIsNatural(AfterRun(t, j))
  BY <1>3, SoundAfterRun, SoundIsNatural
<1>5. CASE rest = {} /\ EndTick(t, tick, AfterRun(t, j))
  BY <1>1, <1>2, <1>3, <1>4, <1>5, EndingTick DEF j, rest
<1>6. CASE /\ rest # {} /\ tick' = [tick EXCEPT ![t] = Begin(tick[t], rest)]
           /\ UNCHANGED <<disk, hasFile, timer, timerActive, worst>>
  <2>1. TicksSound(tick', Len(added))
    BY <1>2, <1>3, <1>6, Beginning
  <2> QED
    BY <1>1, <1>2, <1>3, <1>4, <1>6, <2>1 DEF j, rest
<1> QED
  BY <1>1, <1>5, <1>6

(* The boot: the service starts when there is a file. *)
LEMMA Booting ==
    ASSUME Types, Restart
    PROVE  LET jobs == RecomputeNextRuns(disk)
           IN  /\ restarts' \in 0 .. MaxRestarts /\ closing' = FALSE /\ lock' = Free
               /\ timerActive' = FALSE /\ running' = hasFile
               /\ Sound(jobs, now, added) /\ NextIsNatural(jobs)
               /\ \/ /\ running' /\ store' = jobs /\ disk' = jobs /\ timer' = 1
                     /\ tick' = [t \in Ticks |-> IF t = 1 THEN Sleeper(jobs) ELSE Idle]
                  \/ /\ ~running' /\ store' = None /\ disk' = disk /\ timer' = NoTick
                     /\ tick' = [t \in Ticks |-> Idle]
               /\ UNCHANGED <<now, hasFile, added, removed, ran, worst>>
               /\ TicksSound(tick', Len(added)) /\ timer' \in Ticks \cup {NoTick}
<1> DEFINE jobs == RecomputeNextRuns(disk)
<1>1. Sound(jobs, now, added) /\ NextIsNatural(jobs) /\ now \in Nat
  BY SoundRecomputed, SoundIsNatural DEF Types, StoreTypes, ClockTypes
<1>2. /\ restarts' \in 0 .. MaxRestarts /\ closing' = FALSE /\ lock' = Free
      /\ timerActive' = FALSE /\ running' = hasFile
      /\ UNCHANGED <<now, hasFile, added, removed, ran, worst>>
  BY BoundsAssumption DEF Restart, history, Types, ClockTypes
<1>3. 1 \in Ticks
  BY BoundsAssumption DEF Ticks
<1>4. CASE hasFile
  <2>1. /\ store' = jobs /\ disk' = jobs /\ timer' = 1
        /\ tick' = [t \in Ticks |-> IF t = 1 THEN Sleeper(jobs) ELSE Idle]
    BY <1>3, <1>4 DEF Restart, Sleeper
  <2>2. TicksSound(tick', Len(added))
    BY <1>1, <2>1, IdleIsQuiet, SleeperIsQuiet DEF TicksSound, Quiet, NextIsNatural
  <2> QED
    BY <1>1, <1>2, <1>3, <1>4, <2>1, <2>2
<1>5. CASE ~hasFile
  <2>1. /\ store' = None /\ disk' = disk /\ timer' = NoTick
        /\ tick' = [t \in Ticks |-> Idle]
    BY <1>5 DEF Restart
  <2>2. TicksSound(tick', Len(added))
    BY <2>1, IdleIsQuiet DEF TicksSound, Quiet
  <2> QED
    BY <1>1, <1>2, <1>5, <2>1, <2>2
<1> QED
  BY <1>4, <1>5

(* A step inside the execution of tick t changes its record alone.          *)
LEMMA OneTickMoves ==
    ASSUME Types, NEW t \in Ticks, Runs(tick[t]), NEW rec, tick' = [tick EXCEPT ![t] = rec],
           rec \in TickRec, Runs(rec), rec.queue = tick[t].queue
    PROVE  TicksSound(tick', Len(added))
  BY DEF Types, TickTypes, TicksSound

(* The steps of a turn that executes a job. *)
InTurn(t) == Connected(t) \/ TakeLock(t) \/ TurnEnds(t) \/ TurnCancelled(t) \/ StopTurn(t)

LEMMA Executions ==
    ASSUME Types, NEW t \in Ticks, InTurn(t)
    PROVE  LET rec == tick'[t]
           IN  /\ Runs(tick[t]) /\ Runs(rec) /\ rec.queue = tick[t].queue
               /\ rec.fresh = tick[t].fresh
               /\ \A u \in Ticks : u # t => tick'[u] = tick[u]
               /\ UNCHANGED <<now, store, disk, hasFile, running, timer, timerActive, closing,
                              restarts, added, removed, worst>>
               /\ lock' \in {Free, lock, t}
               /\ TicksSound(tick', Len(added))
               /\ \/ tick[t].pc = "connect" /\ rec.pc = "wait" /\ ~rec.cancel /\ ran' = ran
                  \/ tick[t].pc = "wait" /\ rec.pc = "run" /\ ~rec.cancel /\ ran' = ran
                  \/ /\ tick[t].pc = "run" /\ rec.pc = "deliver" /\ ~rec.cancel
                     /\ LET j == NextOf(tick[t].queue)
                        IN  ran' = [ran EXCEPT ![j] = IF @ = 2 THEN 2 ELSE @ + 1]
                  \/ /\ tick[t].pc \in {"wait", "run"} /\ rec.pc = "deliver" /\ ~rec.cancel
                     /\ ran' = ran
                  \/ /\ tick[t].pc \in {"wait", "run"} /\ rec.pc = tick[t].pc /\ ran' = ran
<1>1. tick[t] \in TickRec /\ tick \in [Ticks -> TickRec]
  BY DEF Types, TickTypes, TicksSound
<1>2. CASE Connected(t) \/ TakeLock(t)
  <2> DEFINE rec == [tick[t] EXCEPT !.pc = IF Connected(t) THEN "wait" ELSE "run"]
  <2>1. tick' = [tick EXCEPT ![t] = rec]
    BY <1>2 DEF Connected, TakeLock
  <2>2. rec \in TickRec /\ Runs(rec) /\ rec.queue = tick[t].queue /\ Runs(tick[t])
    BY <1>1, <1>2 DEF TickRec, Runs, Connected, TakeLock
  <2>3. TicksSound(tick', Len(added))
    BY <2>1, <2>2, OneTickMoves
  <2> QED
    BY <1>1, <1>2, <2>1, <2>2, <2>3 DEF Connected, TakeLock, service, history, TickRec
<1>3. CASE TurnEnds(t)
  <2> DEFINE rec == [tick[t] EXCEPT !.pc = "deliver"]
  <2>1. tick' = [tick EXCEPT ![t] = rec]
    BY <1>3 DEF TurnEnds
  <2>2. rec \in TickRec /\ Runs(rec) /\ rec.queue = tick[t].queue /\ Runs(tick[t])
    BY <1>1, <1>3 DEF TickRec, Runs, TurnEnds
  <2>3. TicksSound(tick', Len(added))
    BY <2>1, <2>2, OneTickMoves
  <2> QED
    BY <1>1, <1>3, <2>1, <2>2, <2>3 DEF TurnEnds, service, TickRec
<1>4. CASE TurnCancelled(t)
  <2> DEFINE rec == [tick[t] EXCEPT !.pc = "deliver", !.cancel = FALSE]
  <2>1. tick' = [tick EXCEPT ![t] = rec]
    BY <1>4 DEF TurnCancelled
  <2>2. rec \in TickRec /\ Runs(rec) /\ rec.queue = tick[t].queue /\ Runs(tick[t])
    BY <1>1, <1>4 DEF TickRec, Runs, TurnCancelled
  <2>3. TicksSound(tick', Len(added))
    BY <2>1, <2>2, OneTickMoves
  <2> QED
    BY <1>1, <1>4, <2>1, <2>2, <2>3 DEF TurnCancelled, service, history, TickRec
<1>5. CASE StopTurn(t)
  <2> DEFINE rec == [tick[t] EXCEPT !.cancel = TRUE]
  <2>1. tick' = [tick EXCEPT ![t] = rec]
    BY <1>5 DEF StopTurn
  <2>2. rec \in TickRec /\ Runs(rec) /\ rec.queue = tick[t].queue /\ Runs(tick[t])
    BY <1>1, <1>5 DEF TickRec, Runs, StopTurn
  <2>3. TicksSound(tick', Len(added))
    BY <2>1, <2>2, OneTickMoves
  <2> QED
    BY <1>1, <1>5, <2>1, <2>2, <2>3 DEF StopTurn, service, history, TickRec
<1> QED
  BY <1>2, <1>3, <1>4, <1>5 DEF InTurn

-----------------------------------------------------------------------------
(* Type correctness.                                                        *)
UserSteps == UserTurnBegins \/ UserTurnEnds \/ BeginShutdown \/ Clock

LEMMA StepCases ==
    ASSUME [Next]_vars
    PROVE  \/ \E who \in {User} \cup Ticks, kind \in {"at", "every"} : AddJob(who, kind)
           \/ \E who \in {User} \cup Ticks, j \in Jobs : RemoveJob(who, j)
           \/ \E who \in {User} \cup Ticks : ListJobs(who)
           \/ \E who \in {User} \cup Ticks : RefuseAdd(who)
           \/ \E t \in Ticks : Wake(t)
           \/ \E t \in Ticks : InTurn(t)
           \/ \E t \in Ticks : Delivered(t)
           \/ \E t \in Ticks : TickCancelled(t)
           \/ ServiceStops \/ Restart \/ UserSteps \/ UNCHANGED vars
  BY DEF Next, InTurn, UserSteps

LEMMA TypesStep == Types /\ [Next]_vars => Types'
<1> SUFFICES ASSUME Types, [Next]_vars PROVE Types'
  OBVIOUS
<1> USE BoundsAssumption, NamesAssumption
<1>0. /\ ClockTypes /\ TickTypes /\ StoreTypes /\ TicksSound(tick, Len(added))
      /\ Len(added) \in Nat /\ now \in Nat /\ worst \in Calm .. Failed
  BY DEF Types, ClockTypes, TickTypes
<1>1. ASSUME NEW who, NEW kind \in {"at", "every"}, AddJob(who, kind) PROVE Types'
  <2> DEFINE j    == Len(added) + 1
             jobs == [i \in DOMAIN Started \cup {j} |-> IF i = j THEN NewJob(kind) ELSE Started[i]]
  <2>1. /\ JobsChanged(jobs, TRUE) /\ added' = Append(added, kind) /\ removed' = removed
        /\ j \in Jobs /\ Sound(jobs, now, added')
        /\ TicksSound(tick', Len(added)) /\ timer' \in Ticks \cup {NoTick}
    BY <1>1, Adding
  <2> HIDE DEF jobs
  <2>2. added' \in Seq({"at", "every"}) /\ Len(added') = j
    BY <2>1 DEF ClockTypes, Types
  <2>3. ClockTypes'
    BY <1>0, <2>1, <2>2, Changing DEF ClockTypes, JobsChanged, Jobs
  <2>4. TickTypes'
    BY <1>0, <2>1, <2>2 DEF TickTypes, TicksSound, JobsChanged
  <2>5. StoreTypes'
    BY <2>1 DEF StoreTypes, JobsChanged
  <2> QED
    BY <2>3, <2>4, <2>5 DEF Types
<1>2. ASSUME NEW who, RefuseAdd(who) PROVE Types'
  <2>1. /\ JobsChanged(Started, TRUE) /\ UNCHANGED <<added, removed>> /\ Sound(Started, now, added)
        /\ TicksSound(tick', Len(added)) /\ timer' \in Ticks \cup {NoTick}
    BY <1>2, Refusing
  <2> QED
    BY <1>0, <2>1, Changing DEF Types, ClockTypes, TickTypes, StoreTypes, JobsChanged
<1>3. ASSUME NEW who, NEW j, RemoveJob(who, j) PROVE Types'
  <2>1. /\ JobsChanged(Without(Loaded, j), running) /\ added' = added
        /\ j \in DOMAIN Loaded /\ removed' = removed \cup {j}
        /\ Sound(Without(Loaded, j), now, added)
        /\ TicksSound(tick', Len(added)) /\ timer' \in Ticks \cup {NoTick}
    BY <1>3, Removing
  <2>2. j \in 1 .. Len(added)
    BY <2>1, SoundLoaded DEF Sound
  <2> QED
    BY <1>0, <2>1, <2>2, Changing DEF Types, ClockTypes, TickTypes, StoreTypes, JobsChanged
<1>4. ASSUME NEW who, ListJobs(who) PROVE Types'
  <2>1. /\ store' = Loaded /\ tick' = Reloaded
        /\ UNCHANGED <<now, disk, hasFile, running, timer, timerActive, lock, closing,
                       restarts, added, removed, ran, worst>>
    BY <1>4 DEF ListJobs, history
  <2> QED
    BY <1>0, <2>1, SoundLoaded, ReloadedTicks DEF Types, ClockTypes, TickTypes, StoreTypes
<1>a. ASSUME NEW t, NEW tk, NEW jobs, Ended(t, tk, jobs), Sound(jobs, now, added), now' = now,
             added' = added
      PROVE  /\ Sound(disk', now', added') /\ worst' \in Calm .. Failed
             /\ hasFile' \in BOOLEAN /\ timerActive' \in BOOLEAN
  <2>1. /\ disk' \in {jobs, disk} /\ worst' \in {worst, Failed}
        /\ hasFile' \in {TRUE, hasFile} /\ timerActive' = FALSE
    BY <1>a DEF Ended
  <2>2. Sound(disk', now, added)
    BY <1>0, <1>a, <2>1 DEF StoreTypes
  <2>3. hasFile' \in BOOLEAN /\ timerActive' \in BOOLEAN
    BY <1>0, <2>1 DEF ClockTypes
  <2> QED
    BY <1>0, <1>a, <2>1, <2>2, <2>3 DEF Calm, Failed
<1>5. ASSUME NEW t \in Ticks, Wake(t) PROVE Types'
  <2>1. /\ store' = Loaded
        /\ \/ Ended(t, Reloaded, Loaded)
           \/ timerActive' = TRUE /\ UNCHANGED <<disk, hasFile, timer, worst>>
        /\ UNCHANGED <<now, running, lock, closing, restarts, added, removed, ran>>
        /\ TicksSound(tick', Len(added)) /\ timer' \in Ticks \cup {NoTick}
    BY <1>5, Waking
  <2>2. /\ Sound(disk', now', added') /\ worst' \in Calm .. Failed
        /\ hasFile' \in BOOLEAN /\ timerActive' \in BOOLEAN
    BY <1>0, <1>a, <2>1, SoundLoaded DEF ClockTypes, StoreTypes
  <2> QED
    BY <1>0, <2>1, <2>2, SoundLoaded DEF Types, ClockTypes, TickTypes, StoreTypes
<1>6. ASSUME NEW t \in Ticks, Delivered(t) PROVE Types'
  <2> DEFINE jobs == AfterRun(t, NextOf(tick[t].queue))
  <2>1. /\ store' = jobs /\ Sound(store', now, added)
        /\ \/ Ended(t, tick, jobs)
           \/ UNCHANGED <<disk, hasFile, timer, timerActive, worst>>
        /\ UNCHANGED <<now, running, lock, closing, restarts, added, removed, ran>>
        /\ TicksSound(tick', Len(added)) /\ timer' \in Ticks \cup {NoTick}
    BY <1>6, Delivering
  <2> HIDE DEF jobs
  <2>2. /\ Sound(disk', now', added') /\ worst' \in Calm .. Failed
        /\ hasFile' \in BOOLEAN /\ timerActive' \in BOOLEAN
    BY <1>0, <1>a, <2>1 DEF ClockTypes, StoreTypes
  <2> QED
    BY <1>0, <2>1, <2>2 DEF Types, ClockTypes, TickTypes, StoreTypes
<1>7. ASSUME NEW t \in Ticks, InTurn(t) PROVE Types'
  <2>1. /\ UNCHANGED <<now, store, disk, hasFile, running, timer, timerActive, closing,
                       restarts, added, removed, worst>>
        /\ lock' \in {Free, lock, t} /\ TicksSound(tick', Len(added))
    BY <1>7, Executions
  <2>2. ran' \in [Jobs -> 0 .. 2]
    BY <1>0, <1>7 DEF InTurn, Connected, TakeLock, TurnEnds, TurnCancelled, StopTurn, history,
                      ClockTypes
  <2> QED
    BY <1>0, <2>1, <2>2 DEF Types, ClockTypes, TickTypes, StoreTypes
<1>8. ASSUME NEW t \in Ticks, TickCancelled(t) PROVE Types'
  BY <1>0, <1>8, IdleTick DEF TickCancelled, history, Types, ClockTypes, TickTypes, StoreTypes
<1>9. CASE ServiceStops
  <2>1. TicksSound(tick', Len(added))
    BY <1>0, <1>9, CancelledTicks DEF ServiceStops, TickTypes
  <2> QED
    BY <1>0, <1>9, <2>1 DEF ServiceStops, history, Types, ClockTypes, TickTypes, StoreTypes
<1>10. CASE Restart
  <2> DEFINE jobs == RecomputeNextRuns(disk)
  <2>1. /\ restarts' \in 0 .. MaxRestarts /\ closing' = FALSE /\ lock' = Free
        /\ timerActive' = FALSE /\ running' = hasFile /\ Sound(jobs, now, added)
        /\ \/ store' = jobs /\ disk' = jobs
           \/ store' = None /\ disk' = disk
        /\ UNCHANGED <<now, hasFile, added, removed, ran, worst>>
        /\ TicksSound(tick', Len(added)) /\ timer' \in Ticks \cup {NoTick}
    BY <1>10, Booting
  <2>2. Sound(None, now, added)
    BY DEF None, Sound
  <2>3. Sound(store', now', added') /\ Sound(disk', now', added')
    BY <1>0, <2>1, <2>2 DEF StoreTypes
  <2> QED
    BY <1>0, <2>1, <2>3 DEF Types, ClockTypes, TickTypes, StoreTypes
<1>11. CASE Clock
  <2>1. Sound(store, now + 1, added) /\ Sound(disk, now + 1, added)
    BY <1>0, SoundLater DEF StoreTypes
  <2> QED
    BY <1>0, <1>11, <2>1 DEF Clock, service, history, Types, ClockTypes, TickTypes, StoreTypes
<1>12. CASE UserTurnBegins \/ UserTurnEnds \/ BeginShutdown
  BY <1>0, <1>12 DEF UserTurnBegins, UserTurnEnds, BeginShutdown, service, history, Types,
                     ClockTypes, TickTypes, StoreTypes
<1>13. CASE UNCHANGED vars
  BY <1>0, <1>13 DEF vars, Types, ClockTypes, TickTypes, StoreTypes
<1> QED
  BY <1>1, <1>2, <1>3, <1>4, <1>5, <1>6, <1>7, <1>8, <1>9, <1>10, <1>11, <1>12, <1>13, StepCases
     DEF UserSteps

LEMMA TypesInvariant == Spec => []Types
<1>1. Init => Types
  <2> SUFFICES ASSUME Init PROVE Types
    OBVIOUS
  <2>1. ClockTypes
    <3>1. /\ now = 0 /\ restarts = 0 /\ added = <<>> /\ removed = {}
          /\ ran = [j \in Jobs |-> 0] /\ worst = 0
          /\ hasFile = FALSE /\ running = FALSE /\ timerActive = FALSE /\ closing = FALSE
      BY DEF Init, Calm
    <3>2. {hasFile, running, timerActive, closing} \subseteq BOOLEAN
      BY <3>1
    <3> QED
      BY <3>1, <3>2, BoundsAssumption DEF ClockTypes, Calm, Failed
  <2>2. TickTypes
    BY IdleIsQuiet DEF Init, TickTypes, TicksSound, Quiet
  <2>3. StoreTypes
    BY DEF Init, StoreTypes, Sound, None
  <2> QED
    BY <2>1, <2>2, <2>3 DEF Types
<1> QED
  BY <1>1, TypesStep, PTL DEF Spec
-----------------------------------------------------------------------------
(* The invariant of the scheduler.  Only the timer sleeps.  While it or a   *)
(* tick that no cancellation will end is there, the earliest job is looked  *)
(* at in time: the sleeper knows the jobs of memory and of the file, because *)
(* a reload may put the one in the place of the other.                      *)
SleeperIsTimer == \A t \in Ticks : tick[t].pc = "sleep" => t = timer

InTime(rec, m, n) ==
    \A j \in DOMAIN m :
        m[j].next # 0 => rec.wake <= (IF m[j].next < n THEN n ELSE m[j].next)
OnDuty(rec) ==
    rec.pc \in {"wait", "run"} \/ (rec.pc \in {"connect", "deliver"} /\ ~rec.cancel)
Watches(rec) == rec.pc = "sleep" /\ InTime(rec, store, now) /\ InTime(rec, disk, now)
Covered ==
    running /\ worst < Failed => \E t \in Ticks : OnDuty(tick[t]) \/ Watches(tick[t])

(* While calm there is at most one execution, on a frozen store.  It is the *)
(* timer, or was it until the service stopped; so only the stop of the      *)
(* service can end it before it has saved.                                  *)
OneRuns ==
    /\ timerActive => \E t \in Ticks : Runs(tick[t])
    /\ \A t \in Ticks : Runs(tick[t]) =>
          /\ timerActive /\ tick[t].fresh
          /\ timer = t \/ (timer = NoTick /\ ~running)
          /\ \A u \in Ticks : Runs(tick[u]) => u = t
          /\ tick[t].pc \in {"connect", "deliver"} /\ tick[t].cancel => ~running

(* A one-time job that has run is past, and is scheduled no more: in the    *)
(* file that the next tick will load, or in the frozen store, unless it is  *)
(* the one whose result is being delivered.                                 *)
PastIn(m, j) == j \in DOMAIN m => m[j].at <= now
OffIn(m, j) == j \in DOMAIN m => m[j].next = 0
InDelivery(t, j) == tick[t].pc = "deliver" /\ j = NextOf(tick[t].queue)

RanIsOver ==
    /\ \A j \in Jobs : ran[j] # 0 => j \in 1 .. Len(added)
    /\ \A j \in OneTime : ran[j] # 0 =>
          /\ ran[j] = 1 /\ PastIn(store, j) /\ PastIn(disk, j)
          /\ running /\ ~timerActive => OffIn(disk, j)
          /\ timerActive => OffIn(store, j) \/ \E t \in Ticks : InDelivery(t, j)
    /\ \A t \in Ticks, j \in OneTime : Runs(tick[t]) /\ j \in tick[t].queue =>
          /\ PastIn(store, j) /\ PastIn(disk, j)
          /\ ran[j] # 0 => InDelivery(t, j)

CalmInv == worst < Changed => OneRuns /\ RanIsOver

WatchInv == SleeperIsTimer /\ Covered

LEMMA NoSleeperLeft ==
    ASSUME NEW n, NEW tk, TicksSound(tk, n), timer \in Ticks \cup {NoTick},
           \A t \in Ticks : tk[t].pc = "sleep" => t = timer
    PROVE  /\ \A t \in Ticks : Cancel(tk, timer)[t].pc # "sleep"
           /\ Cancel(tk, timer) \in [Ticks -> TickRec]
<1> DEFINE c == Cancel(tk, timer)
<1>1. TicksSound(c, n)
  BY CancelledTicks
<1>2. \A t \in Ticks : t # timer => c[t] = tk[t]
  BY CancelledTicks
<1>3. \A t \in Ticks : t = timer =>
          \/ tk[t].pc = "none" /\ c[t] = tk[t]
          \/ tk[t].pc = "sleep" /\ c[t] = Idle
          \/ Runs(tk[t]) /\ c[t] = [tk[t] EXCEPT !.cancel = TRUE]
  BY CancelledTicks
<1>4. \A t \in Ticks : tk[t] \in TickRec
  BY DEF TicksSound
<1> HIDE DEF c
<1>5. \A t \in Ticks : c[t].pc # "sleep"
  BY <1>2, <1>3, <1>4, IdleIsQuiet DEF Runs, TickRec
<1> QED
  BY <1>1, <1>5 DEF c, TicksSound

LEMMA ArmedSleeps ==
    ASSUME now \in Nat, now' = now, NEW n, NEW tk, TicksSound(tk, n),
           timer \in Ticks \cup {NoTick},
           \A t \in Ticks : tk[t].pc = "sleep" => t = timer,
           NEW jobs, NextIsNatural(jobs), NEW run \in BOOLEAN, Armed(tk, jobs, run)
    PROVE  /\ SleeperIsTimer'
           /\ run => \E t \in Ticks : tick'[t].pc = "sleep" /\ InTime(tick'[t], jobs, now)
<1> DEFINE c == Cancel(tk, timer)
<1>1. /\ \A t \in Ticks : c[t].pc # "sleep"
      /\ c \in [Ticks -> TickRec]
  BY NoSleeperLeft
<1>2. CASE run
  <2>1. timer' \in Ticks /\ tick' = [c EXCEPT ![timer'] = Sleeper(jobs)]
    BY <1>2 DEF Armed
  <2>2. Sleeper(jobs).pc = "sleep" /\ Sleeper(jobs).wake = NextWake(jobs)
    BY SleeperIsQuiet DEF NextIsNatural
  <2> HIDE DEF c
  <2>3. tick'[timer'] = Sleeper(jobs) /\ \A t \in Ticks : t # timer' => tick'[t] = c[t]
    BY <1>1, <2>1
  <2>4. InTime(tick'[timer'], jobs, now)
    BY <2>2, <2>3, NextWakeInTime DEF InTime, NextIsNatural
  <2> QED
    BY <1>1, <2>1, <2>2, <2>3, <2>4 DEF SleeperIsTimer
<1>3. CASE ~run
  BY <1>1, <1>3 DEF Armed, SleeperIsTimer
<1> QED
  BY <1>2, <1>3

LEMMA WatchStep == Types /\ WatchInv /\ [Next]_vars => WatchInv'
<1> SUFFICES ASSUME Types, WatchInv, [Next]_vars PROVE WatchInv'
  OBVIOUS
<1> USE BoundsAssumption, NamesAssumption
<1>0. /\ TicksSound(tick, Len(added)) /\ timer \in Ticks \cup {NoTick} /\ now \in Nat
      /\ tick \in [Ticks -> TickRec] /\ running \in BOOLEAN /\ worst \in Calm .. Failed
      /\ SleeperIsTimer /\ Covered
  BY DEF Types, TickTypes, ClockTypes, TicksSound, WatchInv
<1>r. /\ TicksSound(Reloaded, Len(added))
      /\ \A t \in Ticks : Reloaded[t].pc = tick[t].pc /\ Reloaded[t].wake = tick[t].wake
                          /\ Reloaded[t].cancel = tick[t].cancel
  <2>1. TicksSound(Reloaded, Len(added))
    BY <1>0, ReloadedTicks
  <2>2. \A t \in Ticks : \/ Reloaded[t] = tick[t]
                         \/ Reloaded[t] = [tick[t] EXCEPT !.fresh = FALSE]
    BY <1>0, ReloadedTicks
  <2>3. ASSUME NEW rec \in TickRec, NEW new, new = [rec EXCEPT !.fresh = FALSE]
        PROVE  new.pc = rec.pc /\ new.wake = rec.wake /\ new.cancel = rec.cancel
    BY <2>3 DEF TickRec
  <2>4. \A t \in Ticks : tick[t] \in TickRec
    BY <1>0
  <2> QED
    BY <2>1, <2>2, <2>3, <2>4
<1>a. ASSUME NEW jobs, NextIsNatural(jobs), NEW run \in BOOLEAN, JobsChanged(jobs, run)
      PROVE  WatchInv'
  <2>1. \A t \in Ticks : Reloaded[t].pc = "sleep" => t = timer
    BY <1>0, <1>r DEF SleeperIsTimer
  <2>2. Armed(Reloaded, jobs, run) /\ now' = now /\ store' = jobs /\ disk' = jobs /\ running' = run
    BY <1>a DEF JobsChanged
  <2>3. /\ SleeperIsTimer'
        /\ run => \E t \in Ticks : tick'[t].pc = "sleep" /\ InTime(tick'[t], jobs, now)
    BY <1>0, <1>a, <1>r, <2>1, <2>2, ArmedSleeps
  <2>4. run => \E t \in Ticks : Watches(tick[t])'
    BY <2>2, <2>3 DEF Watches, InTime
  <2> QED
    BY <2>2, <2>3, <2>4 DEF WatchInv, Covered
<1>b. ASSUME NEW tk, TicksSound(tk, Len(added)), \A t \in Ticks : tk[t].pc = "sleep" => t = timer,
             NEW u \in Ticks, NEW jobs, NextIsNatural(jobs), Ended(u, tk, jobs),
             store' = jobs, now' = now, running' = running
      PROVE  WatchInv'
  <2> DEFINE rest == [tk EXCEPT ![u] = Idle]
  <2>1. TicksSound(rest, Len(added)) /\ \A t \in Ticks : rest[t].pc = "sleep" => t = timer
    BY <1>b, IdleTick, IdleIsQuiet DEF TicksSound
  <2>h. Ended(u, tk, jobs) => \/ disk' = jobs /\ Armed(rest, jobs, running)
                              \/ tick' = rest /\ timer' = timer /\ worst' = Failed
    BY DEF Ended
  <2> HIDE DEF rest
  <2>2. CASE disk' = jobs /\ Armed(rest, jobs, running)
    <3>1. /\ SleeperIsTimer'
          /\ running => \E t \in Ticks : tick'[t].pc = "sleep" /\ InTime(tick'[t], jobs, now)
      BY <1>0, <1>b, <2>1, <2>2, ArmedSleeps
    <3>2. running => \E t \in Ticks : Watches(tick[t])'
      BY <1>b, <2>2, <3>1 DEF Watches, InTime
    <3> QED
      BY <1>b, <3>1, <3>2 DEF WatchInv, Covered
  <2>3. CASE tick' = rest /\ timer' = timer /\ worst' = Failed
    <3>1. SleeperIsTimer'
      BY <2>1, <2>3 DEF SleeperIsTimer
    <3>2. Covered'
      BY <2>3 DEF Covered, Failed
    <3> QED
      BY <3>1, <3>2 DEF WatchInv
  <2> QED
    BY <1>b, <2>2, <2>3, <2>h
<1>1. ASSUME NEW who, NEW kind \in {"at", "every"}, AddJob(who, kind) PROVE WatchInv'
  <2> DEFINE j    == Len(added) + 1
             jobs == [i \in DOMAIN Started \cup {j} |-> IF i = j THEN NewJob(kind) ELSE Started[i]]
  <2>1. JobsChanged(jobs, TRUE) /\ Sound(jobs, now, added')
    BY <1>1, Adding
  <2> HIDE DEF jobs
  <2> QED
    BY <1>a, <2>1, SoundIsNatural
<1>2. ASSUME NEW who, RefuseAdd(who) PROVE WatchInv'
  BY <1>2, <1>a, Refusing, SoundIsNatural
<1>3. ASSUME NEW who, NEW j, RemoveJob(who, j) PROVE WatchInv'
  <2>1. JobsChanged(Without(Loaded, j), running) /\ Sound(Without(Loaded, j), now, added)
    BY <1>3, Removing
  <2> QED
    BY <1>0, <1>a, <2>1, SoundIsNatural
<1>4. ASSUME NEW who, ListJobs(who) PROVE WatchInv'
  <2>1. store' = Loaded /\ tick' = Reloaded /\ UNCHANGED <<now, disk, timer, running, worst>>
    BY <1>4 DEF ListJobs
  <2>2. store' \in {store, disk}
    BY <2>1 DEF Loaded
  <2>3. SleeperIsTimer'
    BY <1>0, <1>r, <2>1 DEF SleeperIsTimer
  <2>4. ASSUME NEW t \in Ticks PROVE /\ OnDuty(tick[t]) => OnDuty(tick[t])'
                                     /\ Watches(tick[t]) => Watches(tick[t])'
    BY <1>r, <2>1, <2>2 DEF OnDuty, Watches, InTime
  <2>5. Covered'
    BY <1>0, <2>1, <2>4 DEF Covered
  <2> QED
    BY <2>3, <2>5 DEF WatchInv
<1>5. ASSUME NEW t \in Ticks, Wake(t) PROVE WatchInv'
  <2>1. /\ tick[t].pc = "sleep" /\ store' = Loaded /\ UNCHANGED <<now, running>>
        /\ \/ Ended(t, Reloaded, Loaded)
           \/ /\ DueOf(Loaded) # {} /\ DueOf(Loaded) \subseteq 1 .. Len(added)
              /\ tick' = [Reloaded EXCEPT ![t] = Begin(tick[t], DueOf(Loaded))]
              /\ UNCHANGED <<timer, worst>>
    BY <1>5, Waking
  <2>2. \A u \in Ticks : Reloaded[u].pc = "sleep" => u = timer
    BY <1>0, <1>r DEF SleeperIsTimer
  <2>3. NextIsNatural(Loaded)
    BY SoundLoaded, SoundIsNatural
  <2>4. CASE Ended(t, Reloaded, Loaded)
    BY <1>b, <1>r, <2>1, <2>2, <2>3, <2>4
  <2>5. CASE /\ DueOf(Loaded) # {} /\ DueOf(Loaded) \subseteq 1 .. Len(added)
             /\ tick' = [Reloaded EXCEPT ![t] = Begin(tick[t], DueOf(Loaded))] /\ timer' = timer
    <3> DEFINE b == Begin(tick[t], DueOf(Loaded))
    <3>1. b.pc \in {"connect", "deliver"} /\ b.cancel = tick[t].cancel
      <4>1. DueOf(Loaded) \in SUBSET Jobs /\ tick[t] \in TickRec
        BY <1>0, <2>5 DEF Types, ClockTypes, Jobs
      <4> QED
        BY <4>1, BegunIsOnDuty
    <3>2. ~tick[t].cancel
      BY <1>0, <2>1 DEF TicksSound, Runs, Quiet
    <3> HIDE DEF b
    <3>3. tick' = [Reloaded EXCEPT ![t] = b] /\ Reloaded \in [Ticks -> TickRec]
      BY <1>r, <2>5 DEF b, TicksSound
    <3>4. OnDuty(tick[t])'
      BY <3>1, <3>2, <3>3 DEF OnDuty
    <3>5. SleeperIsTimer'
      BY <2>2, <2>5, <3>1, <3>3 DEF SleeperIsTimer
    <3> QED
      BY <3>4, <3>5 DEF WatchInv, Covered
  <2> QED
    BY <2>1, <2>4, <2>5
<1>6. ASSUME NEW t \in Ticks, InTurn(t) PROVE WatchInv'
  <2>1. /\ Runs(tick[t]) /\ Runs(tick'[t])
        /\ \A u \in Ticks : u # t => tick'[u] = tick[u]
        /\ UNCHANGED <<now, store, disk, running, timer, worst>>
        /\ \/ tick'[t].pc \in {"wait", "run", "deliver"} /\ ~tick'[t].cancel
           \/ tick'[t].pc \in {"wait", "run"}
    BY <1>6, Executions
  <2>2. OnDuty(tick[t])'
    BY <2>1 DEF OnDuty
  <2>3. SleeperIsTimer'
    BY <1>0, <2>1 DEF SleeperIsTimer, Runs
  <2> QED
    BY <2>2, <2>3 DEF WatchInv, Covered
<1>7. ASSUME NEW t \in Ticks, Delivered(t) PROVE WatchInv'
  <2> DEFINE j    == NextOf(tick[t].queue)
             rest == tick[t].queue \ {j}
             jobs == AfterRun(t, j)
  <2>1. /\ tick[t].pc = "deliver" /\ ~tick[t].cancel /\ store' = jobs /\ Sound(store', now, added)
        /\ \/ Ended(t, tick, jobs)
           \/ /\ rest # {} /\ tick' = [tick EXCEPT ![t] = Begin(tick[t], rest)]
              /\ UNCHANGED <<disk, hasFile, timer, timerActive, worst>>
        /\ UNCHANGED <<now, running>>
    BY <1>7, Delivering
  <2>2. NextIsNatural(jobs) /\ rest \subseteq 1 .. Len(added)
    BY <1>0, <2>1, SoundIsNatural DEF TicksSound
  <2> HIDE DEF j, rest, jobs
  <2>3. CASE Ended(t, tick, jobs)
    BY <1>0, <1>b, <2>1, <2>2, <2>3 DEF SleeperIsTimer
  <2>4. CASE /\ rest # {} /\ tick' = [tick EXCEPT ![t] = Begin(tick[t], rest)]
             /\ UNCHANGED timer
    <3> DEFINE b == Begin(tick[t], rest)
    <3>1. b.pc \in {"connect", "deliver"} /\ b.cancel = tick[t].cancel
      <4>1. rest \in SUBSET Jobs /\ tick[t] \in TickRec
        BY <1>0, <2>2 DEF Types, ClockTypes, Jobs
      <4> QED
        BY <4>1, BegunIsOnDuty
    <3> HIDE DEF b
    <3>2. tick' = [tick EXCEPT ![t] = b]
      BY <2>4 DEF b
    <3>3. OnDuty(tick[t])'
      BY <1>0, <2>1, <3>1, <3>2 DEF OnDuty
    <3>4. SleeperIsTimer'
      BY <1>0, <2>4, <3>1, <3>2 DEF SleeperIsTimer
    <3> QED
      BY <3>3, <3>4 DEF WatchInv, Covered
  <2> QED
    BY <2>1, <2>3, <2>4
<1>8. ASSUME NEW t \in Ticks, TickCancelled(t) PROVE WatchInv'
  <2>1. /\ tick[t].pc \in {"connect", "deliver"} /\ tick[t].cancel
        /\ tick' = [tick EXCEPT ![t] = Idle]
        /\ UNCHANGED <<now, store, disk, running, timer, worst>>
    BY <1>8 DEF TickCancelled
  <2>2. \A u \in Ticks : u # t => tick'[u] = tick[u]
    BY <1>0, <2>1
  <2>3. ~OnDuty(tick[t]) /\ ~Watches(tick[t]) /\ tick'[t].pc = "none"
    BY <1>0, <2>1, IdleIsQuiet DEF OnDuty, Watches
  <2>4. SleeperIsTimer'
    BY <1>0, <2>1, <2>2, <2>3 DEF SleeperIsTimer
  <2>5. ASSUME NEW u \in Ticks, u # t PROVE /\ OnDuty(tick[u]) => OnDuty(tick[u])'
                                            /\ Watches(tick[u]) => Watches(tick[u])'
    BY <2>1, <2>2, <2>5 DEF OnDuty, Watches, InTime
  <2>6. Covered'
    BY <1>0, <2>1, <2>3, <2>5 DEF Covered
  <2> QED
    BY <2>4, <2>6 DEF WatchInv
<1>9. CASE ServiceStops
  <2>1. tick' = Cancel(tick, timer) /\ running' = FALSE
    BY <1>9 DEF ServiceStops
  <2>4. \A t \in Ticks : tick'[t].pc # "sleep"
    BY <1>0, <2>1, NoSleeperLeft DEF SleeperIsTimer
  <2> QED
    BY <2>1, <2>4 DEF WatchInv, SleeperIsTimer, Covered
<1>10. CASE Restart
  <2> DEFINE jobs == RecomputeNextRuns(disk)
  <2>1. /\ NextIsNatural(jobs) /\ now' = now
        /\ \/ /\ running' /\ store' = jobs /\ disk' = jobs /\ timer' = 1
              /\ tick' = [t \in Ticks |-> IF t = 1 THEN Sleeper(jobs) ELSE Idle]
           \/ ~running' /\ tick' = [t \in Ticks |-> Idle]
    BY <1>10, Booting
  <2>2. Sleeper(jobs).pc = "sleep" /\ Sleeper(jobs).wake = NextWake(jobs)
    BY <1>0, <2>1, SleeperIsQuiet DEF NextIsNatural
  <2> HIDE DEF jobs
  <2>3. CASE /\ store' = jobs /\ disk' = jobs /\ timer' = 1
             /\ tick' = [t \in Ticks |-> IF t = 1 THEN Sleeper(jobs) ELSE Idle]
    <3>1. 1 \in Ticks /\ tick'[1] = Sleeper(jobs)
      BY <2>3 DEF Ticks
    <3>2. InTime(tick'[1], store', now') /\ InTime(tick'[1], disk', now')
      BY <1>0, <2>1, <2>2, <2>3, <3>1, NextWakeInTime DEF InTime, NextIsNatural
    <3>3. SleeperIsTimer'
      BY <2>3, IdleIsQuiet DEF SleeperIsTimer
    <3> QED
      BY <2>2, <3>1, <3>2, <3>3 DEF WatchInv, Covered, Watches
  <2>4. CASE ~running' /\ tick' = [t \in Ticks |-> Idle]
    BY <2>4, IdleIsQuiet DEF WatchInv, SleeperIsTimer, Covered
  <2> QED
    BY <2>1, <2>3, <2>4
<1>11. CASE UserSteps \/ UNCHANGED vars
  <2>1. now' \in {now, now + 1} /\ UNCHANGED <<store, disk, running, timer, tick, worst>>
    BY <1>11 DEF UserSteps, UserTurnBegins, UserTurnEnds, BeginShutdown, Clock, service, vars
  <2>2. ASSUME NEW t \in Ticks, Watches(tick[t]) PROVE Watches(tick[t])'
    <3>1. tick[t].wake \in Nat
      BY <1>0 DEF TickRec
    <3>2. NextIsNatural(store) /\ NextIsNatural(disk)
      BY SoundIsNatural DEF Types, StoreTypes
    <3> QED
      BY <1>0, <2>1, <2>2, <3>1, <3>2 DEF Watches, InTime, NextIsNatural
  <2> QED
    BY <1>0, <2>1, <2>2 DEF WatchInv, SleeperIsTimer, Covered, OnDuty
<1> QED
  BY <1>1, <1>2, <1>3, <1>4, <1>5, <1>6, <1>7, <1>8, <1>9, <1>10, <1>11, StepCases

LEMMA WatchInvariant == Spec => []WatchInv
<1>1. Init => WatchInv
  BY IdleIsQuiet DEF Init, WatchInv, SleeperIsTimer, Covered
<1> QED
  BY <1>1, WatchStep, TypesInvariant, PTL DEF Spec

(* service.py:153 "due jobs are polled": whatever the tool, /stop, a        *)
(* shutdown and other ticks cancel, as long as no write at the end of a     *)
(* tick fails something wakes in time for the earliest job.                 *)
THEOREM SomethingWatches == Spec => []TimerCovers
<1>3. Types /\ WatchInv => TimerCovers
  <2> SUFFICES ASSUME Types, WatchInv PROVE TimerCovers
    OBVIOUS
  <2>1. TypeOK
    <3>1. /\ DOMAIN store \subseteq Jobs /\ \A j \in DOMAIN store : store[j] \in Job
          /\ DOMAIN disk \subseteq Jobs /\ \A j \in DOMAIN disk : disk[j] \in Job
      BY BoundsAssumption DEF Types, StoreTypes, Sound, ClockTypes, Jobs
    <3> QED
      BY <3>1 DEF TypeOK, Types, ClockTypes, TickTypes, TicksSound, TickRec
  <2> QED
    BY <2>1 DEF TimerCovers, WatchInv, Covered, OnDuty, Watches, InTime
<1> QED
  BY <1>3, TypesInvariant, WatchInvariant, PTL
-----------------------------------------------------------------------------
(* While calm.                                                              *)
LEMMA CalmBefore ==
    ASSUME Types, [Next]_vars, worst' < Changed
    PROVE  worst' = worst /\ worst < Changed
<1>0. worst \in Calm .. Failed
  BY DEF Types, ClockTypes
<1>1. ASSUME NEW jobs, NEW run, JobsChanged(jobs, run) PROVE worst' = worst
  BY <1>0, <1>1 DEF JobsChanged, ChangeJobs, Worsen, Calm, Changed, Failed
<1>2. ASSUME NEW t, NEW tk, NEW jobs, Ended(t, tk, jobs) PROVE worst' = worst
  BY <1>0, <1>2 DEF Ended, Calm, Changed, Failed
<1>3. worst' = worst
  <2>1. ASSUME NEW who, NEW kind \in {"at", "every"}, AddJob(who, kind) PROVE worst' = worst
    BY <1>1, <2>1, Adding
  <2>2. ASSUME NEW who, NEW j, RemoveJob(who, j) PROVE worst' = worst
    BY <1>1, <2>2, Removing
  <2>3. ASSUME NEW who, RefuseAdd(who) PROVE worst' = worst
    BY <1>1, <2>3, Refusing
  <2>4. ASSUME NEW t \in Ticks, Wake(t) PROVE worst' = worst
    BY <1>2, <2>4, Waking
  <2>5. ASSUME NEW t \in Ticks, Delivered(t) PROVE worst' = worst
    BY <1>2, <2>5, Delivering
  <2>6. ASSUME NEW t \in Ticks, InTurn(t) PROVE worst' = worst
    BY <2>6, Executions
  <2> QED
    BY <2>1, <2>2, <2>3, <2>4, <2>5, <2>6, StepCases
       DEF ListJobs, TickCancelled, ServiceStops, Restart, UserSteps, UserTurnBegins,
           UserTurnEnds, BeginShutdown, Clock, vars
<1> QED
  BY <1>3

NoneRuns == ~timerActive /\ \A t \in Ticks : ~Runs(tick[t])

LEMMA ChangedAtRest ==
    ASSUME OneRuns, ChangeJobs, worst < Changed, worst' < Changed
    PROVE  NoneRuns
<1>1. ~\E t \in Ticks : Executing(t)
  BY DEF ChangeJobs, Worsen, Changed
<1>2. \A t \in Ticks : ~Runs(tick[t])
  BY <1>1 DEF Executing, Runs
<1> QED
  BY <1>2 DEF NoneRuns, OneRuns

LEMMA NothingIsStale == ASSUME Types, OneRuns PROVE Reloaded = tick
<1>1. tick \in [Ticks -> TickRec]
  BY DEF Types, TickTypes, TicksSound
<1>2. CASE ~timerActive
  <2>1. \A t \in Ticks : ~Executing(t)
    BY <1>2 DEF OneRuns, Executing, Runs
  <2>2. Reloaded = [t \in Ticks |-> tick[t]]
    BY <1>2, <2>1 DEF Reloaded
  <2> QED
    BY <1>1, <2>2
<1> QED
  BY <1>2 DEF Reloaded

LEMMA ArmedRuns ==
    ASSUME now \in Nat, NEW n, NEW tk, TicksSound(tk, n), timer \in Ticks \cup {NoTick},
           NEW jobs, NextIsNatural(jobs), NEW run, Armed(tk, jobs, run)
    PROVE  \A t \in Ticks : Runs(tick'[t]) => Runs(tk[t])
<1> DEFINE c == Cancel(tk, timer)
<1>1. TicksSound(c, n)
  BY CancelledTicks
<1>2. \A t \in Ticks : t # timer => c[t] = tk[t]
  BY CancelledTicks
<1>3. \A t \in Ticks : t = timer =>
          \/ c[t] = tk[t]
          \/ c[t] = Idle
          \/ Runs(tk[t])
  BY CancelledTicks
<1>4. run => /\ timer' \in Ticks
             /\ tick' = [c EXCEPT ![timer'] = Sleeper(jobs)]
  BY DEF Armed
<1>5. ~run => tick' = c
  BY DEF Armed
<1>6. ~Runs(Sleeper(jobs)) /\ ~Runs(Idle)
  BY SleeperIsQuiet, IdleIsQuiet DEF NextIsNatural
<1> HIDE DEF c
<1>7. \A t \in Ticks : Runs(c[t]) => Runs(tk[t])
  BY <1>2, <1>3, <1>6
<1>8. c \in [Ticks -> TickRec]
  BY <1>1 DEF TicksSound
<1>9. CASE run
  BY <1>4, <1>6, <1>7, <1>8, <1>9
<1>10. CASE ~run
  BY <1>5, <1>7, <1>10
<1> QED
  BY <1>9, <1>10

LEMMA EndedAtRest ==
    ASSUME Types, NEW t \in Ticks, NEW tk, TicksSound(tk, Len(added)), NEW jobs,
           NextIsNatural(jobs), Ended(t, tk, jobs), \A u \in Ticks : Runs(tk[u]) => u = t
    PROVE  NoneRuns'
<1> DEFINE rest == [tk EXCEPT ![t] = Idle]
<1>1. TicksSound(rest, Len(added))
  BY IdleTick
<1>2. \A u \in Ticks : ~Runs(rest[u])
  BY IdleIsQuiet DEF TicksSound
<1>3. timerActive' = FALSE /\ (tick' = rest \/ Armed(rest, jobs, running))
  BY DEF Ended
<1>4. now \in Nat /\ timer \in Ticks \cup {NoTick}
  BY DEF Types, ClockTypes, TickTypes
<1> HIDE DEF rest
<1>5. \A u \in Ticks : ~Runs(tick'[u])
  BY <1>1, <1>2, <1>3, <1>4, ArmedRuns
<1> QED
  BY <1>3, <1>5 DEF NoneRuns

LEMMA WakesAlone ==
    ASSUME Types, SleeperIsTimer, OneRuns, NEW t \in Ticks, Wake(t)
    PROVE  NoneRuns /\ timer = t /\ ~tick[t].cancel /\ tick[t].fresh
<1>1. tick[t].pc = "sleep" /\ running
  BY DEF Wake
<1>2. timer = t /\ t # NoTick
  BY <1>1, NamesAssumption DEF SleeperIsTimer
<1>3. \A u \in Ticks : ~Runs(tick[u])
  BY <1>1, <1>2 DEF OneRuns, Runs
<1>4. ~timerActive
  BY <1>3 DEF OneRuns
<1>5. ~tick[t].cancel /\ tick[t].fresh
  BY <1>3 DEF Types, TickTypes, TicksSound, Quiet
<1> QED
  BY <1>2, <1>3, <1>4, <1>5 DEF NoneRuns

LEMMA StoppedRuns ==
    ASSUME Types, ServiceStops, NEW t \in Ticks
    PROVE  /\ Runs(tick'[t]) <=> Runs(tick[t])
           /\ Runs(tick[t]) => /\ tick'[t].pc = tick[t].pc /\ tick'[t].queue = tick[t].queue
                               /\ tick'[t].fresh = tick[t].fresh
<1>1. tick' = Cancel(tick, timer) /\ timer \in Ticks \cup {NoTick} /\ TicksSound(tick, Len(added))
  BY DEF ServiceStops, Types, TickTypes
<1>2. tick[t] \in TickRec
  BY <1>1 DEF TicksSound
<1>3. \/ tick'[t] = tick[t]
      \/ tick[t].pc = "sleep" /\ tick'[t] = Idle
      \/ Runs(tick[t]) /\ tick'[t] = [tick[t] EXCEPT !.cancel = TRUE]
  BY <1>1, CancelledTicks
<1>4. ASSUME NEW rec \in TickRec, NEW new, new = [rec EXCEPT !.cancel = TRUE]
      PROVE  new.pc = rec.pc /\ new.queue = rec.queue /\ new.fresh = rec.fresh
  BY <1>4 DEF TickRec
<1> QED
  BY <1>2, <1>3, <1>4, IdleIsQuiet DEF Runs

LEMMA OneRunsStep ==
    ASSUME Types, SleeperIsTimer, OneRuns, worst < Changed, worst' < Changed, [Next]_vars
    PROVE  OneRuns'
<1> USE NamesAssumption
<1>0. /\ TicksSound(tick, Len(added)) /\ timer \in Ticks \cup {NoTick} /\ now \in Nat
      /\ tick \in [Ticks -> TickRec] /\ Reloaded = tick
  BY NothingIsStale DEF Types, TickTypes, ClockTypes, TicksSound
<1>a. NoneRuns' => OneRuns'
  BY DEF NoneRuns, OneRuns
<1>b. ASSUME NEW jobs, NextIsNatural(jobs), NEW run, JobsChanged(jobs, run) PROVE OneRuns'
  <2>1. NoneRuns
    BY <1>b, ChangedAtRest DEF JobsChanged
  <2>2. Armed(tick, jobs, run) /\ timerActive' = timerActive
    BY <1>0, <1>b DEF JobsChanged
  <2>3. \A t \in Ticks : ~Runs(tick'[t])
    BY <1>0, <1>b, <2>1, <2>2, ArmedRuns DEF NoneRuns
  <2> QED
    BY <1>a, <2>1, <2>2, <2>3 DEF NoneRuns
<1>c. ASSUME NEW t \in Ticks, NEW q \in SUBSET Jobs, tick' = [tick EXCEPT ![t] = Begin(tick[t], q)],
             timerActive', running' = running, tick[t].fresh, ~tick[t].cancel,
             \A u \in Ticks : Runs(tick[u]) => u = t,
             timer' = t \/ (timer' = NoTick /\ ~running)
      PROVE  OneRuns'
  <2> DEFINE b == Begin(tick[t], q)
  <2>1. b.pc \in {"connect", "deliver"} /\ b.fresh /\ ~b.cancel
    BY <1>0, <1>c, BegunIsOnDuty
  <2> HIDE DEF b
  <2>2. tick'[t] = b /\ \A u \in Ticks : u # t => tick'[u] = tick[u]
    BY <1>0, <1>c DEF b
  <2> QED
    BY <1>c, <2>1, <2>2 DEF OneRuns, Runs
<1>1. ASSUME NEW who, NEW kind \in {"at", "every"}, AddJob(who, kind) PROVE OneRuns'
  <2> DEFINE j    == Len(added) + 1
             jobs == [i \in DOMAIN Started \cup {j} |-> IF i = j THEN NewJob(kind) ELSE Started[i]]
  <2>1. JobsChanged(jobs, TRUE) /\ Sound(jobs, now, added')
    BY <1>1, Adding
  <2> HIDE DEF jobs
  <2> QED
    BY <1>b, <2>1, SoundIsNatural
<1>2. ASSUME NEW who, RefuseAdd(who) PROVE OneRuns'
  BY <1>2, <1>b, Refusing, SoundIsNatural
<1>3. ASSUME NEW who, NEW j, RemoveJob(who, j) PROVE OneRuns'
  <2>1. JobsChanged(Without(Loaded, j), running) /\ Sound(Without(Loaded, j), now, added)
    BY <1>3, Removing
  <2> QED
    BY <1>b, <2>1, SoundIsNatural
<1>4. ASSUME NEW who, ListJobs(who) PROVE OneRuns'
  BY <1>0, <1>4 DEF ListJobs, OneRuns
<1>5. ASSUME NEW t \in Ticks, Wake(t) PROVE OneRuns'
  <2>1. NoneRuns /\ timer = t /\ ~tick[t].cancel /\ tick[t].fresh
    BY <1>5, WakesAlone
  <2>2. /\ UNCHANGED running
        /\ \/ Ended(t, tick, Loaded)
           \/ /\ timerActive' = TRUE /\ tick' = [tick EXCEPT ![t] = Begin(tick[t], DueOf(Loaded))]
              /\ timer' = timer /\ DueOf(Loaded) \in SUBSET Jobs
    <3>1. DueOf(Loaded) \subseteq 1 .. Len(added) => DueOf(Loaded) \in SUBSET Jobs
      BY AddedAreJobs DEF Types
    <3> QED
      BY <1>0, <1>5, <3>1, Waking
  <2>3. NextIsNatural(Loaded)
    BY SoundLoaded, SoundIsNatural
  <2>4. CASE Ended(t, tick, Loaded)
    BY <1>0, <1>a, <2>1, <2>3, <2>4, EndedAtRest DEF NoneRuns
  <2>5. CASE /\ timerActive' = TRUE /\ tick' = [tick EXCEPT ![t] = Begin(tick[t], DueOf(Loaded))]
             /\ timer' = timer /\ DueOf(Loaded) \in SUBSET Jobs
    BY <1>c, <2>1, <2>2, <2>5 DEF NoneRuns
  <2> QED
    BY <2>2, <2>4, <2>5
<1>6. ASSUME NEW t \in Ticks, InTurn(t) PROVE OneRuns'
  <2>1. /\ Runs(tick[t]) /\ Runs(tick'[t]) /\ tick'[t].fresh = tick[t].fresh
        /\ \A u \in Ticks : u # t => tick'[u] = tick[u]
        /\ UNCHANGED <<timerActive, timer, running>>
        /\ tick'[t].pc \in {"connect", "deliver"} => ~tick'[t].cancel
    BY <1>6, Executions
  <2> QED
    BY <2>1 DEF OneRuns
<1>7. ASSUME NEW t \in Ticks, Delivered(t) PROVE OneRuns'
  <2> DEFINE jobs == AfterRun(t, NextOf(tick[t].queue))
             rest == tick[t].queue \ {NextOf(tick[t].queue)}
  <2>1. /\ tick[t].pc = "deliver" /\ ~tick[t].cancel /\ store' = jobs /\ Sound(store', now, added)
        /\ \/ Ended(t, tick, jobs)
           \/ /\ tick' = [tick EXCEPT ![t] = Begin(tick[t], rest)]
              /\ UNCHANGED <<timer, timerActive>>
        /\ UNCHANGED running
    BY <1>7, Delivering
  <2>2. NextIsNatural(jobs) /\ rest \in SUBSET Jobs
    BY <1>0, <2>1, SoundIsNatural DEF TicksSound, TickRec
  <2> HIDE DEF jobs, rest
  <2>3. /\ timerActive /\ tick[t].fresh /\ (timer = t \/ (timer = NoTick /\ ~running))
        /\ \A u \in Ticks : Runs(tick[u]) => u = t
    BY <2>1 DEF OneRuns, Runs
  <2>4. CASE Ended(t, tick, jobs)
    BY <1>0, <1>a, <2>2, <2>3, <2>4, EndedAtRest
  <2>5. CASE /\ tick' = [tick EXCEPT ![t] = Begin(tick[t], rest)]
             /\ UNCHANGED <<timer, timerActive>>
    BY <1>c, <2>1, <2>2, <2>3, <2>5
  <2> QED
    BY <2>1, <2>4, <2>5
<1>8. ASSUME NEW t \in Ticks, TickCancelled(t) PROVE OneRuns'
  <2>1. Runs(tick[t]) /\ timerActive' = FALSE /\ tick' = [tick EXCEPT ![t] = Idle]
    BY <1>8 DEF TickCancelled, Runs
  <2>2. \A u \in Ticks : Runs(tick[u]) => u = t
    BY <2>1 DEF OneRuns
  <2>3. \A u \in Ticks : ~Runs(tick'[u])
    BY <1>0, <2>1, <2>2, IdleIsQuiet
  <2> QED
    BY <1>a, <2>1, <2>3 DEF NoneRuns
<1>9. CASE ServiceStops
  <2>1. running' = FALSE /\ timer' = NoTick /\ timerActive' = timerActive
    BY <1>9 DEF ServiceStops
  <2> QED
    BY <1>9, <2>1, StoppedRuns DEF OneRuns
<1>10. CASE Restart
  <2>1. /\ timerActive' = FALSE /\ NextIsNatural(RecomputeNextRuns(disk))
        /\ \/ tick' = [t \in Ticks |-> IF t = 1 THEN Sleeper(RecomputeNextRuns(disk)) ELSE Idle]
           \/ tick' = [t \in Ticks |-> Idle]
    BY <1>10, Booting
  <2>2. \A t \in Ticks : ~Runs(tick'[t])
    BY <1>0, <2>1, IdleIsQuiet, SleeperIsQuiet DEF NextIsNatural
  <2> QED
    BY <1>a, <2>1, <2>2 DEF NoneRuns
<1>11. CASE UserSteps \/ UNCHANGED vars
  BY <1>11 DEF UserSteps, UserTurnBegins, UserTurnEnds, BeginShutdown, Clock, service, vars,
               OneRuns
<1> QED
  BY <1>1, <1>2, <1>3, <1>4, <1>5, <1>6, <1>7, <1>8, <1>9, <1>10, <1>11, StepCases

(* A one-time job of the past that is computed anew is scheduled no more.   *)
LEMMA RecomputedIsOver ==
    ASSUME Types, NEW m, Sound(m, now, added), NEW i \in OneTime, PastIn(m, i)
    PROVE  PastIn(RecomputeNextRuns(m), i) /\ OffIn(RecomputeNextRuns(m), i)
<1> SUFFICES ASSUME i \in DOMAIN m
             PROVE  LET r == RecomputeNextRuns(m)[i] IN r.at <= now /\ r.next = 0
  BY DEF PastIn, OffIn, RecomputeNextRuns
<1>1. /\ m[i] \in Job /\ m[i].at # 0 /\ m[i].at <= now /\ now \in Nat
  BY DEF Sound, OneTime, PastIn, Types, ClockTypes
<1>2. ComputeNextRun(m[i]) = 0
  BY <1>1 DEF ComputeNextRun, Job
<1>3. RecomputeNextRuns(m)[i] = [m[i] EXCEPT !.next = 0]
  BY <1>2 DEF RecomputeNextRuns
<1> QED
  BY <1>1, <1>3 DEF Job

(* What a one-time job that has run looks like when it is loaded, and when  *)
(* the service is started with it.                                          *)
LEMMA LoadedIsOver ==
    ASSUME NoneRuns, RanIsOver, NEW i \in OneTime, ran[i] # 0
    PROVE  /\ ran[i] = 1
           /\ PastIn(Loaded, i)
           /\ running => OffIn(Loaded, i)
  BY DEF RanIsOver, NoneRuns, Loaded

LEMMA StartedIsOver ==
    ASSUME Types, NoneRuns, RanIsOver, NEW i \in OneTime, ran[i] # 0
    PROVE  PastIn(Started, i) /\ OffIn(Started, i)
<1>1. PastIn(Loaded, i) /\ (running => OffIn(Loaded, i))
  BY LoadedIsOver
<1>2. CASE running
  BY <1>1, <1>2 DEF Started
<1>3. CASE ~running
  BY <1>1, <1>3, SoundLoaded, RecomputedIsOver DEF Started
<1> QED
  BY <1>2, <1>3

(* The jobs that the tool saves keep what has run over.                     *)
LEMMA SavedIsOver ==
    ASSUME Types, NoneRuns', NEW jobs, store' = jobs, disk' = jobs, ran' = ran, now' = now,
           RanIsOver, Len(added) <= Len(added'), Len(added') \in Nat,
           \A i \in OneTime' : ran[i] # 0 =>
              i \in OneTime /\ PastIn(jobs, i) /\ (running' => OffIn(jobs, i))
    PROVE  RanIsOver'
<1>1. \A j \in Jobs : ran'[j] # 0 => j \in 1 .. Len(added')
  BY DEF RanIsOver, Types, ClockTypes, Jobs
<1>2. \A j \in OneTime' : ran'[j] # 0 =>
          /\ ran'[j] = 1 /\ PastIn(store, j)' /\ PastIn(disk, j)'
          /\ running' => OffIn(disk, j)'
  BY DEF RanIsOver, PastIn, OffIn
<1> QED
  BY <1>1, <1>2 DEF RanIsOver, NoneRuns

LEMMA RanStep ==
    ASSUME Types, SleeperIsTimer, OneRuns, RanIsOver, worst < Changed, worst' < Changed,
           OneRuns', [Next]_vars
    PROVE  RanIsOver'
<1> USE NamesAssumption
<1>0. /\ TicksSound(tick, Len(added)) /\ now \in Nat /\ Len(added) \in Nat
      /\ tick \in [Ticks -> TickRec] /\ Reloaded = tick /\ OneTime \subseteq Jobs
      /\ Sound(store, now, added) /\ Sound(disk, now, added) /\ ran \in [Jobs -> 0 .. 2]
  BY NothingIsStale, AddedAreJobs
     DEF Types, TickTypes, ClockTypes, StoreTypes, TicksSound, OneTime
<1>a. ASSUME NEW jobs, NEW run, JobsChanged(jobs, run)
      PROVE  /\ NoneRuns /\ store' = jobs /\ disk' = jobs /\ running' = run
             /\ ran' = ran /\ now' = now /\ timerActive' = FALSE
             /\ NextIsNatural(jobs) => NoneRuns'
  <2>1. NoneRuns
    BY <1>a, ChangedAtRest DEF JobsChanged
  <2>2. /\ store' = jobs /\ disk' = jobs /\ running' = run /\ ran' = ran /\ now' = now
        /\ timerActive' = timerActive /\ Armed(tick, jobs, run)
    BY <1>0, <1>a DEF JobsChanged
  <2>3. timerActive' = FALSE
    BY <2>1, <2>2 DEF NoneRuns, Types, ClockTypes
  <2>4. NoneRuns'
    BY <2>3 DEF OneRuns, NoneRuns
  <2> QED
    BY <2>1, <2>2, <2>3, <2>4
<1>1. ASSUME NEW who, NEW kind \in {"at", "every"}, AddJob(who, kind) PROVE RanIsOver'
  <2> DEFINE j    == Len(added) + 1
             jobs == [i \in DOMAIN Started \cup {j} |-> IF i = j THEN NewJob(kind) ELSE Started[i]]
  <2>1. JobsChanged(jobs, TRUE) /\ Sound(jobs, now, added') /\ added' = Append(added, kind)
    BY <1>1, Adding
  <2>2. /\ Len(added') = j /\ \A i \in 1 .. Len(added) : added'[i] = added[i]
    BY <1>0, <2>1 DEF Types, ClockTypes
  <2>3. /\ NoneRuns /\ NoneRuns' /\ store' = jobs /\ disk' = jobs /\ ran' = ran /\ now' = now
    BY <1>a, <2>1, SoundIsNatural
  <2>4. ASSUME NEW i \in OneTime', ran[i] # 0
        PROVE  i \in OneTime /\ PastIn(jobs, i) /\ OffIn(jobs, i)
    <3>1. i \in 1 .. j /\ j \in Jobs
      BY <1>1, <2>2 DEF OneTime, AddJob
    <3>2. i \in 1 .. Len(added)
      BY <1>0, <2>4, <3>1 DEF RanIsOver, Jobs
    <3>3. i \in OneTime
      BY <2>2, <3>2 DEF OneTime
    <3>4. PastIn(Started, i) /\ OffIn(Started, i)
      BY <2>3, <2>4, <3>3, StartedIsOver
    <3>5. i # j
      BY <1>0, <3>2
    <3> QED
      BY <3>3, <3>4, <3>5 DEF PastIn, OffIn
  <2> HIDE DEF jobs
  <2> QED
    BY <1>0, <2>2, <2>3, <2>4, SavedIsOver
<1>2. ASSUME NEW who, RefuseAdd(who) PROVE RanIsOver'
  <2>1. JobsChanged(Started, TRUE) /\ Sound(Started, now, added) /\ added' = added
    BY <1>2, Refusing
  <2>2. /\ NoneRuns /\ NoneRuns' /\ store' = Started /\ disk' = Started /\ ran' = ran /\ now' = now
    BY <1>a, <2>1, SoundIsNatural
  <2>3. \A i \in OneTime' : ran[i] # 0 => i \in OneTime /\ PastIn(Started, i) /\ OffIn(Started, i)
    BY <2>1, <2>2, StartedIsOver DEF OneTime
  <2> QED
    BY <1>0, <2>1, <2>2, <2>3, SavedIsOver
<1>3. ASSUME NEW who, NEW j, RemoveJob(who, j) PROVE RanIsOver'
  <2> DEFINE jobs == Without(Loaded, j)
  <2>1. JobsChanged(jobs, running) /\ Sound(jobs, now, added) /\ added' = added
    BY <1>3, Removing
  <2>2. /\ NoneRuns /\ NoneRuns' /\ store' = jobs /\ disk' = jobs /\ ran' = ran /\ now' = now
        /\ running' = running
    BY <1>a, <2>1, SoundIsNatural
  <2>3. ASSUME NEW i \in OneTime', ran[i] # 0
        PROVE  i \in OneTime /\ PastIn(jobs, i) /\ (running => OffIn(jobs, i))
    <3>1. i \in OneTime
      BY <2>1 DEF OneTime
    <3>2. PastIn(Loaded, i) /\ (running => OffIn(Loaded, i))
      BY <2>2, <2>3, <3>1, LoadedIsOver
    <3> QED
      BY <3>1, <3>2 DEF PastIn, OffIn, Without
  <2> HIDE DEF jobs
  <2> QED
    BY <1>0, <2>1, <2>2, <2>3, SavedIsOver
<1>4. ASSUME NEW who, ListJobs(who) PROVE RanIsOver'
  <2>1. /\ store' = Loaded /\ tick' = tick
        /\ UNCHANGED <<now, disk, running, timerActive, added, ran>>
    BY <1>0, <1>4 DEF ListJobs, history
  <2>2. timerActive => store' = store
    BY <2>1 DEF Loaded
  <2>3. \A j : PastIn(store, j) /\ PastIn(disk, j) => PastIn(store, j)'
    BY <2>1 DEF Loaded, PastIn
  <2>4. \A t \in Ticks : Runs(tick[t]) => timerActive
    BY DEF OneRuns
  <2> QED
    BY <2>1, <2>2, <2>3, <2>4 DEF RanIsOver, OneTime, PastIn, OffIn, InDelivery
<1>5. ASSUME NEW t \in Ticks, Wake(t) PROVE RanIsOver'
  <2>1. NoneRuns /\ timer = t
    BY <1>5, WakesAlone
  <2>2. Loaded = disk
    BY <2>1 DEF NoneRuns, Loaded
  <2>3. /\ running /\ store' = disk /\ UNCHANGED <<now, running, added, ran>>
        /\ \/ Ended(t, tick, disk)
           \/ /\ timerActive' = TRUE /\ tick' = [tick EXCEPT ![t] = Begin(tick[t], DueOf(disk))]
              /\ UNCHANGED <<disk, timer, worst>> /\ DueOf(disk) \in SUBSET Jobs
    <3>1. DueOf(Loaded) \subseteq 1 .. Len(added) => DueOf(Loaded) \in SUBSET Jobs
      BY AddedAreJobs DEF Types
    <3> QED
      BY <1>0, <1>5, <2>2, <3>1, Waking
  <2>4. disk' = disk
    BY <2>3 DEF Ended
  <2>5. \A j \in OneTime : ran[j] # 0 =>
           ran[j] = 1 /\ PastIn(disk, j) /\ OffIn(disk, j)
    BY <2>1, <2>2, <2>3, LoadedIsOver
  <2>6. /\ OneTime' = OneTime
        /\ \A j : (PastIn(store, j)' <=> PastIn(disk, j)) /\ (PastIn(disk, j)' <=> PastIn(disk, j))
        /\ \A j : (OffIn(store, j)' <=> OffIn(disk, j)) /\ (OffIn(disk, j)' <=> OffIn(disk, j))
    BY <2>3, <2>4 DEF OneTime, PastIn, OffIn
  <2>7. ASSUME NEW u \in Ticks, NEW j \in OneTime, Runs(tick'[u]), j \in tick'[u].queue
        PROVE  PastIn(disk, j) /\ ran[j] = 0
    <3>1. ~Ended(t, tick, disk)
      <4>1. \A v \in Ticks : Runs(tick[v]) => v = t
        BY <2>1 DEF NoneRuns
      <4>2. NextIsNatural(disk)
        BY <1>0, SoundIsNatural
      <4> QED
        BY <1>0, <2>7, <4>1, <4>2, EndedAtRest DEF NoneRuns
    <3>2. tick' = [tick EXCEPT ![t] = Begin(tick[t], DueOf(disk))] /\ DueOf(disk) \in SUBSET Jobs
      BY <2>3, <3>1
    <3>3. Begin(tick[t], DueOf(disk)).queue = DueOf(disk)
      BY <1>0, <3>2, BegunIsOnDuty
    <3>4. u = t
      BY <1>0, <2>1, <2>7, <3>2 DEF NoneRuns
    <3>5. j \in DueOf(disk)
      BY <1>0, <2>7, <3>2, <3>3, <3>4
    <3>6. /\ j \in DOMAIN disk /\ disk[j].next # 0 /\ now >= disk[j].next
          /\ disk[j].next = disk[j].at
      BY <1>0, <3>5 DEF DueOf, Sound, OneTime
    <3> QED
      BY <1>0, <2>5, <3>6 DEF PastIn, OffIn, Sound, Job
  <2> QED
    BY <1>0, <2>3, <2>5, <2>6, <2>7 DEF RanIsOver
<1>6. ASSUME NEW t \in Ticks, InTurn(t) PROVE RanIsOver'
  <2> DEFINE j == NextOf(tick[t].queue)
  <2>1. /\ Runs(tick[t]) /\ tick'[t].queue = tick[t].queue
        /\ \A u \in Ticks : u # t => tick'[u] = tick[u]
        /\ UNCHANGED <<now, store, disk, running, timerActive, added>>
        /\ tick[t].pc # "deliver"
        /\ \/ ran' = ran
           \/ tick'[t].pc = "deliver" /\ ran' = [ran EXCEPT ![j] = IF @ = 2 THEN 2 ELSE @ + 1]
    BY <1>6, Executions
  <2>2. timerActive /\ \A u \in Ticks : Runs(tick[u]) => u = t
    BY <2>1 DEF OneRuns
  <2>3. \A u \in Ticks : \A i : ~InDelivery(u, i)
    BY <2>1, <2>2 DEF InDelivery, Runs
  <2>4. OneTime' = OneTime /\ \A i : /\ PastIn(store, i)' <=> PastIn(store, i)
                                     /\ PastIn(disk, i)' <=> PastIn(disk, i)
                                     /\ OffIn(store, i)' <=> OffIn(store, i)
    BY <2>1 DEF OneTime, PastIn, OffIn
  <2>5. \A i \in OneTime : i \in tick[t].queue => ran[i] = 0 /\ PastIn(store, i) /\ PastIn(disk, i)
    BY <2>1, <2>3 DEF RanIsOver
  <2>6. \A u \in Ticks : Runs(tick'[u]) => u = t
    BY <2>1, <2>2
  <2>7. CASE ran' = ran
    <3>1. \A u \in Ticks, i \in OneTime : Runs(tick'[u]) /\ i \in tick'[u].queue =>
             /\ PastIn(store, i) /\ PastIn(disk, i) /\ ran[i] = 0
      BY <2>1, <2>5, <2>6
    <3> QED
      BY <2>1, <2>2, <2>3, <2>4, <2>7, <3>1 DEF RanIsOver
  <2>8. CASE tick'[t].pc = "deliver" /\ ran' = [ran EXCEPT ![j] = IF @ = 2 THEN 2 ELSE @ + 1]
    <3>1. j \in tick[t].queue /\ tick[t].queue \in SUBSET Jobs /\ j \in 1 .. Len(added)
      <4>1. tick[t].queue # {} /\ tick[t].queue \in SUBSET Jobs /\ tick[t].queue \subseteq 1 .. Len(added)
        BY <1>0, <2>1 DEF TicksSound, TickRec
      <4> QED
        BY <4>1, NextOfQueue
    <3>2. \A i : i = j => InDelivery(t, i)'
      BY <2>1, <2>8 DEF InDelivery
    <3> HIDE DEF j
    <3>3. /\ \A i \in Jobs : i # j => ran'[i] = ran[i]
          /\ ran[j] = 0 => ran'[j] = 1
      BY <1>0, <2>8, <3>1
    <3>4. \A i \in Jobs : ran'[i] # 0 => i \in 1 .. Len(added')
      BY <2>1, <3>1, <3>3 DEF RanIsOver
    <3>5. ASSUME NEW i \in OneTime, ran'[i] # 0
          PROVE  /\ ran'[i] = 1 /\ PastIn(store, i) /\ PastIn(disk, i)
                 /\ OffIn(store, i) \/ InDelivery(t, i)'
      <4>1. CASE i = j
        BY <2>5, <3>1, <3>2, <3>3, <4>1
      <4>2. CASE i # j
        <5>1. i \in Jobs /\ ran'[i] = ran[i] /\ ran[i] # 0
          BY <1>0, <3>3, <3>5, <4>2
        <5> QED
          BY <2>2, <2>3, <5>1 DEF RanIsOver
      <4> QED
        BY <4>1, <4>2
    <3>6. ASSUME NEW u \in Ticks, NEW i \in OneTime, Runs(tick'[u]), i \in tick'[u].queue
          PROVE  /\ PastIn(store, i) /\ PastIn(disk, i)
                 /\ ran'[i] # 0 => InDelivery(u, i)'
      <4>1. u = t /\ i \in tick[t].queue /\ i \in Jobs
        BY <1>0, <2>1, <2>6, <3>6
      <4>2. ran[i] = 0 /\ PastIn(store, i) /\ PastIn(disk, i)
        BY <2>5, <4>1
      <4>3. ran'[i] # 0 => i = j
        BY <3>3, <4>1, <4>2
      <4> QED
        BY <3>2, <4>1, <4>2, <4>3
    <3> QED
      BY <2>1, <2>2, <2>4, <3>4, <3>5, <3>6 DEF RanIsOver
  <2> QED
    BY <2>1, <2>7, <2>8
<1>7. ASSUME NEW t \in Ticks, Delivered(t) PROVE RanIsOver'
  <2> DEFINE j    == NextOf(tick[t].queue)
             rest == tick[t].queue \ {j}
             jobs == AfterRun(t, j)
  <2>1. /\ tick[t].pc = "deliver" /\ j \in 1 .. Len(added)
        /\ store' = jobs /\ Sound(store', now, added)
        /\ \/ Ended(t, tick, jobs)
           \/ /\ tick' = [tick EXCEPT ![t] = Begin(tick[t], rest)]
              /\ UNCHANGED <<disk, timer, timerActive, worst>>
        /\ UNCHANGED <<now, running, added, ran>>
    BY <1>7, Delivering
  <2>2. timerActive /\ \A u \in Ticks : Runs(tick[u]) => u = t
    BY <2>1 DEF OneRuns, Runs
  <2>3. \A i \in OneTime : /\ PastIn(store, i) => PastIn(jobs, i)
                           /\ OffIn(store, i) => OffIn(jobs, i)
                           /\ i = j => OffIn(jobs, i)
    <3>1. ASSUME NEW i \in OneTime, i \in DOMAIN jobs
          PROVE  i # j /\ i \in DOMAIN store /\ jobs[i] = store[i]
      <4>1. added[i] = "at"
        BY DEF OneTime
      <4> QED
        BY <3>1, <4>1 DEF AfterRun, Without
    <3> QED
      BY <3>1 DEF PastIn, OffIn
  <2>4. rest \in SUBSET Jobs /\ NextIsNatural(jobs)
    BY <1>0, <2>1, SoundIsNatural DEF TicksSound, TickRec
  <2>5. ASSUME NEW i \in OneTime, ran[i] # 0
        PROVE  ran[i] = 1 /\ PastIn(jobs, i) /\ OffIn(jobs, i) /\ PastIn(disk, i)
    <3>1. OffIn(store, i) \/ \E u \in Ticks : InDelivery(u, i)
      BY <2>2, <2>5 DEF RanIsOver
    <3>2. \A u \in Ticks : InDelivery(u, i) => i = j
      BY <2>2 DEF InDelivery, Runs
    <3> QED
      BY <2>3, <2>5, <3>1, <3>2 DEF RanIsOver
  <2>6. ASSUME NEW i \in OneTime, i \in rest
        PROVE  ran[i] = 0 /\ PastIn(jobs, i) /\ PastIn(disk, i)
    BY <2>1, <2>3, <2>6 DEF RanIsOver, Runs, InDelivery
  <2> HIDE DEF j, rest, jobs
  <2>7. CASE Ended(t, tick, jobs)
    <3>1. NoneRuns'
      BY <1>0, <2>2, <2>4, <2>7, EndedAtRest
    <3>2. disk' = jobs
      BY <2>7 DEF Ended, Changed, Failed
    <3>3. \A i \in OneTime' : ran[i] # 0 =>
             i \in OneTime /\ PastIn(jobs, i) /\ (running' => OffIn(jobs, i))
      BY <2>1, <2>5 DEF OneTime
    <3> QED
      BY <1>0, <2>1, <3>1, <3>2, <3>3, SavedIsOver
  <2>8. CASE /\ tick' = [tick EXCEPT ![t] = Begin(tick[t], rest)]
             /\ UNCHANGED <<disk, timerActive>>
    <3>1. Begin(tick[t], rest).queue = rest
      BY <1>0, <2>4, BegunIsOnDuty
    <3>2. tick'[t].queue = rest /\ \A u \in Ticks : Runs(tick'[u]) => u = t
      BY <1>0, <2>2, <2>8, <3>1
    <3>3. OneTime' = OneTime /\ \A i : /\ PastIn(store, i)' <=> PastIn(jobs, i)
                                       /\ PastIn(disk, i)' <=> PastIn(disk, i)
                                       /\ OffIn(store, i)' <=> OffIn(jobs, i)
      BY <2>1, <2>8 DEF OneTime, PastIn, OffIn
    <3>4. \A u \in Ticks, i \in OneTime : Runs(tick'[u]) /\ i \in tick'[u].queue =>
             PastIn(jobs, i) /\ PastIn(disk, i) /\ ran[i] = 0
      BY <2>6, <3>2
    <3>5. timerActive'
      BY <2>2, <2>8
    <3> QED
      BY <2>1, <2>5, <3>3, <3>4, <3>5 DEF RanIsOver
  <2> QED
    BY <2>1, <2>7, <2>8
<1>8. ASSUME NEW t \in Ticks, TickCancelled(t) PROVE RanIsOver'
  <2>1. /\ tick[t].pc \in {"connect", "deliver"} /\ tick[t].cancel /\ timerActive' = FALSE
        /\ UNCHANGED <<now, store, disk, running, added, ran>>
    BY <1>8 DEF TickCancelled, history
  <2>2. ~running
    BY <2>1 DEF OneRuns, Runs
  <2>3. NoneRuns'
    BY <2>1 DEF OneRuns, NoneRuns
  <2> QED
    BY <2>1, <2>2, <2>3 DEF RanIsOver, NoneRuns, OneTime, PastIn, OffIn
<1>9. CASE ServiceStops
  <2>1. running' = FALSE /\ UNCHANGED <<now, store, disk, timerActive, added, ran>>
    BY <1>9 DEF ServiceStops, history
  <2>2. \A t \in Ticks : /\ Runs(tick'[t]) => Runs(tick[t]) /\ tick'[t].queue = tick[t].queue
                         /\ \A i : InDelivery(t, i) => InDelivery(t, i)'
    BY <1>9, StoppedRuns DEF InDelivery, Runs
  <2> QED
    BY <2>1, <2>2 DEF RanIsOver, OneTime, PastIn, OffIn
<1>10. CASE Restart
  <2> DEFINE jobs == RecomputeNextRuns(disk)
  <2>1. /\ timerActive' = FALSE
        /\ \/ store' = jobs /\ disk' = jobs
           \/ ~running' /\ store' = None /\ disk' = disk
        /\ UNCHANGED <<now, added, ran>>
    BY <1>10, Booting
  <2>2. NoneRuns'
    BY <2>1 DEF OneRuns, NoneRuns
  <2>3. ASSUME NEW i \in OneTime, ran[i] # 0
        PROVE  PastIn(disk, i) /\ PastIn(jobs, i) /\ OffIn(jobs, i) /\ ran[i] = 1
    BY <1>0, <2>3, RecomputedIsOver DEF RanIsOver
  <2>4. \A i : ~(i \in DOMAIN None)
    BY DEF None
  <2> HIDE DEF jobs
  <2> QED
    BY <2>1, <2>2, <2>3, <2>4 DEF RanIsOver, NoneRuns, OneTime, PastIn, OffIn
<1>11. CASE UserSteps \/ UNCHANGED vars
  <2>1. /\ now' \in {now, now + 1}
        /\ UNCHANGED <<store, disk, running, timerActive, tick, added, ran>>
    BY <1>11 DEF UserSteps, UserTurnBegins, UserTurnEnds, BeginShutdown, Clock, service, vars,
                 history
  <2>2. OneTime' = OneTime /\ \A i : OffIn(store, i)' = OffIn(store, i) /\ OffIn(disk, i)' = OffIn(disk, i)
    BY <2>1 DEF OneTime, OffIn
  <2>3. ASSUME NEW i PROVE /\ PastIn(store, i) => PastIn(store, i)'
                           /\ PastIn(disk, i) => PastIn(disk, i)'
    <3>1. /\ i \in DOMAIN store => store[i].at \in Nat
          /\ i \in DOMAIN disk => disk[i].at \in Nat
      BY <1>0 DEF Sound, Job
    <3> QED
      BY <1>0, <2>1, <3>1 DEF PastIn
  <2>4. \A t \in Ticks : \A i : InDelivery(t, i)' = InDelivery(t, i)
    BY <2>1 DEF InDelivery
  <2> QED
    BY <2>1, <2>2, <2>3, <2>4 DEF RanIsOver
<1> QED
  BY <1>1, <1>2, <1>3, <1>4, <1>5, <1>6, <1>7, <1>8, <1>9, <1>10, <1>11, StepCases

(* plugin.py:184 and service.py:259: as long as the jobs are not changed    *)
(* while one is executed and no write fails, one tick executes at a time,   *)
(* on a frozen store whose job objects it holds, and a one-time job runs at *)
(* most once, over restarts, /stop and shutdown.                            *)
THEOREM ExecutionsAreSingle == Spec => []ExecutedOnce
<1>1. Init => CalmInv
  <2> SUFFICES ASSUME Init PROVE OneRuns /\ RanIsOver
    BY DEF CalmInv
  <2>1. OneRuns
    BY IdleIsQuiet DEF Init, OneRuns
  <2>2. RanIsOver
    BY <2>1, IdleIsQuiet DEF Init, RanIsOver, OneTime, Jobs
  <2> QED
    BY <2>1, <2>2
<1>2. Types /\ WatchInv /\ CalmInv /\ [Next]_vars => CalmInv'
  <2> SUFFICES ASSUME Types, WatchInv, CalmInv, [Next]_vars, worst' < Changed
               PROVE  OneRuns' /\ RanIsOver'
    BY DEF CalmInv
  <2>1. worst < Changed
    BY CalmBefore
  <2>2. OneRuns /\ RanIsOver /\ SleeperIsTimer
    BY <2>1 DEF CalmInv, WatchInv
  <2>3. OneRuns'
    BY <2>1, <2>2, OneRunsStep
  <2> QED
    BY <2>1, <2>2, <2>3, RanStep
<1>3. Spec => []CalmInv
  BY <1>1, <1>2, TypesInvariant, WatchInvariant, PTL DEF Spec
<1>4. Types /\ CalmInv => ExecutedOnce
  <2> SUFFICES ASSUME Types, CalmInv, worst < Changed
               PROVE  /\ \A j \in OneTime : ran[j] <= 1
                      /\ \A t \in Ticks : Executing(t) =>
                            /\ timerActive /\ tick[t].fresh
                            /\ \A u \in Ticks : Executing(u) => u = t
    BY DEF ExecutedOnce, RunsOnce, OneExecution
  <2>1. \A t \in Ticks : Executing(t) <=> Runs(tick[t])
    BY DEF Executing, Runs
  <2>2. \A j \in OneTime : ran[j] \in 0 .. 2
    BY AddedAreJobs DEF Types, ClockTypes, OneTime
  <2> QED
    BY <2>1, <2>2 DEF CalmInv, OneRuns, RanIsOver
<1> QED
  BY <1>3, <1>4, TypesInvariant, PTL
=============================================================================
