----------------------------- MODULE UserMutex -----------------------------
(***************************************************************************)
(* What LockManager.acquire promises to its callers, and nothing of how:   *)
(* the tasks between "yield" and the end of the "async with" body never    *)
(* include two of one user, and never more than MaxConcurrent of them when *)
(* a global limit is configured (NANOBEE_MAX_CONCURRENT_REQUESTS > 0).     *)
(***************************************************************************)
EXTENDS Naturals, FiniteSets

CONSTANTS Task,          \* asyncio tasks that process a message
          User,          \* storage keys (InboundMessage.context_id)
          owner,         \* owner[t] is the user whose message t processes
          MaxConcurrent  \* size of the global gate; 0 means no gate

VARIABLE inside          \* the tasks inside the critical section

SameUser(s, t) == owner[s] = owner[t]

Init == inside = {}

Enter(t) == 
    /\ t \notin inside
    /\ \A s \in inside : ~SameUser(s, t)
    /\ MaxConcurrent > 0 => Cardinality(inside) < MaxConcurrent
    /\ inside' = inside \cup {t}

Leave(t) == 
    /\ t \in inside
    /\ inside' = inside \ {t}

Next == \E t \in Task : Enter(t) \/ Leave(t)

Spec == Init /\ [][Next]_inside
=============================================================================
