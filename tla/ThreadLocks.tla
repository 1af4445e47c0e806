------------------------------ MODULE ThreadLocks ------------------------------
(***************************************************************************)
(* The table of asyncio.Lock objects of api/thread_locks.py, in one worker *)
(* process. The event loop runs one coroutine at a time, so each action is *)
(* what a caller does between two awaits.                                  *)
(*                                                                         *)
(* A lock is named by the caller that created it. What PlanService calls   *)
(* the worker's mutex is this table seen from a single thread id.          *)
(***************************************************************************)
EXTENDS Naturals, Sequences, FiniteSets

CONSTANTS
    None,
    Callers,      \* coroutines that enter "async with thread_lock(...)" once
    Threads,
    ThreadOf,     \* the thread id each caller asks for
    MaxTracked    \* _MAX_TRACKED

ASSUME LocksAssumption ==
    /\ None \notin Callers
    /\ ThreadOf \in [Callers -> Threads]
    /\ MaxTracked \in Nat

VARIABLES
    pc,        \* per caller: "idle", "waiting", "inside" or "left"
    lock,      \* the lock object the caller holds a reference to
    table,     \* _locks: per thread, its lock or None
    locked,    \* per lock, asyncio.Lock._locked
    waiters,   \* per lock, asyncio.Lock._waiters in the order they came
    dropped    \* history: whether a lock was dropped that somebody waited for

vars == <<pc, lock, table, locked, waiters, dropped>>

TypeOK ==
    /\ pc \in [Callers -> {"idle", "waiting", "inside", "left"}]
    /\ lock \in [Callers -> Callers \cup {None}]
    /\ table \in [Threads -> Callers \cup {None}]
    /\ locked \in [Callers -> BOOLEAN]
    /\ waiters \in [Callers -> Seq(Callers)]
    /\ dropped \in BOOLEAN

Init ==
    /\ pc = [c \in Callers |-> "idle"]
    /\ lock = [c \in Callers |-> None]
    /\ table = [x \in Threads |-> None]
    /\ locked = [c \in Callers |-> FALSE]
    /\ waiters = [c \in Callers |-> <<>>]
    /\ dropped = FALSE

InFlight(c) == pc[c] \in {"waiting", "inside"}
Tracked == {x \in Threads : table[x] # None}

\* Mutant: every caller makes a lock and stores it.
LockForFresh(c) == c

\* _lock_for: the thread's lock, or a new one.
LockFor(c) == IF table[ThreadOf[c]] # None THEN table[ThreadOf[c]] ELSE c

\* Lock.acquire succeeds at once only when nobody holds the lock or queues for it.
Free(l) == ~locked[l] /\ waiters[l] = <<>>

\* thread_lock() and __aenter__, up to the first await.
Enter(c) ==
    /\ pc[c] = "idle"
    /\ LET l == LockFor(c)
       IN  /\ lock' = [lock EXCEPT ![c] = l]
           /\ table' = [table EXCEPT ![ThreadOf[c]] = l]
           /\ IF Free(l)
              THEN /\ locked' = [locked EXCEPT ![l] = TRUE]
                   /\ pc' = [pc EXCEPT ![c] = "inside"]
                   /\ UNCHANGED waiters
              ELSE /\ waiters' = [waiters EXCEPT ![l] = Append(@, c)]
                   /\ pc' = [pc EXCEPT ![c] = "waiting"]
                   /\ UNCHANGED locked
    /\ UNCHANGED dropped

\* The first waiter of a released lock resumes and takes it.
Wake(c) ==
    /\ pc[c] = "waiting"
    /\ ~locked[lock[c]]
    /\ waiters[lock[c]] # <<>> /\ Head(waiters[lock[c]]) = c
    /\ locked' = [locked EXCEPT ![lock[c]] = TRUE]
    /\ waiters' = [waiters EXCEPT ![lock[c]] = Tail(@)]
    /\ pc' = [pc EXCEPT ![c] = "inside"]
    /\ UNCHANGED <<lock, table, dropped>>

\* Mutant: the bound is never looked at.
PrunedNever(x, unlocked) == table

\* _release: past the bound, drop the thread's lock if nobody holds it.
Pruned(x, unlocked) ==
    IF Cardinality(Tracked) > MaxTracked /\ table[x] # None /\ ~unlocked[table[x]]
    THEN [table EXCEPT ![x] = None]
    ELSE table

\* Mutant: release() forgets to clear the flag for a lock with waiters.
UnlockedKept(l) == IF waiters[l] = <<>> THEN [locked EXCEPT ![l] = FALSE] ELSE locked

\* Lock.release.
Unlocked(l) == [locked EXCEPT ![l] = FALSE]

\* __aexit__: release the lock, then prune the table.
Leave(c) ==
    /\ pc[c] = "inside"
    /\ locked' = Unlocked(lock[c])
    /\ table' = Pruned(ThreadOf[c], locked')
    /\ dropped' = (dropped \/ \E d \in Callers :
                       d # c /\ InFlight(d) /\ table[ThreadOf[d]] = lock[d]
                             /\ table'[ThreadOf[d]] # lock[d])
    /\ pc' = [pc EXCEPT ![c] = "left"]
    /\ UNCHANGED <<lock, waiters>>

Terminated ==
    /\ \A c \in Callers : pc[c] = "left"
    /\ UNCHANGED vars

Next ==
    \/ \E c \in Callers : Enter(c) \/ Wake(c) \/ Leave(c)
    \/ Terminated

Spec == Init /\ [][Next]_vars

\* The event loop runs every coroutine that is ready, and a handler inside the
\* lock ends: the model client's own timeout bounds it.
FairSpec == Spec /\ \A c \in Callers : WF_vars(Wake(c)) /\ WF_vars(Leave(c))

-----------------------------------------------------------------------------
(* Properties *)

\* api/thread_locks.py: "dropping a free lock is safe, because the next caller
\* simply makes a new one". One thread id, one caller inside. It does not hold when a
\* dropped lock is one whose next holder has been woken.
Exclusion ==
    \A c, d \in Callers :
        pc[c] = "inside" /\ pc[d] = "inside" /\ ThreadOf[c] = ThreadOf[d] => c = d

\* The lock is exclusive per thread id for as long as no lock has been dropped
\* between its release and the waiter that the release woke.
ExclusionUnlessDropped == ~dropped => Exclusion

\* "a long-running process cannot accumulate a lock per thread it has ever
\* seen": past the bound only threads somebody is on are tracked.
TableBounded ==
    Cardinality(Tracked) <= MaxTracked + Cardinality({ThreadOf[c] : c \in {d \in Callers : InFlight(d)}})

\* Whoever waits gets in, also when the lock it waits for has left the table.
EveryCallerGetsIn ==
    \A c \in Callers : pc[c] = "waiting" ~> pc[c] = "inside"
=============================================================================
