--------------------------- MODULE ThreadLocksProofs ---------------------------
(***************************************************************************)
(* Proof that the table of locks keeps one caller per thread id inside, for*)
(* any number of callers and any bound, until it drops a lock somebody     *)
(* waits for; that below the bound it never drops one; and that past the   *)
(* bound it tracks nothing but threads somebody is on.                     *)
(***************************************************************************)
EXTENDS ThreadLocks, FiniteSetTheorems, TLAPS

\* Until a lock in use is dropped, everybody on a thread refers to the lock in
\* the table, and that lock's flag says whether one of them is inside.
LockInv ==
    /\ \A c \in Callers : InFlight(c) => lock[c] \in Callers
    /\ \A x \in Threads : table[x] # None => pc[table[x]] # "idle" /\ ThreadOf[table[x]] = x
    /\ \A c \in Callers : InFlight(c) => table[ThreadOf[c]] = lock[c]
    /\ \A c \in Callers : pc[c] = "inside" => locked[lock[c]]

IInv == TypeOK /\ (~dropped => LockInv /\ Exclusion)

LEMMA InitIInv == Init => IInv
<1> SUFFICES ASSUME Init PROVE IInv
  OBVIOUS
<1>1. waiters \in [Callers -> Seq(Callers)]
  <2>1. <<>> \in Seq(Callers)
    OBVIOUS
  <2> QED
    BY <2>1 DEF Init
<1>2. TypeOK
  BY <1>1 DEF Init, TypeOK
<1>3. LockInv /\ Exclusion
  BY DEF Init, LockInv, Exclusion, InFlight
<1> QED
  BY <1>2, <1>3 DEF IInv

LEMMA TypeStep == TypeOK /\ [Next]_vars => TypeOK'
<1> SUFFICES ASSUME TypeOK, [Next]_vars PROVE TypeOK'
  OBVIOUS
<1> USE LocksAssumption DEF TypeOK
<1>1. ASSUME NEW c \in Callers, Enter(c) PROVE TypeOK'
  <2> DEFINE l == LockFor(c)
  <2>1. l \in Callers
    BY DEF LockFor
  <2> HIDE DEF l
  <2>2. /\ lock' = [lock EXCEPT ![c] = l]
        /\ table' = [table EXCEPT ![ThreadOf[c]] = l]
        /\ dropped' = dropped
    BY <1>1 DEF Enter, l
  <2>3. /\ locked' = locked \/ locked' = [locked EXCEPT ![l] = TRUE]
        /\ waiters' = waiters \/ waiters' = [waiters EXCEPT ![l] = Append(@, c)]
        /\ pc' = [pc EXCEPT ![c] = "inside"] \/ pc' = [pc EXCEPT ![c] = "waiting"]
    BY <1>1 DEF Enter, l
  <2>4. waiters' \in [Callers -> Seq(Callers)]
    <3>1. Append(waiters[l], c) \in Seq(Callers)
      BY <2>1
    <3>2. waiters' = waiters \/ waiters' = [waiters EXCEPT ![l] = Append(waiters[l], c)]
      BY <2>3
    <3> QED
      BY <2>1, <3>1, <3>2
  <2>5. locked' \in [Callers -> BOOLEAN]
    BY <2>1, <2>3
  <2> QED
    BY <2>1, <2>2, <2>3, <2>4, <2>5
<1>2. ASSUME NEW c \in Callers, Wake(c) PROVE TypeOK'
  <2>1. lock[c] \in Callers \/ waiters' = waiters
    BY <1>2 DEF Wake
  <2>2. waiters' \in [Callers -> Seq(Callers)]
    <3>1. CASE lock[c] \in Callers
      <4>1. Tail(waiters[lock[c]]) \in Seq(Callers)
        BY <1>2, <3>1 DEF Wake
      <4>2. waiters' = [waiters EXCEPT ![lock[c]] = Tail(waiters[lock[c]])]
        BY <1>2 DEF Wake
      <4> QED
        BY <3>1, <4>1, <4>2
    <3> QED
      BY <2>1, <3>1
  <2>3. locked' \in [Callers -> BOOLEAN]
    BY <1>2 DEF Wake
  <2> QED
    BY <1>2, <2>2, <2>3 DEF Wake
<1>3. ASSUME NEW c \in Callers, Leave(c) PROVE TypeOK'
  <2>1. table' \in [Threads -> Callers \cup {None}]
    BY <1>3 DEF Leave, Pruned
  <2>2. dropped' \in BOOLEAN
    BY <1>3 DEF Leave
  <2> QED
    BY <1>3, <2>1, <2>2 DEF Leave, Unlocked
<1>4. CASE UNCHANGED vars
  BY <1>4 DEF vars
<1> QED
  BY <1>1, <1>2, <1>3, <1>4 DEF Next, Terminated

LEMMA EnterInv ==
    ASSUME TypeOK, LockInv, Exclusion, NEW c \in Callers, Enter(c)
    PROVE  LockInv' /\ Exclusion'
<1> USE LocksAssumption DEF TypeOK, InFlight
<1> DEFINE l == LockFor(c)
           x == ThreadOf[c]
<1>1. l \in Callers /\ x \in Threads
  BY DEF LockFor
<1>2. \A d \in Callers : InFlight(d) /\ ThreadOf[d] = x => lock[d] = l
  BY DEF LockInv, LockFor
<1>3. l = c \/ (pc[l] # "idle" /\ ThreadOf[l] = x)
  BY DEF LockFor, LockInv
<1> HIDE DEF l
<1>4. /\ pc[c] = "idle"
      /\ lock' = [lock EXCEPT ![c] = l]
      /\ table' = [table EXCEPT ![x] = l]
      /\ \/ /\ ~locked[l]
            /\ locked' = [locked EXCEPT ![l] = TRUE]
            /\ pc' = [pc EXCEPT ![c] = "inside"]
         \/ locked' = locked /\ pc' = [pc EXCEPT ![c] = "waiting"]
  BY DEF Enter, Free, l
<1>5. \A d \in Callers : pc[d] = "inside" /\ ThreadOf[d] = x => locked[l]
  BY <1>2 DEF LockInv
<1>6. Exclusion'
  <2>1. CASE locked' = locked /\ pc' = [pc EXCEPT ![c] = "waiting"]
    <3>1. \A d \in Callers : pc'[d] = "inside" => pc[d] = "inside"
      BY <2>1
    <3> QED
      BY <3>1 DEF Exclusion
  <2>2. CASE ~locked[l] /\ pc' = [pc EXCEPT ![c] = "inside"]
    <3>1. \A d \in Callers : pc'[d] = "inside" => d = c \/ pc[d] = "inside"
      BY <2>2
    <3>2. \A d \in Callers : pc[d] = "inside" => ThreadOf[d] # x
      BY <1>5, <2>2
    <3> QED
      BY <3>1, <3>2 DEF Exclusion
  <2> QED
    BY <1>4, <2>1, <2>2
<1>7. \A y \in Threads : table'[y] # None => (pc[table[y]] # "idle" /\ table'[y] = table[y] /\ y # x)
                                              \/ (y = x /\ table'[y] = l)
  BY <1>1, <1>4 DEF LockInv
<1>8. \A y \in Threads : table'[y] # None => pc'[table'[y]] # "idle" /\ ThreadOf[table'[y]] = y
  BY <1>1, <1>3, <1>4, <1>7 DEF LockInv
<1>9. \A d \in Callers : InFlight(d)' => /\ lock'[d] \in Callers
                                         /\ table'[ThreadOf[d]] = lock'[d]
  <2>1. ASSUME NEW d \in Callers, InFlight(d)', d # c
        PROVE  lock'[d] \in Callers /\ table'[ThreadOf[d]] = lock'[d]
    <3>1. InFlight(d) /\ lock'[d] = lock[d]
      BY <1>4, <2>1
    <3>2. CASE ThreadOf[d] = x
      BY <1>1, <1>2, <1>4, <3>1, <3>2
    <3>3. CASE ThreadOf[d] # x
      BY <1>4, <3>1, <3>3 DEF LockInv
    <3> QED
      BY <3>2, <3>3
  <2>2. lock'[c] \in Callers /\ table'[ThreadOf[c]] = lock'[c]
    BY <1>1, <1>4
  <2> QED
    BY <2>1, <2>2
<1>10. \A d \in Callers : pc'[d] = "inside" => locked'[lock'[d]]
  <2>1. ASSUME NEW d \in Callers, pc'[d] = "inside", d # c
        PROVE  locked'[lock'[d]]
    <3>1. pc[d] = "inside" /\ lock'[d] = lock[d]
      BY <1>4, <2>1
    <3>2. lock[d] \in Callers /\ locked[lock[d]]
      BY <3>1 DEF LockInv
    <3> QED
      BY <1>4, <3>1, <3>2
  <2>2. ASSUME pc'[c] = "inside"
        PROVE  locked'[lock'[c]]
    <3>1. locked' = [locked EXCEPT ![l] = TRUE] /\ lock'[c] = l
      BY <1>4, <2>2
    <3> QED
      BY <1>1, <3>1
  <2> QED
    BY <2>1, <2>2
<1> QED
  BY <1>6, <1>8, <1>9, <1>10 DEF LockInv

LEMMA WakeInv ==
    ASSUME TypeOK, LockInv, Exclusion, NEW c \in Callers, Wake(c)
    PROVE  LockInv' /\ Exclusion'
<1> USE LocksAssumption DEF TypeOK, InFlight
<1>1. \A d \in Callers : ~(pc[d] = "inside" /\ ThreadOf[d] = ThreadOf[c])
  BY DEF LockInv, Wake
<1>2. Exclusion'
  <2>1. pc' = [pc EXCEPT ![c] = "inside"]
    BY DEF Wake
  <2> QED
    BY <1>1, <2>1 DEF Exclusion
<1>3. lock[c] \in Callers
  BY DEF LockInv, Wake
<1>4. LockInv'
  BY <1>3 DEF LockInv, Wake
<1> QED
  BY <1>2, <1>4

LEMMA LeaveInv ==
    ASSUME TypeOK, LockInv, Exclusion, NEW c \in Callers, Leave(c), ~dropped'
    PROVE  LockInv' /\ Exclusion'
<1> USE LocksAssumption DEF TypeOK, InFlight
<1> DEFINE l == lock[c]
           x == ThreadOf[c]
<1>1. /\ pc[c] = "inside"
      /\ pc' = [pc EXCEPT ![c] = "left"]
      /\ lock' = lock
      /\ locked' = [locked EXCEPT ![l] = FALSE]
  BY DEF Leave, Unlocked
<1>2. table' = table \/ table' = [table EXCEPT ![x] = None]
  BY DEF Leave, Pruned
<1>3. l \in Callers /\ table[x] = l /\ ThreadOf[l] = x
  BY <1>1 DEF LockInv
<1>4. \A d \in Callers : d # c /\ pc[d] = "inside" => lock[d] # l
  BY <1>1, <1>3 DEF LockInv, Exclusion
<1>5. \A d \in Callers : d # c /\ InFlight(d) => table'[ThreadOf[d]] = lock[d]
  <2>1. ~ \E d \in Callers : d # c /\ InFlight(d) /\ table[ThreadOf[d]] = lock[d]
                             /\ table'[ThreadOf[d]] # lock[d]
    BY DEF Leave
  <2> QED
    BY <2>1 DEF LockInv
<1>6. \A d \in Callers : InFlight(d)' => d # c /\ InFlight(d)
  BY <1>1
<1>7. \A y \in Threads : table'[y] # None => table'[y] = table[y]
  BY <1>2
<1>8. LockInv'
  BY <1>1, <1>4, <1>5, <1>6, <1>7 DEF LockInv
<1>9. Exclusion'
  BY <1>1 DEF Exclusion
<1> QED
  BY <1>8, <1>9

LEMMA StepIInv == IInv /\ [Next]_vars => IInv'
<1> SUFFICES ASSUME IInv, [Next]_vars, ~dropped' PROVE LockInv' /\ Exclusion'
  BY TypeStep DEF IInv
<1>1. ~dropped
  BY DEF Next, vars, Enter, Wake, Leave, Terminated
<1>2. TypeOK /\ LockInv /\ Exclusion
  BY <1>1 DEF IInv
<1>3. CASE UNCHANGED vars
  BY <1>2, <1>3 DEF vars, LockInv, Exclusion, InFlight
<1> QED
  BY <1>2, <1>3, EnterInv, WakeInv, LeaveInv DEF Next, Terminated

\* One caller per thread id is inside for as long as no lock has been dropped
\* between its release and the waiter it woke.
THEOREM LockIsExclusive == Spec => []ExclusionUnlessDropped
<1>1. Spec => []IInv
  BY InitIInv, StepIInv, PTL DEF Spec
<1>2. IInv => ExclusionUnlessDropped
  BY DEF IInv, ExclusionUnlessDropped
<1> QED
  BY <1>1, <1>2, PTL

(***************************************************************************)
(* Below the bound nothing is dropped.                                     *)
(***************************************************************************)

LEMMA NothingDroppedStep ==
    ASSUME IsFiniteSet(Threads), Cardinality(Threads) <= MaxTracked,
           ~dropped, [Next]_vars
    PROVE  ~dropped'
<1>1. Cardinality(Tracked) <= Cardinality(Threads)
      /\ Cardinality(Tracked) \in Nat /\ Cardinality(Threads) \in Nat
  BY FS_Subset, FS_CardinalityType DEF Tracked
<1>2. ~(Cardinality(Tracked) > MaxTracked)
  BY <1>1, LocksAssumption
<1>3. ASSUME NEW c \in Callers, Leave(c) PROVE ~dropped'
  <2>1. table' = table
    BY <1>2, <1>3 DEF Leave, Pruned
  <2> QED
    BY <1>3, <2>1 DEF Leave
<1> QED
  BY <1>3 DEF Next, vars, Enter, Wake, Terminated

\* A process that has seen no more thread ids than it tracks resumes one
\* acknowledgement of a thread at a time.
THEOREM ExclusiveBelowBound ==
    ASSUME IsFiniteSet(Threads), Cardinality(Threads) <= MaxTracked
    PROVE  Spec => []Exclusion
<1>1. Init => ~dropped
  BY DEF Init
<1>2. ~dropped /\ [Next]_vars => ~dropped'
  BY NothingDroppedStep
<1>3. ~dropped /\ ExclusionUnlessDropped => Exclusion
  BY DEF ExclusionUnlessDropped
<1> QED
  BY <1>1, <1>2, <1>3, LockIsExclusive, PTL DEF Spec

(***************************************************************************)
(* The size of the table, dropped locks or not. A lock that is held is held*)
(* by a caller inside on the thread it was made for, so an entry that is   *)
(* not pruned past the bound is one whose thread somebody is still on.     *)
(***************************************************************************)

Attended == {ThreadOf[c] : c \in {d \in Callers : InFlight(d)}}
Unattended == Tracked \ Attended

HolderInv ==
    /\ \A x \in Threads : table[x] # None => ThreadOf[table[x]] = x
    /\ \A c \in Callers : InFlight(c) => lock[c] \in Callers /\ ThreadOf[lock[c]] = ThreadOf[c]
    /\ \A l \in Callers : locked[l] => \E d \in Callers : pc[d] = "inside" /\ lock[d] = l

SizeInv ==
    /\ IsFiniteSet(Tracked)
    /\ IsFiniteSet(Attended)
    /\ Cardinality(Unattended) <= MaxTracked

BInv == TypeOK /\ HolderInv /\ SizeInv

LEMMA InitBInv == Init => BInv
<1> SUFFICES ASSUME Init PROVE HolderInv /\ SizeInv
  BY InitIInv DEF BInv, IInv
<1>1. HolderInv
  BY DEF Init, HolderInv, InFlight
<1>2. Tracked = {} /\ Attended = {} /\ Unattended = {}
  BY DEF Init, Tracked, Attended, Unattended, InFlight
<1> QED
  BY <1>1, <1>2, FS_EmptySet, LocksAssumption DEF SizeInv

LEMMA HolderStep ==
    ASSUME TypeOK, HolderInv, [Next]_vars
    PROVE  HolderInv'
<1> USE LocksAssumption DEF TypeOK, InFlight
<1>1. CASE UNCHANGED vars
  BY <1>1 DEF vars, HolderInv
<1>2. ASSUME NEW c \in Callers, Enter(c) PROVE HolderInv'
  <2> DEFINE l == LockFor(c)
             x == ThreadOf[c]
  <2>1. l \in Callers /\ x \in Threads /\ ThreadOf[l] = x
    BY DEF LockFor, HolderInv
  <2> HIDE DEF l
  <2>2. /\ pc[c] = "idle"
        /\ lock' = [lock EXCEPT ![c] = l]
        /\ table' = [table EXCEPT ![x] = l]
        /\ \/ /\ locked' = [locked EXCEPT ![l] = TRUE]
              /\ pc' = [pc EXCEPT ![c] = "inside"]
           \/ locked' = locked /\ pc' = [pc EXCEPT ![c] = "waiting"]
    BY <1>2 DEF Enter, l
  <2>3. \A y \in Threads : table'[y] # None => ThreadOf[table'[y]] = y
    BY <2>1, <2>2 DEF HolderInv
  <2>4. \A d \in Callers : InFlight(d)' => lock'[d] \in Callers /\ ThreadOf[lock'[d]] = ThreadOf[d]
    BY <2>1, <2>2 DEF HolderInv
  <2>5. ASSUME NEW k \in Callers, locked'[k]
        PROVE  \E d \in Callers : pc'[d] = "inside" /\ lock'[d] = k
    <3>1. CASE locked[k]
      <4>1. PICK d \in Callers : pc[d] = "inside" /\ lock[d] = k
        BY <3>1 DEF HolderInv
      <4> QED
        BY <2>2, <4>1
    <3>2. CASE ~locked[k]
      <4>1. k = l /\ pc'[c] = "inside" /\ lock'[c] = l
        BY <2>1, <2>2, <2>5, <3>2
      <4> QED
        BY <4>1
    <3> QED
      BY <3>1, <3>2
  <2> QED
    BY <2>3, <2>4, <2>5 DEF HolderInv
<1>3. ASSUME NEW c \in Callers, Wake(c) PROVE HolderInv'
  <2>1. /\ pc[c] = "waiting" /\ lock[c] \in Callers
        /\ locked' = [locked EXCEPT ![lock[c]] = TRUE]
        /\ pc' = [pc EXCEPT ![c] = "inside"]
        /\ lock' = lock /\ table' = table
    BY <1>3 DEF Wake, HolderInv
  <2>2. ASSUME NEW k \in Callers, locked'[k]
        PROVE  \E d \in Callers : pc'[d] = "inside" /\ lock'[d] = k
    <3>1. CASE k = lock[c]
      BY <2>1, <3>1
    <3>2. CASE k # lock[c]
      <4>1. PICK d \in Callers : pc[d] = "inside" /\ lock[d] = k
        BY <2>1, <2>2, <3>2 DEF HolderInv
      <4> QED
        BY <2>1, <4>1
    <3> QED
      BY <3>1, <3>2
  <2> QED
    BY <2>1, <2>2 DEF HolderInv
<1>4. ASSUME NEW c \in Callers, Leave(c) PROVE HolderInv'
  <2>1. /\ pc[c] = "inside" /\ lock[c] \in Callers
        /\ locked' = [locked EXCEPT ![lock[c]] = FALSE]
        /\ pc' = [pc EXCEPT ![c] = "left"]
        /\ lock' = lock
        /\ table' = table \/ table' = [table EXCEPT ![ThreadOf[c]] = None]
    BY <1>4 DEF Leave, Unlocked, Pruned, HolderInv
  <2>2. ASSUME NEW k \in Callers, locked'[k]
        PROVE  \E d \in Callers : pc'[d] = "inside" /\ lock'[d] = k
    <3>1. k # lock[c] /\ locked[k]
      BY <2>1, <2>2
    <3>2. PICK d \in Callers : pc[d] = "inside" /\ lock[d] = k
      BY <3>1 DEF HolderInv
    <3> QED
      BY <2>1, <3>1, <3>2
  <2>3. \A y \in Threads : table'[y] # None => ThreadOf[table'[y]] = y
    BY <2>1 DEF HolderInv
  <2>4. \A d \in Callers : InFlight(d)' => lock'[d] \in Callers /\ ThreadOf[lock'[d]] = ThreadOf[d]
    BY <2>1 DEF HolderInv
  <2> QED
    BY <2>2, <2>3, <2>4 DEF HolderInv
<1> QED
  BY <1>1, <1>2, <1>3, <1>4 DEF Next, Terminated

\* A smaller set of unattended threads stays within the bound.
LEMMA SizeKept ==
    ASSUME SizeInv, NEW x, Tracked' \subseteq Tracked \cup {x},
           Attended' \subseteq Attended \cup {x}, Unattended' \subseteq Unattended
    PROVE  SizeInv'
<1>1. IsFiniteSet(Tracked') /\ IsFiniteSet(Attended')
  BY FS_AddElement, FS_Subset DEF SizeInv
<1>2. IsFiniteSet(Unattended) /\ Cardinality(Unattended) <= MaxTracked
  BY FS_Subset DEF SizeInv, Unattended
<1>3. /\ Cardinality(Unattended') <= Cardinality(Unattended)
      /\ Cardinality(Unattended) \in Nat /\ Cardinality(Unattended') \in Nat
  BY <1>2, FS_Subset, FS_CardinalityType
<1> QED
  BY <1>1, <1>2, <1>3, LocksAssumption DEF SizeInv

LEMMA SizeStep ==
    ASSUME TypeOK, HolderInv, SizeInv, [Next]_vars
    PROVE  SizeInv'
<1> USE LocksAssumption
<1>1. CASE UNCHANGED vars
  BY <1>1, SizeKept DEF vars, Tracked, Attended, Unattended, InFlight
<1>2. ASSUME NEW c \in Callers, Enter(c) PROVE SizeInv'
  <2> DEFINE x == ThreadOf[c]
  <2>1. /\ table' = [table EXCEPT ![x] = LockFor(c)] /\ LockFor(c) # None /\ x \in Threads
        /\ \A d \in Callers : InFlight(d)' <=> d = c \/ InFlight(d)
    BY <1>2 DEF Enter, LockFor, InFlight, TypeOK
  <2>2. Tracked' = Tracked \cup {x}
    BY <2>1 DEF Tracked, TypeOK
  <2>3. Attended' = Attended \cup {x}
    BY <2>1 DEF Attended
  <2> QED
    BY <2>2, <2>3, SizeKept DEF Unattended
<1>3. ASSUME NEW c \in Callers, Wake(c) PROVE SizeInv'
  <2>1. /\ table' = table
        /\ \A d \in Callers : InFlight(d)' <=> InFlight(d)
    BY <1>3 DEF Wake, InFlight, TypeOK
  <2>2. Tracked' = Tracked /\ Attended' = Attended
    BY <2>1 DEF Tracked, Attended
  <2> QED
    BY <2>2, SizeKept DEF Unattended
<1>4. ASSUME NEW c \in Callers, Leave(c) PROVE SizeInv'
  <2> DEFINE x == ThreadOf[c]
  <2>0. \A d \in Callers : InFlight(d)' <=> (d # c /\ InFlight(d))
    <3>1. pc' = [pc EXCEPT ![c] = "left"]
      BY <1>4 DEF Leave
    <3> QED
      BY <3>1 DEF InFlight, TypeOK
  <2>1. /\ pc[c] = "inside" /\ x \in Threads
        /\ \A d \in Callers : InFlight(d)' <=> (d # c /\ InFlight(d))
        /\ locked' = Unlocked(lock[c]) /\ table' = Pruned(x, locked')
    BY <1>4, <2>0 DEF Leave, TypeOK
  <2>2. Attended' \subseteq Attended /\ Attended \subseteq Attended' \cup {x}
    BY <2>1 DEF Attended
  <2>3. Tracked' \subseteq Tracked
    BY <2>1 DEF Tracked, Pruned, TypeOK
  <2>4. CASE Cardinality(Tracked) <= MaxTracked
    <3>1. IsFiniteSet(Tracked) /\ Unattended' \subseteq Tracked
      BY <2>3 DEF SizeInv, Unattended
    <3>2. /\ Cardinality(Unattended') <= Cardinality(Tracked)
          /\ Cardinality(Unattended') \in Nat /\ Cardinality(Tracked) \in Nat
      BY <3>1, FS_Subset, FS_CardinalityType
    <3>3. IsFiniteSet(Tracked') /\ IsFiniteSet(Attended')
      BY <2>2, <2>3, FS_Subset DEF SizeInv
    <3> QED
      BY <2>4, <3>2, <3>3 DEF SizeInv
  <2>5. CASE ~(Cardinality(Tracked) <= MaxTracked)
    <3>1. Cardinality(Tracked) > MaxTracked
      BY <2>5, FS_CardinalityType DEF SizeInv
    \* The thread keeps its entry only if somebody else is on it.
    <3>2. x \notin Tracked' \/ x \in Attended'
      <4>1. CASE table[x] = None \/ ~locked'[table[x]]
        BY <2>1, <3>1, <4>1 DEF Tracked, Pruned, TypeOK
      <4>2. CASE table[x] # None /\ locked'[table[x]]
        <5>1. table[x] \in Callers /\ table[x] # lock[c] /\ locked[table[x]]
          BY <2>1, <4>2 DEF Unlocked, HolderInv, InFlight, TypeOK
        <5>2. PICK d \in Callers : pc[d] = "inside" /\ lock[d] = table[x]
          BY <5>1 DEF HolderInv
        <5>3. d # c /\ InFlight(d) /\ ThreadOf[d] = x
          BY <2>1, <4>2, <5>1, <5>2 DEF HolderInv, InFlight
        <5> QED
          BY <2>1, <5>3 DEF Attended
      <4> QED
        BY <4>1, <4>2
    <3>3. Unattended' \subseteq Unattended
      BY <2>2, <2>3, <3>2 DEF Unattended
    <3> QED
      BY <2>2, <2>3, <3>3, SizeKept
  <2> QED
    BY <2>4, <2>5
<1> QED
  BY <1>1, <1>2, <1>3, <1>4 DEF Next, Terminated

LEMMA StepBInv == BInv /\ [Next]_vars => BInv'
BY TypeStep, HolderStep, SizeStep DEF BInv

\* The table does not grow with the threads a worker has ever seen: past the bound
\* it tracks no more threads than there are callers on, also once it has dropped a
\* lock that somebody waits for.
THEOREM TableStaysBounded == Spec => []TableBounded
<1>1. Spec => []BInv
  BY InitBInv, StepBInv, PTL DEF Spec
<1>2. BInv => TableBounded
  <2> SUFFICES ASSUME BInv PROVE TableBounded
    OBVIOUS
  <2>1. /\ IsFiniteSet(Tracked) /\ IsFiniteSet(Attended)
        /\ Cardinality(Unattended) <= MaxTracked
    BY DEF BInv, SizeInv
  <2>2. Cardinality(Unattended) = Cardinality(Tracked) - Cardinality(Tracked \cap Attended)
    BY <2>1, FS_Difference DEF Unattended
  <2>3. IsFiniteSet(Tracked \cap Attended)
        /\ Cardinality(Tracked \cap Attended) <= Cardinality(Attended)
    BY <2>1, FS_Subset
  <2>4. /\ Cardinality(Tracked) \in Nat /\ Cardinality(Attended) \in Nat
        /\ Cardinality(Tracked \cap Attended) \in Nat
    BY <2>1, <2>3, FS_CardinalityType
  <2> QED
    BY <2>1, <2>2, <2>3, <2>4, LocksAssumption DEF TableBounded, Attended
<1> QED
  BY <1>1, <1>2, PTL
================================================================================
