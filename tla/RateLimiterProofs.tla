-------------------------- MODULE RateLimiterProofs --------------------------
(***************************************************************************)
(* Proofs about the rate limiters, for any number of requests and of       *)
(* pruners, any budget, window and tick, on either database and in a       *)
(* process.                                                                *)
(*                                                                         *)
(* The argument: whoever decides holds the bucket, so what it read is what *)
(* was admitted inside the window when it read the clock (SeenInv); the    *)
(* bucket holds at most the budget and every admission inside the window   *)
(* that no process has forgotten (PruningForgetsNothing), so the window    *)
(* holds at most the budget. A process decides and writes in one step, and *)
(* needs nobody to hold anything.                                          *)
(***************************************************************************)
EXTENDS RateLimiter, FiniteSetTheorems, TLAPS

HoldInv ==
    /\ \A q \in Requests : pc[q] \in {"locked", "deciding"} => lock = q /\ kind # "memory"
    /\ \A w \in Pruners : pc[w] = "delete" => \A h \in judged[w] : h.at + Window <= clock

TimeInv ==
    /\ \A h \in admitted : h.at <= clock /\ pc[h.id] = "admitted"
    /\ \A q \in Requests : now[q] <= clock

FiniteInv ==
    /\ IsFiniteSet(admitted)
    /\ IsFiniteSet(bucket) /\ Cardinality(bucket) <= MaxRequests

\* What a request that holds the bucket has read is what the window held then, and
\* everything was admitted on an earlier clock.
SeenInv ==
    \A q \in Requests : pc[q] = "deciding" =>
        /\ seen[q] = Counted(now[q])
        /\ Cardinality(seen[q]) <= MaxRequests
        /\ \A h \in admitted : h.at <= now[q]

\* What a refused request has met, and the hit among it that it was told to wait for.
RefusedInv ==
    \A q \in Requests : pc[q] = "refused" =>
        /\ seen[q] \subseteq InWindow(now[q])
        /\ Cardinality(seen[q]) = MaxRequests
        /\ \E oldest \in seen[q] : oldest.at + Window <= now[q] + retryAfter[q] * Second

KeptInv == kind # "memory" => forgotten = {}

IInv ==
    /\ TypeOK
    /\ HoldInv
    /\ TimeInv
    /\ FiniteInv
    /\ SeenInv
    /\ PruningForgetsNothing
    /\ RefusedInv
    /\ KeptInv

LEMMA InitIInv == Init => IInv
<1> SUFFICES ASSUME Init PROVE IInv
  OBVIOUS
<1> USE LimiterAssumption DEF Init
<1>1. TypeOK
  BY DEF TypeOK, Hits
<1>2. IsFiniteSet({}) /\ Cardinality({}) = 0
  BY FS_EmptySet
<1>3. FiniteInv
  BY <1>2 DEF FiniteInv
<1>4. HoldInv /\ TimeInv /\ SeenInv /\ PruningForgetsNothing /\ RefusedInv /\ KeptInv
  BY DEF HoldInv, TimeInv, SeenInv, PruningForgetsNothing, InWindow, Counted, RefusedInv, KeptInv
<1> QED
  BY <1>1, <1>3, <1>4 DEF IInv

\* The seconds a refused client is told to wait cover the time left of the oldest hit.
LEMMA RetryAfterCovers ==
    ASSUME NEW oldest \in Nat, NEW t \in Nat, t < oldest + Window
    PROVE  /\ RetryAfter(oldest, t) \in Nat
           /\ oldest + Window <= t + RetryAfter(oldest, t) * Second
<1> DEFINE left == (oldest + Window) - t
           whole == left \div Second
<1>1. left \in Nat /\ left > 0
  BY LimiterAssumption
<1> HIDE DEF left
<1>2. whole \in Nat /\ left = Second * whole + (left % Second) /\ left % Second < Second
  BY <1>1, LimiterAssumption
<1> HIDE DEF whole
<1>3. RetryAfter(oldest, t) = whole + 1
  BY <1>1, <1>2 DEF RetryAfter, left, whole
<1>4. left <= (whole + 1) * Second
  BY <1>1, <1>2, LimiterAssumption
<1> QED
  BY <1>1, <1>2, <1>3, <1>4, LimiterAssumption DEF left

LEMMA TypeStep == TypeOK /\ [Next]_vars => TypeOK'
<1> SUFFICES ASSUME TypeOK, [Next]_vars PROVE TypeOK'
  OBVIOUS
<1> USE LimiterAssumption DEF TypeOK, Hits
<1>1. ASSUME NEW q \in Requests, Touch(q) PROVE TypeOK'
  BY <1>1 DEF Touch, history, Goto
<1>2. ASSUME NEW q \in Requests, Read(q) PROVE TypeOK'
  BY <1>2 DEF Read, history, Goto, Live
<1>3. ASSUME NEW q \in Requests, Admit(q) PROVE TypeOK'
  BY <1>3 DEF Admit, Goto
<1>4. ASSUME NEW q \in Requests, Refuse(q) PROVE TypeOK'
  <2>1. retryAfter' \in [Requests -> Nat]
    <3>1. PICK oldest \in seen[q] : retryAfter' = [retryAfter EXCEPT ![q] = RetryAfter(oldest.at, now[q])]
      BY <1>4 DEF Refuse
    <3>2. RetryAfter(oldest.at, now[q]) \in Nat
      BY <3>1 DEF RetryAfter
    <3> QED
      BY <3>1, <3>2
  <2> QED
    BY <1>4, <2>1 DEF Refuse, history, Goto
<1>5. ASSUME NEW q \in Requests, Fail(q) PROVE TypeOK'
  BY <1>5 DEF Fail, history, Goto
<1>6. ASSUME NEW w \in Pruners, PruneRead(w) PROVE TypeOK'
  BY <1>6 DEF PruneRead, history, Goto
<1>7. ASSUME NEW w \in Pruners, PruneDelete(w) PROVE TypeOK'
  BY <1>7 DEF PruneDelete, history, Goto
<1>8. CASE Tick
  BY <1>8 DEF Tick, history
<1>9. CASE UNCHANGED vars
  BY <1>9 DEF vars, history
<1>10. ASSUME NEW q \in Requests, AdmitInProcess(q) PROVE TypeOK'
  BY <1>10 DEF AdmitInProcess, Cleared, Live, Goto
<1>11. ASSUME NEW q \in Requests, RefuseInProcess(q) PROVE TypeOK'
  <2>1. retryAfter' \in [Requests -> Nat]
    <3>1. PICK oldest \in Live(bucket, clock) : retryAfter' = [retryAfter EXCEPT ![q] = RetryAfter(oldest.at, clock)]
      BY <1>11 DEF RefuseInProcess
    <3>2. RetryAfter(oldest.at, clock) \in Nat
      BY <3>1 DEF RetryAfter, Live
    <3> QED
      BY <3>1, <3>2
  <2> QED
    BY <1>11, <2>1 DEF RefuseInProcess, Live, Goto, history
<1>12. CASE Evict
  BY <1>12 DEF Evict
<1> QED
  BY <1>1, <1>2, <1>3, <1>4, <1>5, <1>6, <1>7, <1>8, <1>9, <1>10, <1>11, <1>12 DEF Next, AdmitStep, Terminated

LEMMA HoldStep == TypeOK /\ HoldInv /\ [Next]_vars => HoldInv'
<1> SUFFICES ASSUME TypeOK, HoldInv, [Next]_vars PROVE HoldInv'
  OBVIOUS
<1> USE LimiterAssumption DEF TypeOK, Hits
<1>1. ASSUME NEW q \in Requests, Touch(q) PROVE HoldInv'
  BY <1>1 DEF Touch, history, Goto, HoldInv
<1>2. ASSUME NEW q \in Requests, Read(q) PROVE HoldInv'
  BY <1>2 DEF Read, history, Goto, HoldInv
<1>3. ASSUME NEW q \in Requests, Admit(q) PROVE HoldInv'
  BY <1>3 DEF Admit, Goto, HoldInv
<1>4. ASSUME NEW q \in Requests, Refuse(q) PROVE HoldInv'
  BY <1>4 DEF Refuse, history, Goto, HoldInv
<1>5. ASSUME NEW q \in Requests, Fail(q) PROVE HoldInv'
  BY <1>5 DEF Fail, history, Goto, HoldInv
<1>6. ASSUME NEW w \in Pruners, PruneRead(w) PROVE HoldInv'
  BY <1>6 DEF PruneRead, history, Goto, HoldInv
<1>7. ASSUME NEW w \in Pruners, PruneDelete(w) PROVE HoldInv'
  BY <1>7 DEF PruneDelete, history, Goto, HoldInv
<1>8. CASE Tick
  BY <1>8 DEF Tick, history, HoldInv
<1>9. CASE UNCHANGED vars
  BY <1>9 DEF vars, history, HoldInv
<1>10. ASSUME NEW q \in Requests, AdmitInProcess(q) PROVE HoldInv'
  BY <1>10 DEF AdmitInProcess, Goto, HoldInv
<1>11. ASSUME NEW q \in Requests, RefuseInProcess(q) PROVE HoldInv'
  BY <1>11 DEF RefuseInProcess, Goto, HoldInv
<1>12. CASE Evict
  BY <1>12 DEF Evict, HoldInv
<1> QED
  BY <1>1, <1>2, <1>3, <1>4, <1>5, <1>6, <1>7, <1>8, <1>9, <1>10, <1>11, <1>12 DEF Next, AdmitStep, Terminated

LEMMA TimeStep == TypeOK /\ TimeInv /\ [Next]_vars => TimeInv'
<1> SUFFICES ASSUME TypeOK, TimeInv, [Next]_vars PROVE TimeInv'
  OBVIOUS
<1> USE LimiterAssumption DEF TypeOK, Hits
<1>1. ASSUME NEW q \in Requests, Touch(q) PROVE TimeInv'
  BY <1>1 DEF Touch, history, Goto, TimeInv
<1>2. ASSUME NEW q \in Requests, Read(q) PROVE TimeInv'
  BY <1>2 DEF Read, history, Goto, TimeInv
<1>3. ASSUME NEW q \in Requests, Admit(q) PROVE TimeInv'
  BY <1>3 DEF Admit, Goto, TimeInv
<1>4. ASSUME NEW q \in Requests, Refuse(q) PROVE TimeInv'
  BY <1>4 DEF Refuse, history, Goto, TimeInv
<1>5. ASSUME NEW q \in Requests, Fail(q) PROVE TimeInv'
  BY <1>5 DEF Fail, history, Goto, TimeInv
<1>6. ASSUME NEW w \in Pruners, PruneRead(w) PROVE TimeInv'
  BY <1>6 DEF PruneRead, history, Goto, TimeInv
<1>7. ASSUME NEW w \in Pruners, PruneDelete(w) PROVE TimeInv'
  BY <1>7 DEF PruneDelete, history, Goto, TimeInv
<1>8. CASE Tick
  BY <1>8 DEF Tick, history, TimeInv
<1>9. CASE UNCHANGED vars
  BY <1>9 DEF vars, history, TimeInv
<1>10. ASSUME NEW q \in Requests, AdmitInProcess(q) PROVE TimeInv'
  BY <1>10 DEF AdmitInProcess, Goto, TimeInv
<1>11. ASSUME NEW q \in Requests, RefuseInProcess(q) PROVE TimeInv'
  BY <1>11 DEF RefuseInProcess, Goto, TimeInv, history
<1>12. CASE Evict
  BY <1>12 DEF Evict, TimeInv
<1> QED
  BY <1>1, <1>2, <1>3, <1>4, <1>5, <1>6, <1>7, <1>8, <1>9, <1>10, <1>11, <1>12 DEF Next, AdmitStep, Terminated

LEMMA FiniteStep ==
    TypeOK /\ TimeInv /\ SeenInv /\ PruningForgetsNothing /\ FiniteInv /\ [Next]_vars => FiniteInv'
<1> SUFFICES ASSUME TypeOK, TimeInv, SeenInv, PruningForgetsNothing, FiniteInv, [Next]_vars
             PROVE FiniteInv'
  OBVIOUS
<1> USE LimiterAssumption DEF TypeOK, Hits
<1>0. IsFiniteSet({}) /\ Cardinality({}) = 0
  BY FS_EmptySet
<1>1. ASSUME NEW q \in Requests, Touch(q) PROVE FiniteInv'
  BY <1>1 DEF Touch, history, FiniteInv
<1>2. ASSUME NEW q \in Requests, Read(q) PROVE FiniteInv'
  BY <1>2 DEF Read, history, FiniteInv
<1>3. ASSUME NEW q \in Requests, Admit(q) PROVE FiniteInv'
  <2> DEFINE hit == [id |-> q, at |-> now[q]]
  <2>1. /\ pc[q] = "deciding" /\ Cardinality(seen[q]) < MaxRequests
        /\ bucket' = seen[q] \cup {hit} /\ admitted' = admitted \cup {hit}
    BY <1>3 DEF Admit
  <2>2. seen[q] \subseteq admitted /\ hit \notin admitted
    BY <2>1 DEF SeenInv, Counted, InWindow, TimeInv
  <2>3. IsFiniteSet(seen[q]) /\ Cardinality(seen[q]) \in Nat
    BY <2>2, FS_Subset, FS_CardinalityType DEF FiniteInv
  <2>4. IsFiniteSet(bucket') /\ Cardinality(bucket') = Cardinality(seen[q]) + 1
    BY <2>1, <2>2, <2>3, FS_AddElement
  <2>5. IsFiniteSet(admitted')
    BY <2>1, FS_AddElement DEF FiniteInv
  <2> QED
    BY <2>1, <2>3, <2>4, <2>5 DEF FiniteInv
<1>4. ASSUME NEW q \in Requests, Refuse(q) PROVE FiniteInv'
  <2>1. pc[q] = "deciding" /\ bucket' = seen[q] /\ admitted' = admitted
    BY <1>4 DEF Refuse, history
  <2>2. seen[q] \subseteq admitted /\ Cardinality(seen[q]) <= MaxRequests
    BY <2>1 DEF SeenInv, Counted, InWindow
  <2>3. IsFiniteSet(seen[q])
    BY <2>2, FS_Subset DEF FiniteInv
  <2> QED
    BY <2>1, <2>2, <2>3 DEF FiniteInv
<1>5. ASSUME NEW q \in Requests, Fail(q) PROVE FiniteInv'
  BY <1>5 DEF Fail, history, FiniteInv
<1>6. ASSUME NEW w \in Pruners, PruneRead(w) PROVE FiniteInv'
  BY <1>6 DEF PruneRead, history, FiniteInv
<1>7. ASSUME NEW w \in Pruners, PruneDelete(w) PROVE FiniteInv'
  <2>1. (bucket' = bucket \/ bucket' = {}) /\ admitted' = admitted
    BY <1>7 DEF PruneDelete, history
  <2>2. CASE bucket' = bucket
    BY <2>1, <2>2 DEF FiniteInv
  <2>3. CASE bucket' = {}
    BY <1>0, <2>1, <2>3 DEF FiniteInv
  <2> QED
    BY <2>1, <2>2, <2>3
<1>8. CASE Tick
  BY <1>8 DEF Tick, history, FiniteInv
<1>9. CASE UNCHANGED vars
  BY <1>9 DEF vars, history, FiniteInv
<1>10. ASSUME NEW q \in Requests, AdmitInProcess(q) PROVE FiniteInv'
  <2> DEFINE hit == [id |-> q, at |-> clock]
             live == Live(bucket, clock)
  <2>1. /\ pc[q] = "idle" /\ Cardinality(live) < MaxRequests
        /\ bucket' = live \cup {hit} \/ bucket' = {}
        /\ admitted' = admitted \cup {hit}
    BY <1>10 DEF AdmitInProcess, Cleared
  <2>2. live \subseteq bucket /\ live \subseteq admitted /\ hit \notin admitted
    BY <2>1 DEF Live, PruningForgetsNothing, TimeInv
  <2> HIDE DEF live, hit
  <2>3. IsFiniteSet(live) /\ Cardinality(live) \in Nat
    BY <2>2, FS_Subset, FS_CardinalityType DEF FiniteInv
  <2>4. IsFiniteSet(live \cup {hit}) /\ Cardinality(live \cup {hit}) = Cardinality(live) + 1
    BY <2>2, <2>3, FS_AddElement
  <2>5. IsFiniteSet(admitted')
    BY <2>1, FS_AddElement DEF FiniteInv
  <2> QED
    <3>1. CASE bucket' = live \cup {hit}
      BY <2>1, <2>3, <2>4, <2>5, <3>1 DEF FiniteInv
    <3>2. CASE bucket' = {}
      BY <1>0, <2>5, <3>2 DEF FiniteInv
    <3> QED
      BY <2>1, <3>1, <3>2
<1>11. ASSUME NEW q \in Requests, RefuseInProcess(q) PROVE FiniteInv'
  <2>1. bucket' = Live(bucket, clock) /\ admitted' = admitted
    BY <1>11 DEF RefuseInProcess, history
  <2>2. IsFiniteSet(bucket') /\ Cardinality(bucket') <= Cardinality(bucket)
    BY <2>1, FS_Subset DEF Live, FiniteInv
  <2>3. Cardinality(bucket') \in Nat /\ Cardinality(bucket) \in Nat
    BY <2>2, FS_CardinalityType DEF FiniteInv
  <2> QED
    BY <2>1, <2>2, <2>3 DEF FiniteInv
<1>12. CASE Evict
  BY <1>0, <1>12 DEF Evict, FiniteInv
<1> QED
  BY <1>1, <1>2, <1>3, <1>4, <1>5, <1>6, <1>7, <1>8, <1>9, <1>10, <1>11, <1>12 DEF Next, AdmitStep, Terminated

LEMMA ForgetStep ==
    TypeOK /\ HoldInv /\ TimeInv /\ SeenInv /\ PruningForgetsNothing /\ [Next]_vars
        => PruningForgetsNothing'
<1> SUFFICES ASSUME TypeOK, HoldInv, TimeInv, SeenInv, PruningForgetsNothing, [Next]_vars
             PROVE PruningForgetsNothing'
  OBVIOUS
<1> USE LimiterAssumption DEF TypeOK, Hits, PruningForgetsNothing, Counted, InWindow
<1>1. ASSUME NEW q \in Requests, Touch(q) PROVE PruningForgetsNothing'
  BY <1>1 DEF Touch, history
<1>2. ASSUME NEW q \in Requests, Read(q) PROVE PruningForgetsNothing'
  BY <1>2 DEF Read, history
<1>3. ASSUME NEW q \in Requests, Admit(q) PROVE PruningForgetsNothing'
  <2> DEFINE hit == [id |-> q, at |-> now[q]]
  <2>1. /\ pc[q] = "deciding" /\ clock' = clock /\ forgotten' = forgotten
        /\ bucket' = seen[q] \cup {hit} /\ admitted' = admitted \cup {hit}
    BY <1>3 DEF Admit
  <2>2. seen[q] = Counted(now[q]) /\ now[q] <= clock /\ \A h \in admitted : h.at <= now[q]
    BY <2>1 DEF SeenInv, TimeInv
  <2> QED
    BY <2>1, <2>2
<1>4. ASSUME NEW q \in Requests, Refuse(q) PROVE PruningForgetsNothing'
  <2>1. /\ pc[q] = "deciding" /\ clock' = clock /\ bucket' = seen[q]
        /\ admitted' = admitted /\ forgotten' = forgotten
    BY <1>4 DEF Refuse, history
  <2>2. seen[q] = Counted(now[q]) /\ now[q] <= clock /\ \A h \in admitted : h.at <= now[q]
    BY <2>1 DEF SeenInv, TimeInv
  <2> QED
    BY <2>1, <2>2
<1>5. ASSUME NEW q \in Requests, Fail(q) PROVE PruningForgetsNothing'
  BY <1>5 DEF Fail, history
<1>6. ASSUME NEW w \in Pruners, PruneRead(w) PROVE PruningForgetsNothing'
  BY <1>6 DEF PruneRead, history
<1>7. ASSUME NEW w \in Pruners, PruneDelete(w) PROVE PruningForgetsNothing'
  BY <1>7 DEF PruneDelete, history, HoldInv
<1>8. CASE Tick
  BY <1>8 DEF Tick, history, TimeInv
<1>9. CASE UNCHANGED vars
  BY <1>9 DEF vars, history
<1>10. ASSUME NEW q \in Requests, AdmitInProcess(q) PROVE PruningForgetsNothing'
  <2> DEFINE hit == [id |-> q, at |-> clock]
             live == Live(bucket, clock)
  <2>1. clock' = clock /\ admitted' = admitted \cup {hit}
    BY <1>10 DEF AdmitInProcess
  <2>2. Counted(clock)' \subseteq (live \cup {hit}) \ forgotten'
    <3>1. forgotten \subseteq forgotten'
      BY <1>10 DEF AdmitInProcess, Cleared
    <3> QED
      BY <2>1, <3>1 DEF Live
  <2>3. live \cup {hit} \subseteq admitted'
    BY <2>1 DEF Live
  <2>4. \/ bucket' = live \cup {hit}
        \/ bucket' = {} /\ live \cup {hit} \subseteq forgotten'
    BY <1>10 DEF AdmitInProcess, Cleared
  <2> QED
    BY <2>2, <2>3, <2>4
<1>11. ASSUME NEW q \in Requests, RefuseInProcess(q) PROVE PruningForgetsNothing'
  BY <1>11 DEF RefuseInProcess, history, Live
<1>12. CASE Evict
  BY <1>12 DEF Evict
<1> QED
  BY <1>1, <1>2, <1>3, <1>4, <1>5, <1>6, <1>7, <1>8, <1>9, <1>10, <1>11, <1>12 DEF Next, AdmitStep, Terminated

\* Nobody is between reading and deciding who was not, and what there was to read is
\* what it was.
LEMMA SeenKept ==
    ASSUME TypeOK, SeenInv,
           \A p \in Requests : pc'[p] = "deciding" => pc[p] = "deciding",
           seen' = seen, now' = now, admitted' = admitted, forgotten' = forgotten
    PROVE  SeenInv'
BY DEF SeenInv, Counted, InWindow

LEMMA SeenStep ==
    /\ TypeOK /\ HoldInv /\ TimeInv /\ FiniteInv /\ PruningForgetsNothing /\ SeenInv /\ KeptInv
    /\ [Next]_vars
    => SeenInv'
<1> SUFFICES ASSUME TypeOK, HoldInv, TimeInv, FiniteInv, PruningForgetsNothing, SeenInv,
                    KeptInv, [Next]_vars
             PROVE SeenInv'
  OBVIOUS
<1> USE LimiterAssumption DEF TypeOK, Hits
<1>1. ASSUME NEW q \in Requests, Touch(q) PROVE SeenInv'
  BY <1>1, SeenKept DEF Touch, Goto, history
<1>2. ASSUME NEW q \in Requests, Read(q) PROVE SeenInv'
  <2>1. seen'[q] = Counted(clock) /\ now'[q] = clock
    <3>1. \A h \in bucket : h \in admitted /\ h.at <= clock
      BY DEF PruningForgetsNothing, TimeInv
    <3>2. kind # "memory"
      BY <1>2 DEF Read, HoldInv
    <3>3. forgotten \cap bucket = {}
      BY <3>2 DEF KeptInv
    <3> QED
      BY <1>2, <3>1, <3>3 DEF Read, Live, PruningForgetsNothing, Counted, InWindow
  <2>2. Counted(clock) \subseteq bucket
    BY DEF PruningForgetsNothing
  <2>3. Cardinality(Counted(clock)) <= MaxRequests
    <3>1. Cardinality(Counted(clock)) <= Cardinality(bucket) /\ IsFiniteSet(Counted(clock))
      BY <2>2, FS_Subset DEF FiniteInv
    <3> QED
      BY <3>1, FS_CardinalityType DEF FiniteInv
  <2>4. pc'[q] = "deciding" /\ \A p \in Requests \ {q} : pc'[p] = pc[p] /\ pc[p] # "deciding"
    BY <1>2 DEF Read, Goto, HoldInv
  <2>5. admitted' = admitted /\ forgotten' = forgotten
    BY <1>2 DEF Read, history
  <2>6. Counted(now[q])' = Counted(clock)
    BY <2>1, <2>5 DEF Counted, InWindow
  <2>7. \A h \in admitted' : h.at <= now'[q]
    BY <2>1, <2>5 DEF TimeInv
  <2> QED
    BY <2>1, <2>3, <2>4, <2>6, <2>7 DEF SeenInv
<1>3. ASSUME NEW q \in Requests, Admit(q) PROVE SeenInv'
  <2>1. \A p \in Requests : pc'[p] # "deciding"
    BY <1>3 DEF Admit, Goto, HoldInv
  <2> QED
    BY <2>1 DEF SeenInv
<1>4. ASSUME NEW q \in Requests, Refuse(q) PROVE SeenInv'
  <2>1. \A p \in Requests : pc'[p] # "deciding"
    BY <1>4 DEF Refuse, Goto, HoldInv
  <2> QED
    BY <2>1 DEF SeenInv
<1>5. ASSUME NEW q \in Requests, Fail(q) PROVE SeenInv'
  BY <1>5, SeenKept DEF Fail, Goto, history
<1>6. ASSUME NEW w \in Pruners, PruneRead(w) PROVE SeenInv'
  BY <1>6, SeenKept DEF PruneRead, Goto, history
<1>7. ASSUME NEW w \in Pruners, PruneDelete(w) PROVE SeenInv'
  BY <1>7, SeenKept DEF PruneDelete, Goto, history
<1>8. CASE Tick
  BY <1>8, SeenKept DEF Tick, history
<1>9. CASE UNCHANGED vars
  BY <1>9, SeenKept DEF vars, history
<1>10. ASSUME kind = "memory", kind' = kind, \A p \in Requests : pc'[p] # "deciding"
       PROVE  SeenInv'
  BY <1>10 DEF SeenInv
<1>11. ASSUME kind = "memory" PROVE \A p \in Requests : pc[p] # "deciding"
  BY <1>11 DEF HoldInv
<1>12. ASSUME NEW q \in Requests, AdmitInProcess(q) \/ RefuseInProcess(q) PROVE SeenInv'
  BY <1>10, <1>11, <1>12 DEF AdmitInProcess, RefuseInProcess, Goto
<1>13. CASE Evict
  BY <1>10, <1>11, <1>13 DEF Evict
<1> QED
  BY <1>1, <1>2, <1>3, <1>4, <1>5, <1>6, <1>7, <1>8, <1>9, <1>12, <1>13 DEF Next, AdmitStep, Terminated

\* What the refused have met does not change, and the window it was in only grows.
LEMMA RefusedKept ==
    ASSUME TypeOK, RefusedInv,
           \A p \in Requests : pc'[p] = "refused" =>
               pc[p] = "refused" /\ seen'[p] = seen[p] /\ now'[p] = now[p]
                   /\ retryAfter'[p] = retryAfter[p],
           admitted \subseteq admitted'
    PROVE  RefusedInv'
BY DEF RefusedInv, InWindow

\* A request that is refused now, having met what there was.
LEMMA RefusedNow ==
    ASSUME TypeOK, FiniteInv, RefusedInv, admitted' = admitted,
           NEW q \in Requests, NEW t \in Nat, NEW met,
           met \subseteq InWindow(t), Cardinality(met) = MaxRequests,
           NEW oldest \in met,
           seen'[q] = met, now'[q] = t, retryAfter'[q] = RetryAfter(oldest.at, t),
           \A p \in Requests \ {q} :
               pc'[p] = pc[p] /\ seen'[p] = seen[p] /\ now'[p] = now[p]
                   /\ retryAfter'[p] = retryAfter[p]
    PROVE  RefusedInv'
<1> USE LimiterAssumption DEF TypeOK, Hits
<1>1. oldest.at + Window <= t + retryAfter'[q] * Second
  BY RetryAfterCovers DEF InWindow
<1>2. \A u : InWindow(u)' = InWindow(u)
  BY DEF InWindow
<1>3. ASSUME NEW p \in Requests, pc'[p] = "refused"
      PROVE  /\ seen'[p] \subseteq InWindow(now'[p])
             /\ Cardinality(seen'[p]) = MaxRequests
             /\ \E h \in seen'[p] : h.at + Window <= now'[p] + retryAfter'[p] * Second
  <2>1. CASE p = q
    BY <1>1, <2>1
  <2>2. CASE p # q
    BY <1>3, <2>2 DEF RefusedInv
  <2> QED
    BY <2>1, <2>2
<1> QED
  BY <1>2, <1>3 DEF RefusedInv, InWindow

LEMMA RefusedStep ==
    /\ TypeOK /\ TimeInv /\ SeenInv /\ FiniteInv /\ PruningForgetsNothing /\ RefusedInv
    /\ [Next]_vars
    => RefusedInv'
<1> SUFFICES ASSUME TypeOK, TimeInv, SeenInv, FiniteInv, PruningForgetsNothing, RefusedInv,
                    [Next]_vars
             PROVE RefusedInv'
  OBVIOUS
<1> USE LimiterAssumption DEF TypeOK, Hits
<1>1. ASSUME NEW q \in Requests, Touch(q) PROVE RefusedInv'
  BY <1>1, RefusedKept DEF Touch, Goto, history
<1>2. ASSUME NEW q \in Requests, Read(q) PROVE RefusedInv'
  BY <1>2, RefusedKept DEF Read, Goto, history
<1>3. ASSUME NEW q \in Requests, Admit(q) PROVE RefusedInv'
  BY <1>3, RefusedKept DEF Admit, Goto
<1>4. ASSUME NEW q \in Requests, Refuse(q) PROVE RefusedInv'
  <2>1. /\ pc[q] = "deciding" /\ Cardinality(seen[q]) >= MaxRequests
        /\ seen' = seen /\ now' = now /\ admitted' = admitted
    BY <1>4 DEF Refuse, history
  <2>2. PICK oldest \in seen[q] :
            retryAfter' = [retryAfter EXCEPT ![q] = RetryAfter(oldest.at, now[q])]
    BY <1>4 DEF Refuse
  <2>3. seen[q] \subseteq InWindow(now[q]) /\ Cardinality(seen[q]) <= MaxRequests
    BY <2>1 DEF SeenInv, Counted
  <2>4. IsFiniteSet(seen[q])
    BY <2>3, FS_Subset DEF InWindow, FiniteInv
  <2>5. Cardinality(seen[q]) = MaxRequests
    BY <2>1, <2>3, <2>4, FS_CardinalityType
  <2>6. \A p \in Requests \ {q} : pc'[p] = pc[p] /\ retryAfter'[p] = retryAfter[p]
    BY <1>4, <2>2 DEF Refuse, Goto
  <2>7. retryAfter'[q] = RetryAfter(oldest.at, now[q])
    BY <2>2
  <2> QED
    BY <2>1, <2>3, <2>5, <2>6, <2>7, RefusedNow
<1>5. ASSUME NEW q \in Requests, Fail(q) PROVE RefusedInv'
  BY <1>5, RefusedKept DEF Fail, Goto, history
<1>6. ASSUME NEW w \in Pruners, PruneRead(w) PROVE RefusedInv'
  BY <1>6, RefusedKept DEF PruneRead, Goto, history
<1>7. ASSUME NEW w \in Pruners, PruneDelete(w) PROVE RefusedInv'
  BY <1>7, RefusedKept DEF PruneDelete, Goto, history
<1>8. CASE Tick
  BY <1>8, RefusedKept DEF Tick, history
<1>9. CASE UNCHANGED vars
  BY <1>9, RefusedKept DEF vars, history
<1>10. ASSUME NEW q \in Requests, AdmitInProcess(q) PROVE RefusedInv'
  BY <1>10, RefusedKept DEF AdmitInProcess, Goto
<1>11. ASSUME NEW q \in Requests, RefuseInProcess(q) PROVE RefusedInv'
  <2> DEFINE live == Live(bucket, clock)
  <2>1. /\ Cardinality(live) >= MaxRequests /\ admitted' = admitted
        /\ seen' = [seen EXCEPT ![q] = live] /\ now' = [now EXCEPT ![q] = clock]
    BY <1>11 DEF RefuseInProcess, history
  <2>2. PICK oldest \in live :
            retryAfter' = [retryAfter EXCEPT ![q] = RetryAfter(oldest.at, clock)]
    BY <1>11 DEF RefuseInProcess
  <2>3. live \subseteq bucket /\ live \subseteq InWindow(clock)
    BY DEF Live, InWindow, PruningForgetsNothing, TimeInv
  <2> HIDE DEF live
  <2>4. IsFiniteSet(live) /\ Cardinality(live) <= Cardinality(bucket)
    BY <2>3, FS_Subset DEF FiniteInv
  <2>5. Cardinality(live) = MaxRequests
    BY <2>1, <2>4, FS_CardinalityType DEF FiniteInv
  <2>6. \A p \in Requests \ {q} :
            pc'[p] = pc[p] /\ seen'[p] = seen[p] /\ now'[p] = now[p]
                /\ retryAfter'[p] = retryAfter[p]
    BY <1>11, <2>1, <2>2 DEF RefuseInProcess, Goto
  <2>7. seen'[q] = live /\ now'[q] = clock /\ retryAfter'[q] = RetryAfter(oldest.at, clock)
    BY <2>1, <2>2
  <2> QED
    BY <2>1, <2>3, <2>5, <2>6, <2>7, RefusedNow
<1>12. CASE Evict
  BY <1>12, RefusedKept DEF Evict
<1> QED
  BY <1>1, <1>2, <1>3, <1>4, <1>5, <1>6, <1>7, <1>8, <1>9, <1>10, <1>11, <1>12 DEF Next, AdmitStep, Terminated

LEMMA KeptStep == KeptInv /\ [Next]_vars => KeptInv'
<1> SUFFICES ASSUME KeptInv, [Next]_vars PROVE KeptInv'
  OBVIOUS
<1>1. kind' = kind /\ (forgotten' = forgotten \/ kind = "memory")
  BY DEF Next, AdmitStep, Touch, Read, Admit, Refuse, Fail, PruneRead, PruneDelete, Tick,
         Terminated, AdmitInProcess, RefuseInProcess, Evict, vars, history
<1> QED
  BY <1>1 DEF KeptInv

LEMMA StepIInv == IInv /\ [Next]_vars => IInv'
BY TypeStep, HoldStep, TimeStep, FiniteStep, ForgetStep, SeenStep, RefusedStep, KeptStep DEF IInv

LEMMA IInvImpliesCeiling == IInv => Ceiling
<1> SUFFICES ASSUME IInv PROVE Ceiling
  OBVIOUS
<1>1. Counted(clock) \subseteq bucket /\ IsFiniteSet(bucket) /\ Cardinality(bucket) <= MaxRequests
  BY DEF IInv, PruningForgetsNothing, FiniteInv
<1>2. IsFiniteSet(Counted(clock)) /\ Cardinality(Counted(clock)) <= Cardinality(bucket)
  BY <1>1, FS_Subset
<1>3. kind # "memory" => forgotten = {}
  BY DEF IInv, KeptInv
<1> QED
  BY <1>1, <1>2, <1>3, FS_CardinalityType, LimiterAssumption DEF Ceiling

LEMMA IInvImpliesRefusal == IInv => NoEarlyRefusal
<1> SUFFICES ASSUME IInv, NEW q \in Requests, pc[q] = "refused"
             PROVE  Cardinality(InWindow(now[q])) >= MaxRequests
  BY DEF NoEarlyRefusal
<1>1. seen[q] \subseteq InWindow(now[q]) /\ Cardinality(seen[q]) = MaxRequests
  BY DEF IInv, RefusedInv
<1>2. IsFiniteSet(InWindow(now[q]))
  BY FS_Subset DEF InWindow, IInv, FiniteInv
<1>3. Cardinality(seen[q]) <= Cardinality(InWindow(now[q]))
  BY <1>1, <1>2, FS_Subset
<1> QED
  BY <1>1, <1>2, <1>3, FS_CardinalityType, LimiterAssumption

LEMMA IInvImpliesRetry == IInv => RetryAfterSuffices
<1> SUFFICES ASSUME IInv,
                    NEW q \in Requests, pc[q] = "refused",
                    clock >= now[q] + retryAfter[q] * Second,
                    Counted(clock) \subseteq seen[q]
             PROVE  Cardinality(Counted(clock)) < MaxRequests
  BY DEF RetryAfterSuffices
<1> USE LimiterAssumption DEF IInv, TypeOK, Hits
<1>1. PICK oldest \in seen[q] : oldest.at + Window <= now[q] + retryAfter[q] * Second
  BY DEF RefusedInv
<1>2. IsFiniteSet(seen[q]) /\ Cardinality(seen[q]) = MaxRequests
  BY FS_Subset DEF InWindow, FiniteInv, RefusedInv
<1>3. oldest \notin Counted(clock)
  <2>1. oldest.at \in Nat /\ retryAfter[q] * Second \in Nat
    BY <1>1
  <2> QED
    BY <1>1, <2>1 DEF Counted, InWindow
<1>4. Counted(clock) \subseteq seen[q] \ {oldest}
  BY <1>3
<1>5. IsFiniteSet(seen[q] \ {oldest}) /\ Cardinality(seen[q] \ {oldest}) = MaxRequests - 1
  BY <1>1, <1>2, FS_RemoveElement
<1>6. IsFiniteSet(Counted(clock)) /\ Cardinality(Counted(clock)) <= MaxRequests - 1
  BY <1>4, <1>5, FS_Subset
<1> QED
  BY <1>6, FS_CardinalityType

\* The conjunction above holds in every reachable state: the theorems below are
\* read off from it.
THEOREM InductiveInvariant == Spec => []IInv
BY InitIInv, StepIInv, PTL DEF Spec

\* Every variable of the bucket, the calls and the pruners keeps its type.
THEOREM TypeCorrect == Spec => []TypeOK
BY InductiveInvariant, PTL DEF IInv

\* DatabaseLimiter, "the ceiling holds exactly": no window ever holds more than the
\* budget, for any number of workers and with pruning on either database; and a
\* process exceeds its own only by what it was made to forget.
THEOREM CeilingHolds == Spec => []Ceiling
BY InductiveInvariant, IInvImpliesCeiling, PTL

\* Whoever is refused met a full window: no admission is invented.
THEOREM RefusalsAreDue == Spec => []NoEarlyRefusal
BY InductiveInvariant, IInvImpliesRefusal, PTL

\* prune_idle_buckets, "pruning changes no decision": the table holds every
\* admission inside the window.
THEOREM PruningIsSafe == Spec => []PruningForgetsNothing
BY InductiveInvariant, PTL DEF IInv

\* _retry_after_s: whoever waits as long as it was told finds room, for every window
\* and every grain of the clock, unless somebody else was admitted meanwhile.
THEOREM WaitingSuffices == Spec => []RetryAfterSuffices
BY InductiveInvariant, IInvImpliesRetry, PTL
=============================================================================
