--------------------------- MODULE WeatherCacheProofs ---------------------------
(***************************************************************************)
(* Proofs about WeatherCache for every number of fetches, workers, cells   *)
(* and failures, every kind of cache and every setting of its ages.        *)
(***************************************************************************)
EXTENDS WeatherCache, TLAPS

-----------------------------------------------------------------------------
(* Types *)

LEMMA InitType == Init => TypeOK
  BY WeatherAssumption DEF Init, TypeOK, Calls, NoCall, Readings, Maybe, Sources

\* An answer has the type of one.
LEMMA AnswerType ==
    ASSUME TypeOK, NEW f \in Fetches, NEW place \in Workers \cup {Shared}, NEW source \in Sources,
           NEW fetched_at \in Maybe(Nat), Answer(f, place, source, fetched_at)
    PROVE  /\ call' \in [Fetches -> Calls]
           /\ pc' \in [Fetches \cup Pruners ->
                   {"idle", "request", "store", "storing", "answered", "raised", "page", "delete"}]
  BY DEF TypeOK, Answer, Goto, Calls, NoCall, Maybe

LEMMA RequestType ==
    ASSUME TypeOK, NEW f \in Fetches, NEW place \in Workers \cup {Shared},
           NEW cached \in Maybe(Nat), Request(f, place, cached)
    PROVE  /\ call' \in [Fetches -> Calls]
           /\ pc' \in [Fetches \cup Pruners ->
                   {"idle", "request", "store", "storing", "answered", "raised", "page", "delete"}]
<1> DEFINE new == [NoCall EXCEPT !.place = place, !.cached = cached,
                                !.deadline = clock + Deadline, !.attempt = 1]
<1>1. clock + Deadline \in Nat
  BY WeatherAssumption DEF TypeOK
<1>2. new \in Calls
  BY <1>1 DEF Calls, NoCall, Maybe
<1>3. call' = [call EXCEPT ![f] = new]
  BY DEF Request
<1> HIDE DEF new
<1> QED
  BY <1>2, <1>3 DEF TypeOK, Request, Goto

LEMMA PlaceType == Places \subseteq Workers \cup {Shared}
  BY DEF Places

LEMMA DegradeType ==
    ASSUME TypeOK, NEW f \in Fetches, NEW source \in Sources, Degrade(f, source),
           call[f].place \in Workers \cup {Shared}
    PROVE  /\ call' \in [Fetches -> Calls]
           /\ pc' \in [Fetches \cup Pruners ->
                   {"idle", "request", "store", "storing", "answered", "raised", "page", "delete"}]
<1>1. call[f] \in Calls /\ call[f].cached \in Maybe(Nat) /\ None \in Maybe(Nat)
  BY DEF TypeOK, Calls, Maybe
<1>2. "cached_stale" \in Sources
  BY DEF Sources
<1> QED
  BY <1>1, <1>2, AnswerType DEF Degrade

LEMMA ReleaseType ==
    ASSUME TypeOK, NEW x, Release(x)
    PROVE  rowLock' \in [Cells -> Maybe(Fetches \cup Pruners)]
  BY DEF TypeOK, Release, Maybe

LEMMA FailuresType ==
    ASSUME TypeOK, failures < MaxFailures, failures' = failures + 1
    PROVE  failures' \in 0 .. MaxFailures
  BY WeatherAssumption DEF TypeOK

-----------------------------------------------------------------------------
(* The inductive invariant *)

\* Somebody has answered with a reading of this time for this cell, through this place.
Origin(c, p, t) ==
    \E g \in Fetches : pc[g] = "answered" /\ CellOf[g] = c /\ call[g].place = p
                      /\ <<g, t>> \in observed

\* What is kept was fetched, and not in the future.
KeptInv ==
    \A p \in Workers \cup {Shared} : \A c \in Cells :
        kept[p][c] \in Nat => kept[p][c] <= clock /\ Origin(c, p, kept[p][c])

\* What a fetch has loaded to fall back to is past its freshness window, was within the
\* stale maximum when the request began, and came from another fetch.
StandsIn(f) ==
    LET reading == call[f].cached
    IN  /\ reading + CacheTtl < clock
        /\ call[f].deadline <= reading + StaleMaxAge + Deadline
        /\ Origin(CellOf[f], call[f].place, reading)

\* The two properties of an answer, and that the fetch it names has answered too.
AnswerInv(f) ==
    LET answer == call[f]
    IN  /\ answer.source \in Sources
        /\ answer.source = "live" => <<f, answer.fetched_at>> \in observed
        /\ answer.source \in {"cached_fresh", "cached_stale"} =>
               \E g \in Fetches \ {f} : /\ pc[g] = "answered" /\ CellOf[g] = CellOf[f]
                                        /\ call[g].place = answer.place
                                        /\ <<g, answer.fetched_at>> \in observed
        /\ answer.source \in {"fallback", "error"} => answer.fetched_at = None
        /\ answer.source = "cached_fresh" => answer.at <= answer.fetched_at + CacheTtl
        /\ answer.source = "cached_stale" =>
               /\ answer.at > answer.fetched_at + CacheTtl
               /\ answer.at <= answer.fetched_at + StaleMaxAge + Deadline

FetchInv(f) ==
    /\ pc[f] \in {"request", "store", "storing", "answered"} => call[f].place \in Places
    /\ pc[f] = "request" => /\ clock <= call[f].deadline
                            /\ call[f].cached # None => StandsIn(f)
    /\ pc[f] \in {"store", "storing"} => /\ kind # "memory"
                                         /\ call[f].fetched_at \in Nat
                                         /\ call[f].fetched_at <= clock
                                         /\ <<f, call[f].fetched_at>> \in observed
    /\ pc[f] = "answered" => AnswerInv(f)

\* What was judged expired is expired, and stays so.
JudgedInv == \A w \in Pruners : \A row \in judged[w] : Expired(row[2], clock)

IInv ==
    /\ TypeOK
    /\ KeptInv
    /\ \A f \in Fetches : FetchInv(f)
    /\ JudgedInv
    /\ PruningChangesNoAnswer

LEMMA InvGivesProperties == IInv => SourceIsHonest /\ AgeFitsSource
  BY DEF IInv, FetchInv, AnswerInv, SourceIsHonest, AgeFitsSource, Sources

LEMMA InitInv == Init => IInv
<1> SUFFICES ASSUME Init PROVE IInv
  OBVIOUS
<1>1. TypeOK
  BY InitType
<1>2. KeptInv
  BY WeatherAssumption DEF Init, KeptInv
<1>3. \A f \in Fetches : FetchInv(f)
  BY DEF Init, FetchInv
<1>4. JudgedInv
  BY DEF Init, JudgedInv
<1>5. PruningChangesNoAnswer
  BY WeatherAssumption DEF Init, PruningChangesNoAnswer
<1> QED
  BY <1>1, <1>2, <1>3, <1>4, <1>5 DEF IInv

-----------------------------------------------------------------------------
(* What every step leaves alone *)

\* Answers, and what was observed, stay.
Grows ==
    /\ kind' = kind
    /\ clock \in Nat /\ clock' \in Nat /\ clock <= clock'
    /\ observed \subseteq observed'
    /\ \A g \in Fetches : pc[g] = "answered" => pc'[g] = "answered" /\ call'[g] = call[g]

LEMMA OriginStays ==
    ASSUME Grows, NEW c, NEW p, NEW t, Origin(c, p, t)
    PROVE  Origin(c, p, t)'
  BY DEF Grows, Origin

\* A step of somebody else, in no time, disturbs nothing a fetch relies on.
LEMMA OthersKeep ==
    ASSUME IInv, Grows, NEW f \in Fetches, pc'[f] = pc[f], call'[f] = call[f], clock' = clock
    PROVE  FetchInv(f)'
<1>1. FetchInv(f)
  BY DEF IInv
<1>2. Places' = Places
  BY DEF Grows, Places
<1>3. ASSUME StandsIn(f) PROVE StandsIn(f)'
  <2>1. Origin(CellOf[f], call[f].place, call[f].cached)
    BY <1>3 DEF StandsIn
  <2>2. Origin(CellOf[f], call[f].place, call[f].cached)'
    BY <2>1 DEF Grows, Origin
  <2> QED
    BY <1>3, <2>2 DEF StandsIn
<1>4. ASSUME AnswerInv(f) PROVE AnswerInv(f)'
  BY <1>4 DEF AnswerInv, Grows
<1> QED
  BY <1>1, <1>2, <1>3, <1>4 DEF FetchInv, Grows

-----------------------------------------------------------------------------
(* The steps *)

FetchAction(f) ==
    \/ Load(f) \/ LoadFails(f)
    \/ Unreachable(f) \/ TimedOut(f) \/ Unusable(f) \/ NotAnObject(f) \/ Parsed(f)
    \/ StoreBegin(f) \/ StoreCommit(f) \/ StoreFails(f)

PruneAction(w) == PruneRead(w) \/ PruneEnd(w) \/ PruneDelete(w) \/ PruneFails(w)

LEMMA NextSplits ==
    [Next]_vars => \/ \E f \in Fetches : FetchAction(f)
                   \/ \E w \in Pruners : PruneAction(w)
                   \/ Tick
                   \/ UNCHANGED vars
  BY DEF Next, FetchAction, PruneAction

\* A fetch moves itself alone, in no time.
LEMMA FetchMovesItself ==
    ASSUME TypeOK, NEW f \in Fetches, FetchAction(f)
    PROVE  /\ clock' = clock /\ kind' = kind /\ UNCHANGED pruning
           /\ observed \subseteq observed'
           /\ pc[f] \in {"idle", "request", "store", "storing"}
           /\ \A x \in (Fetches \cup Pruners) \ {f} : pc'[x] = pc[x]
           /\ \A g \in Fetches \ {f} : call'[g] = call[g]
  BY DEF FetchAction, TypeOK, Load, LoadFails, Unreachable, TimedOut, Unusable, NotAnObject,
         Parsed, StoreBegin, StoreCommit, StoreFails, Answer, Request, Degrade, Goto, history

LEMMA FetchGrows ==
    ASSUME TypeOK, NEW f \in Fetches, FetchAction(f)
    PROVE  Grows
<1>1. clock \in Nat
  BY DEF TypeOK
<1> QED
  BY <1>1, FetchMovesItself DEF Grows

\* A pruning pass moves no fetch and keeps, for every cell, what is kept or nothing.
LEMMA PruneMovesNoFetch ==
    ASSUME TypeOK, NEW w \in Pruners, PruneAction(w)
    PROVE  /\ UNCHANGED <<clock, kind, call, history>>
           /\ \A f \in Fetches : pc'[f] = pc[f]
           /\ \A p \in Workers \cup {Shared} : \A c \in Cells :
                  \/ kept'[p][c] = kept[p][c]
                  \/ p = Shared /\ kept'[p][c] = None /\ <<c, kept[p][c]>> \in judged[w]
<1>1. w \notin Fetches
  BY WeatherAssumption
<1>2. CASE PruneDelete(w)
  <2>1. \A c \in Cells : kept'[Shared][c] = IF Unchanged(w, c) THEN None ELSE kept[Shared][c]
    BY <1>2 DEF PruneDelete, TypeOK
  <2>2. \A p \in Workers : kept'[p] = kept[p]
    BY <1>2, WeatherAssumption DEF PruneDelete, TypeOK
  <2> QED
    BY <1>1, <1>2, <2>1, <2>2 DEF PruneDelete, Unchanged, Goto, history, TypeOK
<1>3. CASE PruneRead(w) \/ PruneEnd(w) \/ PruneFails(w)
  BY <1>1, <1>3 DEF PruneRead, PruneEnd, PruneFails, Goto, history, TypeOK
<1> QED
  BY <1>2, <1>3 DEF PruneAction

-----------------------------------------------------------------------------
(* Types are kept *)

LEMMA FetchType ==
    ASSUME IInv, NEW f \in Fetches, FetchAction(f)
    PROVE  TypeOK'
<1> USE DEF IInv
<1>1. CellOf[f] \in Cells
  BY WeatherAssumption
<1>2. UNCHANGED pruning /\ kind' = kind /\ clock' = clock
  BY FetchMovesItself
<1>3. pc[f] \in {"request", "store", "storing"} => call[f].place \in Workers \cup {Shared}
  BY PlaceType DEF FetchInv
<1>4. {"cached_fresh", "fallback", "error", "live"} \subseteq Sources
  BY DEF Sources
<1>5. CASE Load(f)
  <2>1. PICK p \in Places :
          LET reading == kept[p][CellOf[f]]
          IN  IF Within(reading, clock, CacheTtl)
              THEN Answer(f, p, "cached_fresh", reading)
              ELSE Request(f, p, StandIn(reading))
    BY <1>5 DEF Load
  <2> DEFINE reading == kept[p][CellOf[f]]
  <2>2. p \in Workers \cup {Shared}
    BY PlaceType
  <2>3. CASE Within(reading, clock, CacheTtl)
    <3>1. reading \in Maybe(Nat) /\ Answer(f, p, "cached_fresh", reading)
      BY <2>1, <2>3 DEF Within, Maybe
    <3> QED
      BY <1>2, <1>4, <1>5, <2>2, <3>1, AnswerType DEF Load, TypeOK, pruning, history
  <2>4. CASE ~Within(reading, clock, CacheTtl)
    <3>1. StandIn(reading) \in Maybe(Nat) /\ Request(f, p, StandIn(reading))
      BY <2>1, <2>4 DEF StandIn, Within, Maybe
    <3> QED
      BY <1>2, <1>5, <2>2, <3>1, RequestType DEF Load, TypeOK, pruning, history
  <2> QED
    BY <2>3, <2>4
<1>6. CASE LoadFails(f)
  <2>1. None \in Maybe(Nat) /\ Shared \in Workers \cup {Shared}
    BY DEF Maybe
  <2> QED
    BY <1>2, <1>6, <2>1, RequestType, FailuresType DEF LoadFails, TypeOK, pruning, history
<1>7. CASE Unreachable(f)
  <2>1. CASE call[f].attempt < RetryAttempts
    <3>1. call' = [call EXCEPT ![f].attempt = @ + 1] /\ pc' = pc
      BY <1>7, <2>1 DEF Unreachable
    <3>2. call[f] \in Calls
      BY DEF TypeOK
    <3>3. [call[f] EXCEPT !.attempt = call[f].attempt + 1] \in Calls
      BY <3>2 DEF Calls
    <3>4. call' \in [Fetches -> Calls]
      BY <3>1, <3>3 DEF TypeOK
    <3> QED
      BY <1>2, <1>7, <3>1, <3>4 DEF Unreachable, TypeOK, pruning, history
  <2>2. CASE ~(call[f].attempt < RetryAttempts)
    <3>1. Degrade(f, "fallback") /\ call[f].place \in Workers \cup {Shared}
      BY <1>3, <1>7, <2>2 DEF Unreachable
    <3> QED
      BY <1>2, <1>4, <1>7, <3>1, DegradeType DEF Unreachable, TypeOK, pruning, history
  <2> QED
    BY <2>1, <2>2
<1>8. CASE TimedOut(f)
  <2>1. Degrade(f, "fallback") /\ call[f].place \in Workers \cup {Shared}
    BY <1>3, <1>8 DEF TimedOut
  <2> QED
    BY <1>2, <1>4, <1>8, <2>1, DegradeType DEF TimedOut, TypeOK, pruning, history
<1>9. CASE Unusable(f)
  <2>1. Degrade(f, "error") /\ call[f].place \in Workers \cup {Shared}
    BY <1>3, <1>9 DEF Unusable
  <2> QED
    BY <1>2, <1>4, <1>9, <2>1, DegradeType DEF Unusable, TypeOK, pruning, history
<1>10. CASE NotAnObject(f)
  <2>1. NoCall \in Calls
    BY DEF NoCall, Calls, Maybe
  <2> QED
    BY <1>2, <1>10, <2>1 DEF NotAnObject, Goto, TypeOK, pruning, history
<1>11. CASE Parsed(f)
  <2>1. clock \in Maybe(Nat) /\ observed' \subseteq Fetches \X Nat
    BY <1>11 DEF Parsed, TypeOK, Maybe
  <2>2. CASE kind = "memory"
    <3>1. Answer(f, call[f].place, "live", clock) /\ call[f].place \in Workers \cup {Shared}
      BY <1>3, <1>11, <2>2 DEF Parsed
    <3>2. call' \in [Fetches -> Calls] /\ pc' \in [Fetches \cup Pruners ->
                 {"idle", "request", "store", "storing", "answered", "raised", "page", "delete"}]
      BY <1>4, <2>1, <3>1, AnswerType
    <3>3. \A readings \in [Cells -> Maybe(Readings)] :
            Swept(readings, CellOf[f]) \in [Cells -> Maybe(Readings)]
      BY DEF Swept, Maybe, Readings, TypeOK
    <3>4. kept' \in [Workers \cup {Shared} -> [Cells -> Maybe(Readings)]]
      BY <1>11, <2>2, <3>1, <3>3 DEF Parsed, TypeOK
    <3> QED
      BY <1>2, <1>11, <2>1, <3>2, <3>4 DEF Parsed, TypeOK, pruning
  <2>3. CASE kind # "memory"
    <3>1. [NoCall EXCEPT !.place = Shared, !.fetched_at = clock] \in Calls
      BY DEF NoCall, Calls, Maybe, TypeOK
    <3> QED
      BY <1>2, <1>11, <2>1, <2>3, <3>1 DEF Parsed, Goto, TypeOK, pruning
  <2> QED
    BY <2>2, <2>3
<1>12. CASE StoreBegin(f)
  BY <1>1, <1>2, <1>12 DEF StoreBegin, Goto, TypeOK, Maybe, pruning, history
<1>13. CASE StoreCommit(f)
  <2>1. pc[f] \in {"store", "storing"} /\ call[f].fetched_at \in Nat
    BY <1>13 DEF StoreCommit, FetchInv
  <2>2. call[f].fetched_at \in Maybe(Nat) /\ call[f].fetched_at \in Maybe(Readings)
    BY <2>1 DEF Maybe, Readings
  <2>3. Answer(f, call[f].place, "live", call[f].fetched_at)
    BY <1>13 DEF StoreCommit
  <2>4. call' \in [Fetches -> Calls] /\ pc' \in [Fetches \cup Pruners ->
               {"idle", "request", "store", "storing", "answered", "raised", "page", "delete"}]
    BY <1>3, <1>4, <2>1, <2>2, <2>3, AnswerType
  <2>5. rowLock' \in [Cells -> Maybe(Fetches \cup Pruners)]
    BY <1>13, ReleaseType DEF StoreCommit
  <2> QED
    BY <1>1, <1>2, <1>13, <2>2, <2>4, <2>5 DEF StoreCommit, TypeOK, pruning
<1>14. CASE StoreFails(f)
  <2>1. pc[f] \in {"store", "storing"} /\ call[f].fetched_at \in Maybe(Nat)
    BY <1>14 DEF StoreFails, FetchInv, Maybe
  <2>2. Answer(f, call[f].place, "live", call[f].fetched_at)
    BY <1>14 DEF StoreFails
  <2>3. call' \in [Fetches -> Calls] /\ pc' \in [Fetches \cup Pruners ->
               {"idle", "request", "store", "storing", "answered", "raised", "page", "delete"}]
    BY <1>3, <1>4, <2>1, <2>2, AnswerType
  <2>4. rowLock' \in [Cells -> Maybe(Fetches \cup Pruners)]
    BY <1>14, ReleaseType DEF StoreFails
  <2> QED
    BY <1>2, <1>14, <2>3, <2>4, FailuresType DEF StoreFails, TypeOK, pruning, history
<1> QED
  BY <1>5, <1>6, <1>7, <1>8, <1>9, <1>10, <1>11, <1>12, <1>13, <1>14 DEF FetchAction

LEMMA PruneType ==
    ASSUME TypeOK, NEW w \in Pruners, PruneAction(w)
    PROVE  TypeOK'
<1>1. CASE PruneRead(w)
  <2>1. Page(w) \subseteq Cells
    BY DEF Page, Readable
  <2>2. after' \in [Pruners -> Nat]
    BY <1>1, <2>1, WeatherAssumption DEF PruneRead, TypeOK
  <2>3. rowLock' \in [Cells -> Maybe(Fetches \cup Pruners)]
    BY <1>1 DEF PruneRead, TypeOK, Maybe
  <2>4. \A c \in Page(w) : Expired(kept[Shared][c], clock) =>
            <<c, kept[Shared][c]>> \in Cells \X Readings
    BY <2>1 DEF TypeOK, Maybe, Expired
  <2>5. judged' \in [Pruners -> SUBSET (Cells \X Readings)]
    BY <1>1, <2>4 DEF PruneRead, TypeOK
  <2> QED
    BY <1>1, <2>2, <2>3, <2>5 DEF PruneRead, Goto, TypeOK, history
<1>2. CASE PruneEnd(w)
  BY <1>2 DEF PruneEnd, TypeOK, history
<1>3. CASE PruneDelete(w)
  <2>1. rowLock' \in [Cells -> Maybe(Fetches \cup Pruners)]
    BY <1>3, ReleaseType DEF PruneDelete
  <2>2. [c \in Cells |-> IF Unchanged(w, c) THEN None ELSE kept[Shared][c]]
            \in [Cells -> Maybe(Readings)]
    BY DEF TypeOK, Maybe
  <2> QED
    BY <1>3, <2>1, <2>2 DEF PruneDelete, Goto, TypeOK, history
<1>4. CASE PruneFails(w)
  <2>1. rowLock' \in [Cells -> Maybe(Fetches \cup Pruners)]
    BY <1>4, ReleaseType DEF PruneFails
  <2> QED
    BY <1>4, <2>1, FailuresType DEF PruneFails, Goto, TypeOK, history
<1> QED
  BY <1>1, <1>2, <1>3, <1>4 DEF PruneAction

LEMMA NextType == IInv /\ [Next]_vars => TypeOK'
<1>1. ASSUME TypeOK, Tick PROVE TypeOK'
  <2>1. clock' \in Nat
    BY <1>1 DEF Tick, TypeOK
  <2>2. UNCHANGED <<kind, kept, rowLock, pc, call, pruning, failures, history>>
    BY <1>1 DEF Tick
  <2> QED
    BY <1>1, <2>1, <2>2 DEF TypeOK, pruning, history
<1>2. ASSUME TypeOK, UNCHANGED vars PROVE TypeOK'
  BY <1>2 DEF vars, TypeOK
<1> QED
  BY <1>1, <1>2, FetchType, PruneType, NextSplits DEF IInv

-----------------------------------------------------------------------------
(* Housekeeping and the clock keep the invariant *)

\* A reading that has expired is of no use, at this time and at any later one.
LEMMA ExpiredStays ==
    ASSUME NEW t \in Nat, NEW u \in Nat, t <= u, NEW reading \in Readings, Expired(reading, t)
    PROVE  Expired(reading, u)
  BY WeatherAssumption DEF Expired, Within, Readings

LEMMA PruneKeeps ==
    ASSUME IInv, NEW w \in Pruners, PruneAction(w)
    PROVE  IInv'
<1>0. TypeOK /\ KeptInv /\ (\A f \in Fetches : FetchInv(f)) /\ JudgedInv /\ PruningChangesNoAnswer
  BY DEF IInv
<1>1. TypeOK'
  BY <1>0, PruneType
<1>2. clock' = clock /\ kind' = kind /\ call' = call /\ observed' = observed /\ unpruned' = unpruned
  BY <1>0, PruneMovesNoFetch DEF history
<1>3. Grows
  <2>1. clock \in Nat
    BY <1>0 DEF TypeOK
  <2>2. \A f \in Fetches : pc'[f] = pc[f]
    BY <1>0, PruneMovesNoFetch
  <2> QED
    BY <1>2, <2>1, <2>2 DEF Grows
<1>4. ASSUME NEW f \in Fetches PROVE FetchInv(f)'
  <2>1. pc'[f] = pc[f]
    BY <1>0, PruneMovesNoFetch
  <2> QED
    BY <1>2, <1>3, <2>1, OthersKeep
<1>5. KeptInv'
  <2> SUFFICES ASSUME NEW p \in Workers \cup {Shared}, NEW c \in Cells, kept'[p][c] \in Nat
               PROVE  kept'[p][c] <= clock /\ Origin(c, p, kept[p][c])'
    BY <1>2 DEF KeptInv
  <2>1. kept'[p][c] = kept[p][c]
    <3>1. kept'[p][c] # None
      BY WeatherAssumption
    <3> QED
      BY <1>0, <3>1, PruneMovesNoFetch
  <2>2. kept[p][c] <= clock /\ Origin(c, p, kept[p][c])
    BY <1>0, <2>1 DEF KeptInv
  <2> QED
    BY <1>2, <1>3, <2>1, <2>2 DEF Grows, Origin
<1>6. JudgedInv'
  <2>1. CASE PruneRead(w)
    <3>1. judged' = [judged EXCEPT ![w] = {<<c, kept[Shared][c]>> :
                        c \in {d \in Page(w) : Expired(kept[Shared][d], clock)}}]
      BY <2>1 DEF PruneRead
    <3> QED
      BY <1>0, <1>2, <3>1 DEF JudgedInv, TypeOK, Expired
  <2>2. CASE PruneEnd(w)
    BY <1>0, <1>2, <2>2 DEF PruneEnd, JudgedInv, Expired
  <2>3. CASE PruneDelete(w) \/ PruneFails(w)
    BY <1>0, <1>2, <2>3 DEF PruneDelete, PruneFails, JudgedInv, TypeOK, Expired
  <2> QED
    BY <2>1, <2>2, <2>3 DEF PruneAction
<1>7. PruningChangesNoAnswer'
  <2> SUFFICES ASSUME NEW c \in Cells
               PROVE  Usable(kept[Shared][c])' = Usable(unpruned[c])'
    BY DEF PruningChangesNoAnswer
  <2>1. Usable(kept[Shared][c]) = Usable(unpruned[c])
    BY <1>0 DEF PruningChangesNoAnswer
  <2>2. CASE kept'[Shared][c] = kept[Shared][c]
    BY <1>2, <2>1, <2>2 DEF Usable, StandIn, Within
  <2>3. CASE kept'[Shared][c] = None /\ <<c, kept[Shared][c]>> \in judged[w]
    <3>1. Expired(kept[Shared][c], clock)
      BY <1>0, <2>3 DEF JudgedInv
    <3> QED
      BY <1>2, <2>1, <2>3, <3>1, WeatherAssumption DEF Usable, StandIn, Within, Expired
  <2> QED
    BY <1>0, <2>2, <2>3, PruneMovesNoFetch
<1> QED
  BY <1>1, <1>4, <1>5, <1>6, <1>7 DEF IInv

\* Time ages what is kept: a reading of no use never becomes one again, and no request
\* outlives its deadline.
LEMMA TickKeeps ==
    ASSUME IInv, Tick
    PROVE  IInv'
<1>0. TypeOK /\ KeptInv /\ (\A f \in Fetches : FetchInv(f)) /\ JudgedInv /\ PruningChangesNoAnswer
  BY DEF IInv
<1>1. clock \in Nat /\ clock' = clock + 1
  BY <1>0 DEF Tick, TypeOK
<1>8. clock' \in Nat
  BY <1>1
<1>2. UNCHANGED <<kind, kept, rowLock, pc, call, after, judged, failures, observed, unpruned>>
  BY DEF Tick, pruning, history
<1>3. TypeOK'
  BY <1>0, <1>8, <1>2 DEF TypeOK
<1>4. KeptInv'
  BY <1>0, <1>1, <1>2 DEF KeptInv, Origin
<1>5. ASSUME NEW f \in Fetches PROVE FetchInv(f)'
  <2>1. FetchInv(f) /\ Places' = Places
    BY <1>0, <1>2 DEF Places
  <2>2. pc[f] = "request" => clock + 1 <= call[f].deadline
    BY <1>0, <1>1, <2>1 DEF Tick, DeadlinePassed, TypeOK, Calls
  <2>3. ASSUME pc[f] = "request", call[f].cached # None PROVE StandsIn(f)'
    <3>1. call[f].cached \in Nat
      BY <1>0, <2>3 DEF TypeOK, Calls, Maybe
    <3>2. StandsIn(f)
      BY <2>1, <2>3 DEF FetchInv
    <3>3. Origin(CellOf[f], call[f].place, call[f].cached)'
      BY <1>2, <3>2 DEF StandsIn, Origin
    <3>4. call[f].cached + CacheTtl < clock + 1
      BY <1>1, <3>1, <3>2, WeatherAssumption DEF StandsIn
    <3> QED
      BY <1>1, <1>2, <3>2, <3>3, <3>4 DEF StandsIn
  <2>4. ASSUME pc[f] = "answered" PROVE AnswerInv(f)'
    BY <1>2, <2>1, <2>4 DEF FetchInv, AnswerInv
  <2>5. call[f].fetched_at \in Nat /\ call[f].fetched_at <= clock => call[f].fetched_at <= clock'
    BY <1>1
  <2> QED
    BY <1>1, <1>2, <2>1, <2>2, <2>3, <2>4, <2>5 DEF FetchInv
<1>6. JudgedInv'
  <2> SUFFICES ASSUME NEW w \in Pruners, NEW row \in judged[w]
               PROVE  Expired(row[2], clock')
    BY <1>2 DEF JudgedInv, Expired, Within
  <2>1. row[2] \in Readings /\ Expired(row[2], clock)
    BY <1>0 DEF JudgedInv, TypeOK
  <2> QED
    BY <1>1, <2>1, ExpiredStays
<1>7. PruningChangesNoAnswer'
  <2> SUFFICES ASSUME NEW c \in Cells
               PROVE  Usable(kept[Shared][c])' = Usable(unpruned[c])'
    BY DEF PruningChangesNoAnswer
  <2>1. Usable(kept[Shared][c]) = Usable(unpruned[c])
    BY <1>0 DEF PruningChangesNoAnswer
  <2>2. kept[Shared][c] \in Maybe(Readings) /\ unpruned[c] \in Maybe(Readings)
    BY <1>0 DEF TypeOK
  <2> QED
    BY <1>1, <1>2, <2>1, <2>2, WeatherAssumption DEF Usable, StandIn, Within, Maybe, Readings
<1> QED
  BY <1>3, <1>4, <1>5, <1>6, <1>7 DEF IInv

-----------------------------------------------------------------------------
(* A fetch keeps the invariant *)

LEMMA AnswerIs ==
    ASSUME TypeOK, NEW f \in Fetches, NEW p, NEW source, NEW t, Answer(f, p, source, t)
    PROVE  /\ pc'[f] = "answered"
           /\ call'[f].place = p /\ call'[f].source = source
           /\ call'[f].fetched_at = t /\ call'[f].at = clock
  BY DEF TypeOK, Answer, Goto, NoCall

\* An answer taken from what another fetch of the cell has answered.
LEMMA CachedAnswer ==
    ASSUME TypeOK, Grows, NEW f \in Fetches, NEW p \in Places, NEW t, pc[f] # "answered",
           NEW source \in {"cached_fresh", "cached_stale"}, Answer(f, p, source, t),
           Origin(CellOf[f], p, t),
           source = "cached_fresh" => clock <= t + CacheTtl,
           source = "cached_stale" => clock > t + CacheTtl /\ clock <= t + StaleMaxAge + Deadline
    PROVE  FetchInv(f)'
<1>1. /\ pc'[f] = "answered"
      /\ call'[f].place = p /\ call'[f].source = source
      /\ call'[f].fetched_at = t /\ call'[f].at = clock
  BY AnswerIs
<1>2. PICK g \in Fetches : /\ pc[g] = "answered" /\ CellOf[g] = CellOf[f]
                           /\ call[g].place = p /\ <<g, t>> \in observed
  BY DEF Origin
<1>3. g # f /\ pc'[g] = "answered" /\ call'[g] = call[g] /\ <<g, t>> \in observed'
  BY <1>2 DEF Grows
<1>4. Places' = Places
  BY DEF Places, Grows
<1>5. AnswerInv(f)'
  BY <1>1, <1>2, <1>3 DEF AnswerInv, Sources
<1> QED
  BY <1>1, <1>4, <1>5 DEF FetchInv

LEMMA DegradedAnswer ==
    ASSUME IInv, Grows, NEW f \in Fetches, pc[f] = "request",
           NEW source \in {"fallback", "error"}, Degrade(f, source)
    PROVE  FetchInv(f)'
<1>1. TypeOK /\ FetchInv(f)
  BY DEF IInv
<1>2. call[f].place \in Places
  BY <1>1 DEF FetchInv
<1>3. CASE call[f].cached # None
  <2>1. call[f].cached \in Nat /\ call[f].deadline \in Nat /\ clock \in Nat
    BY <1>1, <1>3 DEF TypeOK, Calls, Maybe
  <2>2. Answer(f, call[f].place, "cached_stale", call[f].cached)
    BY <1>3 DEF Degrade
  <2>3. StandsIn(f) /\ clock <= call[f].deadline
    BY <1>1, <1>3 DEF FetchInv
  <2>4. Origin(CellOf[f], call[f].place, call[f].cached)
    BY <2>3 DEF StandsIn
  <2>5. clock > call[f].cached + CacheTtl /\ clock <= call[f].cached + StaleMaxAge + Deadline
    BY <2>1, <2>3, WeatherAssumption DEF StandsIn
  <2> QED
    BY <1>1, <1>2, <2>2, <2>4, <2>5, CachedAnswer
<1>4. CASE call[f].cached = None
  <2>1. Answer(f, call[f].place, source, None)
    BY <1>4 DEF Degrade
  <2>2. /\ pc'[f] = "answered"
        /\ call'[f].place = call[f].place /\ call'[f].source = source
        /\ call'[f].fetched_at = None
    BY <1>1, <2>1, AnswerIs
  <2>3. AnswerInv(f)'
    BY <2>2 DEF AnswerInv, Sources
  <2>4. Places' = Places
    BY DEF Places, Grows
  <2> QED
    BY <1>2, <2>2, <2>3, <2>4 DEF FetchInv
<1> QED
  BY <1>3, <1>4

LEMMA LiveAnswer ==
    ASSUME TypeOK, Grows, NEW f \in Fetches, NEW p \in Places, NEW t,
           Answer(f, p, "live", t), <<f, t>> \in observed'
    PROVE  FetchInv(f)'
<1>1. /\ pc'[f] = "answered"
      /\ call'[f].place = p /\ call'[f].source = "live" /\ call'[f].fetched_at = t
  BY AnswerIs
<1>2. AnswerInv(f)'
  BY <1>1 DEF AnswerInv, Sources
<1>3. Places' = Places
  BY DEF Places, Grows
<1> QED
  BY <1>1, <1>2, <1>3 DEF FetchInv

\* The request begins: what it may fall back to is judged now.
LEMMA RequestBegins ==
    ASSUME TypeOK, Grows, clock' = clock, NEW f \in Fetches, NEW p \in Places,
           NEW cached \in Maybe(Nat), Request(f, p, cached),
           cached # None => /\ cached + CacheTtl < clock
                            /\ clock <= cached + StaleMaxAge
                            /\ Origin(CellOf[f], p, cached)
    PROVE  FetchInv(f)'
<1>1. /\ pc'[f] = "request"
      /\ call'[f].place = p /\ call'[f].cached = cached /\ call'[f].deadline = clock + Deadline
  BY DEF TypeOK, Request, Goto, NoCall
<1>2. Places' = Places
  BY DEF Places, Grows
<1>3. clock' <= call'[f].deadline
  BY <1>1, WeatherAssumption DEF TypeOK
<1>4. ASSUME cached # None PROVE StandsIn(f)'
  <2>1. cached \in Nat /\ clock \in Nat
    BY <1>4 DEF Maybe, TypeOK
  <2>2. Origin(CellOf[f], p, cached)'
    BY <1>4, OriginStays
  <2>3. call'[f].deadline <= cached + StaleMaxAge + Deadline
    BY <1>1, <1>4, <2>1, WeatherAssumption
  <2> QED
    BY <1>1, <1>4, <2>2, <2>3 DEF StandsIn, Origin
<1> QED
  BY <1>1, <1>2, <1>3, <1>4 DEF FetchInv

LEMMA FetchKeepsItself ==
    ASSUME IInv, NEW f \in Fetches, FetchAction(f)
    PROVE  FetchInv(f)'
<1>0. TypeOK /\ KeptInv /\ FetchInv(f)
  BY DEF IInv
<1>1. Grows /\ clock' = clock /\ kind' = kind /\ Places' = Places
  BY <1>0, FetchGrows, FetchMovesItself DEF Places
<1>2. clock \in Nat /\ CellOf[f] \in Cells
  BY <1>0, WeatherAssumption DEF TypeOK
<1>3. CASE Load(f)
  <2>1. PICK p \in Places :
          LET reading == kept[p][CellOf[f]]
          IN  IF Within(reading, clock, CacheTtl)
              THEN Answer(f, p, "cached_fresh", reading)
              ELSE Request(f, p, StandIn(reading))
    BY <1>3 DEF Load
  <2> DEFINE reading == kept[p][CellOf[f]]
  <2>2. reading \in Nat => reading <= clock /\ Origin(CellOf[f], p, reading)
    BY <1>0, <1>2, PlaceType DEF KeptInv
  <2>3. pc[f] = "idle"
    BY <1>3 DEF Load
  <2>4. CASE Within(reading, clock, CacheTtl)
    <3>1. reading \in Nat /\ clock <= reading + CacheTtl
      BY <2>4 DEF Within
    <3>2. Answer(f, p, "cached_fresh", reading)
      BY <2>1, <2>4
    <3> QED
      BY <1>0, <1>1, <2>2, <2>3, <3>1, <3>2, CachedAnswer
  <2>5. CASE ~Within(reading, clock, CacheTtl)
    <3>1. Request(f, p, StandIn(reading))
      BY <2>1, <2>5
    <3>2. StandIn(reading) \in Maybe(Nat)
      BY DEF StandIn, Within, Maybe
    <3>3. StandIn(reading) # None =>
            /\ StandIn(reading) + CacheTtl < clock
            /\ clock <= StandIn(reading) + StaleMaxAge
            /\ Origin(CellOf[f], p, StandIn(reading))
      BY <1>2, <2>2, <2>5, WeatherAssumption DEF StandIn, Within
    <3> QED
      BY <1>0, <1>1, <3>1, <3>2, <3>3, RequestBegins
  <2> QED
    BY <2>4, <2>5
<1>4. CASE LoadFails(f)
  <2>1. Request(f, Shared, None) /\ Shared \in Places /\ None \in Maybe(Nat)
    BY <1>4 DEF LoadFails, Places, Maybe
  <2> QED
    BY <1>0, <1>1, <2>1, RequestBegins
<1>5. CASE Unreachable(f)
  <2>1. pc[f] = "request"
    BY <1>5 DEF Unreachable
  <2>2. CASE call[f].attempt < RetryAttempts
    <3>1. call' = [call EXCEPT ![f].attempt = @ + 1] /\ pc' = pc /\ observed' = observed
      BY <1>5, <2>2 DEF Unreachable, history
    <3>2. /\ call'[f].place = call[f].place /\ call'[f].cached = call[f].cached
          /\ call'[f].deadline = call[f].deadline
      BY <1>0, <3>1 DEF TypeOK, Calls
    <3>3. ASSUME call[f].cached # None PROVE StandsIn(f)'
      <4>1. StandsIn(f)
        BY <1>0, <2>1, <3>3 DEF FetchInv
      <4>2. Origin(CellOf[f], call[f].place, call[f].cached)'
        BY <1>1, <3>1, <3>2, <4>1 DEF StandsIn, Origin, Grows
      <4> QED
        BY <1>1, <3>2, <4>1, <4>2 DEF StandsIn
    <3> QED
      BY <1>0, <1>1, <2>1, <3>1, <3>2, <3>3 DEF FetchInv
  <2>3. CASE ~(call[f].attempt < RetryAttempts)
    <3>1. Degrade(f, "fallback")
      BY <1>5, <2>3 DEF Unreachable
    <3> QED
      BY <1>1, <2>1, <3>1, DegradedAnswer
  <2> QED
    BY <2>2, <2>3
<1>6. CASE TimedOut(f)
  BY <1>1, <1>6, DegradedAnswer DEF TimedOut
<1>7. CASE Unusable(f)
  BY <1>1, <1>7, DegradedAnswer DEF Unusable
<1>8. CASE NotAnObject(f)
  <2>1. pc'[f] = "raised"
    BY <1>0, <1>8 DEF NotAnObject, Goto, TypeOK
  <2> QED
    BY <2>1 DEF FetchInv
<1>9. CASE Parsed(f)
  <2>1. <<f, clock>> \in observed' /\ pc[f] = "request" /\ call[f].place \in Places
    BY <1>0, <1>9 DEF Parsed, FetchInv
  <2>2. CASE kind = "memory"
    <3>1. Answer(f, call[f].place, "live", clock)
      BY <1>9, <2>2 DEF Parsed
    <3> QED
      BY <1>0, <1>1, <2>1, <3>1, LiveAnswer
  <2>3. CASE kind # "memory"
    <3>0. /\ call' = [call EXCEPT ![f] = [NoCall EXCEPT !.place = Shared, !.fetched_at = clock]]
          /\ Goto(f, "store")
      BY <1>9, <2>3 DEF Parsed
    <3>1. pc'[f] = "store" /\ call'[f].place = Shared /\ call'[f].fetched_at = clock
      BY <1>0, <3>0 DEF Goto, TypeOK, NoCall
    <3>2. Shared \in Places
      BY <2>3 DEF Places
    <3> QED
      BY <1>1, <1>2, <2>1, <2>3, <3>1, <3>2 DEF FetchInv
  <2> QED
    BY <2>2, <2>3
<1>10. CASE StoreBegin(f)
  <2>1. pc[f] = "store" /\ pc'[f] = "storing" /\ call' = call /\ observed' = observed
    BY <1>0, <1>10 DEF StoreBegin, Goto, TypeOK, history
  <2> QED
    BY <1>0, <1>1, <2>1 DEF FetchInv
<1>11. CASE StoreCommit(f) \/ StoreFails(f)
  <2>1. pc[f] \in {"store", "storing"} /\ Answer(f, call[f].place, "live", call[f].fetched_at)
    BY <1>11 DEF StoreCommit, StoreFails
  <2>2. call[f].place \in Places /\ <<f, call[f].fetched_at>> \in observed'
    BY <1>0, <1>1, <2>1 DEF FetchInv, Grows
  <2> QED
    BY <1>0, <1>1, <2>1, <2>2, LiveAnswer
<1> QED
  BY <1>3, <1>4, <1>5, <1>6, <1>7, <1>8, <1>9, <1>10, <1>11 DEF FetchAction

\* What a fetch stores is what it fetched, and it is there for others from its answer on.
LEMMA FetchKeepsKept ==
    ASSUME IInv, NEW f \in Fetches, FetchAction(f)
    PROVE  KeptInv' /\ PruningChangesNoAnswer'
<1>0. TypeOK /\ KeptInv /\ FetchInv(f) /\ PruningChangesNoAnswer
  BY DEF IInv
<1>1. Grows /\ clock' = clock /\ kind' = kind
  BY <1>0, FetchGrows, FetchMovesItself
<1>2. clock \in Nat /\ CellOf[f] \in Cells
  BY <1>0, WeatherAssumption DEF TypeOK
<1>3. ASSUME NEW p \in Workers \cup {Shared}, NEW c \in Cells, kept'[p][c] = kept[p][c],
             kept'[p][c] \in Nat
      PROVE  kept'[p][c] <= clock /\ Origin(c, p, kept[p][c])'
  <2>1. kept[p][c] <= clock /\ Origin(c, p, kept[p][c])
    BY <1>0, <1>3 DEF KeptInv
  <2> QED
    BY <1>1, <1>3, <2>1 DEF Grows, Origin
<1>4. CASE UNCHANGED <<kept, unpruned>>
  <2>1. KeptInv'
    BY <1>1, <1>3, <1>4 DEF KeptInv
  <2> QED
    BY <1>0, <1>1, <1>4, <2>1 DEF PruningChangesNoAnswer, Usable, StandIn, Within
<1>5. CASE StoreCommit(f)
  <2>1. pc[f] \in {"store", "storing"} /\ Answer(f, call[f].place, "live", call[f].fetched_at)
    BY <1>5 DEF StoreCommit
  <2>2. PICK t \in Nat : t = call[f].fetched_at /\ t <= clock /\ <<f, t>> \in observed
    BY <1>0, <2>1 DEF FetchInv
  <2>3. call[f].place = Shared
    BY <1>0, <2>1 DEF FetchInv, Places
  <2>4. Origin(CellOf[f], Shared, t)'
    <3>1. pc'[f] = "answered" /\ call'[f].place = Shared /\ <<f, t>> \in observed'
      BY <1>0, <1>1, <2>1, <2>2, <2>3, AnswerIs DEF Grows
    <3> QED
      BY <3>1 DEF Origin
  <2>5. /\ \A p \in Workers \cup {Shared} : \A c \in Cells :
              kept'[p][c] = IF p = Shared /\ c = CellOf[f] THEN t ELSE kept[p][c]
        /\ \A c \in Cells : unpruned'[c] = IF c = CellOf[f] THEN t ELSE unpruned[c]
    BY <1>0, <1>2, <1>5, <2>2 DEF StoreCommit, TypeOK
  <2>6. KeptInv'
    <3> SUFFICES ASSUME NEW p \in Workers \cup {Shared}, NEW c \in Cells, kept'[p][c] \in Nat
                 PROVE  \/ kept'[p][c] = kept[p][c] /\ kept[p][c] <= clock /\ Origin(c, p, kept[p][c])'
                        \/ kept'[p][c] = t /\ Origin(c, p, t)'
      BY <1>1, <2>2 DEF KeptInv
    <3>1. CASE p = Shared /\ c = CellOf[f]
      BY <2>4, <2>5, <3>1
    <3>2. CASE ~(p = Shared /\ c = CellOf[f])
      BY <1>3, <2>5, <3>2
    <3> QED
      BY <3>1, <3>2
  <2>7. PruningChangesNoAnswer'
    BY <1>0, <1>1, <2>5 DEF PruningChangesNoAnswer, Usable, StandIn, Within
  <2> QED
    BY <2>6, <2>7
<1>6. CASE Parsed(f) /\ kind = "memory"
  <2>1. PICK q \in Workers : q = call[f].place
    BY <1>0, <1>6 DEF Parsed, FetchInv, Places
  <2>2. Answer(f, q, "live", clock) /\ <<f, clock>> \in observed' /\ unpruned' = unpruned
    BY <1>6, <2>1 DEF Parsed
  <2>3. Origin(CellOf[f], q, clock)'
    <3>1. pc'[f] = "answered" /\ call'[f].place = q
      BY <1>0, <2>2, AnswerIs
    <3> QED
      BY <1>1, <2>2, <3>1 DEF Origin
  <2>4. \A p \in Workers \cup {Shared} : kept'[p] = IF p = q THEN Swept(kept[p], CellOf[f]) ELSE kept[p]
    BY <1>0, <1>6, <2>1 DEF Parsed, TypeOK
  <2>5. ASSUME NEW c \in Cells
        PROVE  kept'[q][c] = kept[q][c] \/ kept'[q][c] = None \/ (c = CellOf[f] /\ kept'[q][c] = clock)
    <3>1. kept'[q] = Swept(kept[q], CellOf[f])
      BY <2>4
    <3>2. kept'[q][c] = IF c # CellOf[f] /\ Expired(kept[q][c], clock) THEN None
                        ELSE IF c = CellOf[f] THEN clock ELSE kept[q][c]
      BY <3>1 DEF Swept
    <3> QED
      BY <3>2
  <2>6. KeptInv'
    <3> SUFFICES ASSUME NEW p \in Workers \cup {Shared}, NEW c \in Cells, kept'[p][c] \in Nat
                 PROVE  \/ kept'[p][c] = kept[p][c] /\ kept[p][c] <= clock /\ Origin(c, p, kept[p][c])'
                        \/ kept'[p][c] = clock /\ Origin(c, p, clock)'
      BY <1>1, <1>2 DEF KeptInv
    <3>1. CASE p = q /\ c = CellOf[f] /\ kept'[p][c] = clock
      BY <2>3, <3>1
    <3>2. CASE ~(p = q /\ c = CellOf[f] /\ kept'[p][c] = clock)
      <4>1. kept'[p][c] = kept[p][c]
        BY <2>4, <2>5, <3>2, WeatherAssumption
      <4> QED
        BY <1>3, <4>1
    <3> QED
      BY <3>1, <3>2
  <2>7. PruningChangesNoAnswer'
    <3>1. kept'[Shared] = kept[Shared]
      BY <2>4, WeatherAssumption
    <3> QED
      BY <1>0, <1>1, <2>2, <3>1 DEF PruningChangesNoAnswer, Usable, StandIn, Within
  <2> QED
    BY <2>6, <2>7
<1> QED
  BY <1>4, <1>5, <1>6 DEF FetchAction, Load, LoadFails, Unreachable, TimedOut, Unusable, NotAnObject,
                          Parsed, StoreBegin, StoreFails, history

LEMMA FetchKeeps ==
    ASSUME IInv, NEW f \in Fetches, FetchAction(f)
    PROVE  IInv'
<1>0. TypeOK /\ JudgedInv
  BY DEF IInv
<1>1. Grows /\ clock' = clock /\ judged' = judged
  BY <1>0, FetchGrows, FetchMovesItself DEF pruning
<1>2. ASSUME NEW g \in Fetches PROVE FetchInv(g)'
  <2>1. CASE g = f
    BY <2>1, FetchKeepsItself
  <2>2. CASE g # f
    <3>1. pc'[g] = pc[g] /\ call'[g] = call[g]
      BY <1>0, <2>2, FetchMovesItself
    <3> QED
      BY <1>1, <3>1, OthersKeep
  <2> QED
    BY <2>1, <2>2
<1>3. JudgedInv'
  BY <1>0, <1>1 DEF JudgedInv, Expired
<1> QED
  BY <1>2, <1>3, FetchType, FetchKeepsKept DEF IInv

-----------------------------------------------------------------------------
(* Theorems *)

\* IInv is inductive: it holds initially, and fetches, housekeeping and time keep it.
THEOREM InductiveInvariant == Spec => []IInv
<1>1. IInv /\ [Next]_vars => IInv'
  <2> SUFFICES ASSUME IInv, [Next]_vars PROVE IInv'
    OBVIOUS
  <2>1. ASSUME UNCHANGED vars PROVE IInv'
    <3>1. TypeOK'
      BY NextType
    <3> QED
      BY <2>1, <3>1 DEF vars, IInv, KeptInv, Origin, FetchInv, StandsIn, AnswerInv, Places,
                        JudgedInv, Expired, PruningChangesNoAnswer, Usable, StandIn
  <2> QED
    BY <2>1, NextSplits, FetchKeeps, PruneKeeps, TickKeeps
<1> QED
  BY <1>1, InitInv, PTL DEF Spec

\* Type correctness of the weather service for every deployment of it.
THEOREM TypeCorrect == Spec => []TypeOK
<1>1. IInv => TypeOK
  BY DEF IInv
<1> QED
  BY <1>1, InductiveInvariant, PTL

\* "A degraded reading must never be indistinguishable from a live one", whatever is
\* cached where, however fetches overlap and whatever fails.
THEOREM SourcesAreHonest == Spec => []SourceIsHonest
  BY InductiveInvariant, InvGivesProperties, PTL

\* The ages the settings promise hold of every answer, for every setting of them.
THEOREM AgesAreBounded == Spec => []AgeFitsSource
  BY InductiveInvariant, InvGivesProperties, PTL

\* Pruning is invisible, with row locks and without.
THEOREM PruningIsInvisible == Spec => []PruningChangesNoAnswer
<1>1. IInv => PruningChangesNoAnswer
  BY DEF IInv
<1> QED
  BY <1>1, InductiveInvariant, PTL
=============================================================================
