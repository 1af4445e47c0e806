----------------------------- MODULE WeatherCache -----------------------------
(***************************************************************************)
(* The weather service of services/weather.py: fetch, the cache it reads   *)
(* before its request and writes after it, and the housekeeping that       *)
(* prunes the shared table (prune_stale_weather).                          *)
(*                                                                         *)
(* A reading that was fetched is its fetch time; the numbers in it play no *)
(* part here. The cache is a worker's own dictionary or the table that all *)
(* workers share, on SQLite or on Postgres. Time is in ticks of one clock  *)
(* that every worker reads.                                                *)
(***************************************************************************)
EXTENDS Naturals, FiniteSets

CONSTANTS
    None,
    Undated,        \* a shared row that does not validate and has no fetched_at
    Fetches,        \* calls of WeatherService.fetch
    Workers,
    Pruners,        \* the workers whose housekeeping is considered
    Shared,         \* the weather_cache table, as a place to keep readings
    Cells,          \* cache keys, in the order of the table's key
    CellOf,         \* the cell of each call's coordinate
    Leftovers,      \* the cells whose shared row another release wrote
    Kinds,          \* the kinds of cache to consider
    RetryAttempts,  \* weather_retry_attempts
    Deadline,       \* weather_deadline_s
    CacheTtl,       \* weather_cache_ttl_s
    StaleMaxAge,    \* weather_stale_max_age_s
    PageSize,       \* _MAX_CELLS_PER_PRUNE
    MaxClock,       \* bound on the clock, pending deadlines aside
    MaxFailures     \* bound on database failures

\* StaleMaxAge >= CacheTtl is Settings._refuse_a_max_age_under_the_ttl.
ASSUME WeatherAssumption ==
    /\ Shared \notin Workers
    /\ Pruners \subseteq Workers /\ Fetches \cap Workers = {}
    /\ None \notin Fetches \cup Workers \cup {Shared}
    /\ None \notin Nat /\ Undated \notin Nat /\ None # Undated
    /\ Cells \subseteq Nat \ {0} /\ IsFiniteSet(Cells)
    /\ CellOf \in [Fetches -> Cells] /\ Leftovers \subseteq Cells
    /\ Kinds \subseteq {"memory", "sqlite", "postgresql"}
    /\ RetryAttempts \in Nat \ {0} /\ Deadline \in Nat \ {0} /\ PageSize \in Nat \ {0}
    /\ CacheTtl \in Nat /\ StaleMaxAge \in Nat /\ StaleMaxAge >= CacheTtl
    /\ MaxClock \in Nat /\ MaxFailures \in Nat

VARIABLES
    kind,       \* the kind of cache this deployment uses
    clock,
    kept,       \* per place and cell, the reading kept there
    rowLock,    \* per cell, the transaction that holds the shared row (Postgres)
    pc,
    call,       \* per fetch, its local variables and its answer
    after,      \* per worker, the last cell its pruning pass has seen
    judged,     \* per worker, the rows it judged expired, as <<cell, reading>>
    failures,
    observed,   \* history: <<fetch, time>> for every answer that was parsed
    unpruned    \* history: the shared table had it never been pruned

vars == <<kind, clock, kept, rowLock, pc, call, after, judged, failures, observed, unpruned>>

pruning == <<after, judged>>
history == <<observed, unpruned>>

Readings == Nat \cup {Undated}
Maybe(S) == S \cup {None}
Sources == {"live", "cached_fresh", "cached_stale", "fallback", "error"}

Calls == [place      : Maybe(Workers \cup {Shared}),  \* its service's cache
          cached     : Maybe(Nat),                    \* what it may fall back to
          deadline   : Nat,                           \* when asyncio.timeout fires
          attempt    : Nat,
          source     : Maybe(Sources),                \* its answer
          fetched_at : Maybe(Nat),
          at         : Nat]                           \* when it answered

NoCall == [place |-> None, cached |-> None, deadline |-> 0, attempt |-> 0,
           source |-> None, fetched_at |-> None, at |-> 0]

TypeOK ==
    /\ kind \in Kinds
    /\ clock \in Nat
    /\ kept \in [Workers \cup {Shared} -> [Cells -> Maybe(Readings)]]
    /\ rowLock \in [Cells -> Maybe(Fetches \cup Pruners)]
    /\ pc \in [Fetches \cup Pruners ->
                   {"idle", "request", "store", "storing", "answered", "raised", "page", "delete"}]
    /\ call \in [Fetches -> Calls]
    /\ after \in [Pruners -> Nat]
    /\ judged \in [Pruners -> SUBSET (Cells \X Readings)]
    /\ failures \in 0 .. MaxFailures
    /\ observed \subseteq Fetches \X Nat
    /\ unpruned \in [Cells -> Maybe(Readings)]

Init ==
    /\ kind \in Kinds
    /\ clock = 0
    /\ unpruned = [c \in Cells |-> IF kind # "memory" /\ c \in Leftovers THEN Undated ELSE None]
    /\ kept = [p \in Workers \cup {Shared} |->
                  IF p = Shared THEN unpruned ELSE [c \in Cells |-> None]]
    /\ rowLock = [c \in Cells |-> None]
    /\ pc = [x \in Fetches \cup Pruners |-> IF x \in Fetches THEN "idle" ELSE "page"]
    /\ call = [f \in Fetches |-> NoCall]
    /\ after = [w \in Pruners |-> 0]
    /\ judged = [w \in Pruners |-> {}]
    /\ failures = 0
    /\ observed = {}

Goto(x, label) == pc' = [pc EXCEPT ![x] = label]

\* _age_s(reading) <= age, where a reading without a date is infinitely old.
Within(reading, t, age) == reading \in Nat /\ t <= reading + age

\* _expired_cells: what the stale maximum rules out.
Expired(reading, t) == reading # None /\ ~Within(reading, t, StaleMaxAge)

-----------------------------------------------------------------------------
(* WeatherService.fetch *)

\* fetch returns: the reading, its source, and the time.
Answer(f, place, source, fetched_at) ==
    /\ call' = [call EXCEPT ![f] = [NoCall EXCEPT !.place = place,
                                                  !.source = source,
                                                  !.fetched_at = fetched_at,
                                                  !.at = clock]]
    /\ Goto(f, "answered")

\* asyncio.timeout is entered, and the first attempt made.
Request(f, place, cached) ==
    /\ call' = [call EXCEPT ![f] = [NoCall EXCEPT !.place = place,
                                                  !.cached = cached,
                                                  !.deadline = clock + Deadline,
                                                  !.attempt = 1]]
    /\ Goto(f, "request")

\* Mutant: a reading too old to stand in for the weather now is kept all the same.
StandInAnyAge(reading) == IF reading \in Nat THEN reading ELSE None

\* What an outage may be answered with.
StandIn(reading) == IF Within(reading, clock, StaleMaxAge) THEN reading ELSE None

\* A worker has its own cache unless it is shared.
Places == IF kind = "memory" THEN Workers ELSE {Shared}

\* cache.load and the two looks at the reading's age that follow it.
Load(f) ==
    /\ pc[f] = "idle"
    /\ \E p \in Places :
        LET reading == kept[p][CellOf[f]]
        IN  IF Within(reading, clock, CacheTtl)
            THEN Answer(f, p, "cached_fresh", reading)
            ELSE Request(f, p, StandIn(reading))
    /\ UNCHANGED <<kind, clock, kept, rowLock, pruning, failures, history>>

\* A table that cannot be read is a miss.
LoadFails(f) ==
    /\ pc[f] = "idle"
    /\ kind # "memory"
    /\ failures < MaxFailures
    /\ failures' = failures + 1
    /\ Request(f, Shared, None)
    /\ UNCHANGED <<kind, clock, kept, rowLock, pruning, history>>

\* Mutant: the copy keeps the source it was stored with.
DegradeUnlabelled(f, source) ==
    IF call[f].cached # None
    THEN Answer(f, call[f].place, "live", call[f].cached)
    ELSE Answer(f, call[f].place, source, None)

\* The reading loaded before the request, or the defaults.
Degrade(f, source) ==
    IF call[f].cached # None
    THEN Answer(f, call[f].place, "cached_stale", call[f].cached)
    ELSE Answer(f, call[f].place, source, None)

\* An attempt fails with an httpx.HTTPError; tenacity tries again while it may.
Unreachable(f) ==
    /\ pc[f] = "request"
    /\ IF call[f].attempt < RetryAttempts
       THEN call' = [call EXCEPT ![f].attempt = @ + 1] /\ UNCHANGED pc
       ELSE Degrade(f, "fallback")
    /\ UNCHANGED <<kind, clock, kept, rowLock, pruning, failures, history>>

DeadlinePassed(f) == clock >= call[f].deadline

\* The deadline cancels the request, attempts and waits between them alike.
TimedOut(f) ==
    /\ pc[f] = "request"
    /\ DeadlinePassed(f)
    /\ Degrade(f, "fallback")
    /\ UNCHANGED <<kind, clock, kept, rowLock, pruning, failures, history>>

\* _parse_current refuses the answer. It is not tried again.
Unusable(f) ==
    /\ pc[f] = "request"
    /\ Degrade(f, "error")
    /\ UNCHANGED <<kind, clock, kept, rowLock, pruning, failures, history>>

\* The answer is JSON and no object: body.get raises what fetch does not catch.
NotAnObject(f) ==
    /\ pc[f] = "request"
    /\ call' = [call EXCEPT ![f] = NoCall]
    /\ Goto(f, "raised")
    /\ UNCHANGED <<kind, clock, kept, rowLock, pruning, failures, history>>

\* MemoryWeatherCache.store: keep the reading, drop those past the maximum age.
Swept(readings, cell) ==
    [c \in Cells |-> IF c # cell /\ Expired(readings[c], clock) THEN None
                     ELSE IF c = cell THEN clock ELSE readings[c]]

\* A complete answer is parsed and dated. A worker's own cache keeps it at once.
Parsed(f) ==
    /\ pc[f] = "request"
    /\ observed' = observed \cup {<<f, clock>>}
    /\ IF kind = "memory"
       THEN /\ kept' = [kept EXCEPT ![call[f].place] = Swept(@, CellOf[f])]
            /\ Answer(f, call[f].place, "live", clock)
       ELSE /\ call' = [call EXCEPT ![f] = [NoCall EXCEPT !.place = Shared, !.fetched_at = clock]]
            /\ Goto(f, "store")
            /\ UNCHANGED kept
    /\ UNCHANGED <<kind, clock, rowLock, pruning, failures, unpruned>>

\* DatabaseWeatherCache.store on Postgres: the upsert waits for the row and holds it.
StoreBegin(f) ==
    /\ pc[f] = "store"
    /\ kind = "postgresql"
    /\ rowLock[CellOf[f]] = None
    /\ rowLock' = [rowLock EXCEPT ![CellOf[f]] = f]
    /\ Goto(f, "storing")
    /\ UNCHANGED <<kind, clock, kept, call, pruning, failures, history>>

Release(x) == rowLock' = [c \in Cells |-> IF rowLock[c] = x THEN None ELSE rowLock[c]]

\* The commit. On SQLite the writer lock makes the whole store one step.
StoreCommit(f) ==
    /\ pc[f] = IF kind = "postgresql" THEN "storing" ELSE "store"
    /\ kept' = [kept EXCEPT ![Shared][CellOf[f]] = call[f].fetched_at]
    /\ unpruned' = [unpruned EXCEPT ![CellOf[f]] = call[f].fetched_at]
    /\ Release(f)
    /\ Answer(f, call[f].place, "live", call[f].fetched_at)
    /\ UNCHANGED <<kind, clock, pruning, failures, observed>>

\* The write is lost, and the reading returned all the same.
StoreFails(f) ==
    /\ pc[f] \in {"store", "storing"}
    /\ failures < MaxFailures
    /\ failures' = failures + 1
    /\ Release(f)
    /\ Answer(f, call[f].place, "live", call[f].fetched_at)
    /\ UNCHANGED <<kind, clock, kept, pruning, history>>

-----------------------------------------------------------------------------
(* prune_stale_weather, by each worker's housekeeping *)

\* FOR UPDATE SKIP LOCKED reads the rows behind the cursor that nobody holds.
Readable(w) ==
    {c \in Cells : /\ c > after[w]
                   /\ kept[Shared][c] # None
                   /\ kind = "postgresql" => rowLock[c] = None}

\* ORDER BY cell LIMIT PageSize.
Page(w) ==
    {c \in Readable(w) : Cardinality({d \in Readable(w) : d < c}) < PageSize}

\* Mutant: a page with nothing to delete ends the pass.
EndsPassEarly(w) == \A c \in Page(w) : ~Expired(kept[Shared][c], clock)

EndsPass(w) == Page(w) = {}

\* A page is read and judged. On Postgres its rows are held until it commits.
PruneRead(w) ==
    /\ pc[w] = "page"
    /\ ~EndsPass(w)
    /\ LET page == Page(w)
       IN  /\ rowLock' = IF kind = "postgresql"
                         THEN [c \in Cells |-> IF c \in page THEN w ELSE rowLock[c]]
                         ELSE rowLock
           /\ judged' = [judged EXCEPT ![w] =
                            {<<c, kept[Shared][c]>> :
                                c \in {d \in page : Expired(kept[Shared][d], clock)}}]
           /\ \E last \in page :
               /\ \A c \in page : c <= last
               /\ after' = [after EXCEPT ![w] = last]
    /\ Goto(w, "delete")
    /\ UNCHANGED <<kind, clock, kept, call, failures, history>>

\* The pass returns; the next one starts from the first cell.
PruneEnd(w) ==
    /\ pc[w] = "page"
    /\ EndsPass(w)
    /\ after' = [after EXCEPT ![w] = 0]
    /\ UNCHANGED <<kind, clock, kept, rowLock, pc, call, judged, failures, history>>

\* Mutant: the delete names the cells only.
UnchangedByCell(w, c) == \E row \in judged[w] : row[1] = c

\* _unchanged: the row still holds the reading that was judged.
Unchanged(w, c) == <<c, kept[Shared][c]>> \in judged[w]

\* The delete, and the commit of the page's transaction.
PruneDelete(w) ==
    /\ pc[w] = "delete"
    /\ kept' = [kept EXCEPT ![Shared] =
                   [c \in Cells |-> IF Unchanged(w, c) THEN None ELSE kept[Shared][c]]]
    /\ judged' = [judged EXCEPT ![w] = {}]
    /\ Release(w)
    /\ Goto(w, "page")
    /\ UNCHANGED <<kind, clock, call, after, failures, history>>

\* Mutant: the failed page's transaction is left open.
PruneFailsOpen(w) ==
    /\ pc[w] \in {"page", "delete"}
    /\ failures < MaxFailures
    /\ failures' = failures + 1
    /\ judged' = [judged EXCEPT ![w] = {}]
    /\ after' = [after EXCEPT ![w] = 0]
    /\ Goto(w, "page")
    /\ UNCHANGED <<kind, clock, kept, rowLock, call, history>>

\* The pass fails and is logged; the page in hand is rolled back.
PruneFails(w) ==
    /\ pc[w] \in {"page", "delete"}
    /\ failures < MaxFailures
    /\ failures' = failures + 1
    /\ judged' = [judged EXCEPT ![w] = {}]
    /\ after' = [after EXCEPT ![w] = 0]
    /\ Release(w)
    /\ Goto(w, "page")
    /\ UNCHANGED <<kind, clock, kept, call, history>>

-----------------------------------------------------------------------------

\* The timer of asyncio.timeout is punctual: no tick passes a deadline that is due.
Tick ==
    /\ clock < MaxClock \/ \E f \in Fetches : pc[f] = "request"
    /\ \A f \in Fetches : pc[f] = "request" => ~DeadlinePassed(f)
    /\ clock' = clock + 1
    /\ UNCHANGED <<kind, kept, rowLock, pc, call, pruning, failures, history>>

Next ==
    \/ \E f \in Fetches :
        \/ Load(f) \/ LoadFails(f)
        \/ Unreachable(f) \/ TimedOut(f) \/ Unusable(f) \/ NotAnObject(f) \/ Parsed(f)
        \/ StoreBegin(f) \/ StoreCommit(f) \/ StoreFails(f)
    \/ \E w \in Pruners :
        PruneRead(w) \/ PruneEnd(w) \/ PruneDelete(w) \/ PruneFails(w)
    \/ Tick

Spec == Init /\ [][Next]_vars

PruneStep(w) == PruneRead(w) \/ PruneEnd(w) \/ PruneDelete(w)

\* Time passes, a timer that is due fires, the database answers and hands a row to
\* whoever has waited for it, and housekeeping goes on and comes round again. The
\* provider need never answer.
FairSpec ==
    /\ Spec
    /\ WF_vars(Tick)
    /\ \A f \in Fetches : WF_vars(TimedOut(f)) /\ SF_vars(StoreBegin(f)) /\ WF_vars(StoreCommit(f))
    /\ \A w \in Pruners : WF_vars(PruneStep(w))

-----------------------------------------------------------------------------
(* Properties *)

\* "A degraded reading must never be indistinguishable from a live one": a live
\* answer was parsed by this very fetch, a cached one by an earlier fetch of the same
\* cell through the same cache, and the defaults carry no date.
SourceIsHonest ==
    \A f \in {g \in Fetches : pc[g] = "answered"} :
        LET answer == call[f]
        IN  CASE answer.source = "live" -> <<f, answer.fetched_at>> \in observed
              [] answer.source \in {"cached_fresh", "cached_stale"} ->
                     \E g \in Fetches \ {f} : /\ CellOf[g] = CellOf[f]
                                              /\ call[g].place = answer.place
                                              /\ <<g, answer.fetched_at>> \in observed
              [] OTHER -> answer.fetched_at = None

\* A cached reading is inside its freshness window when it is served as fresh. One that
\* stands in during an outage is past it, and its age was judged before the request: it
\* is at most the deadline older than the stale maximum, however many attempts were made.
AgeFitsSource ==
    \A f \in {g \in Fetches : pc[g] = "answered"} :
        LET answer == call[f]
        IN  /\ answer.source = "cached_fresh" => answer.at <= answer.fetched_at + CacheTtl
            /\ answer.source = "cached_stale" =>
                   /\ answer.at > answer.fetched_at + CacheTtl
                   /\ answer.at <= answer.fetched_at + StaleMaxAge + Deadline

\* What a fetch can make of a reading.
Usable(reading) == StandIn(reading)

\* prune_stale_weather: "pruning changes no answer". Whatever is stored while it pages,
\* judges and deletes, the table offers every fetch what the unpruned table would.
PruningChangesNoAnswer ==
    \A c \in Cells : Usable(kept[Shared][c]) = Usable(unpruned[c])

\* prune_stale_weather: a row past the stale maximum goes, or is replaced, even behind
\* pages of live rows, when its row was being stored, or when a pass fails.
ExpiredRowGoes ==
    \A c \in Cells : Expired(kept[Shared][c], clock) ~> ~Expired(kept[Shared][c], clock)

\* fetch is bounded by its deadline: a call that has asked the provider ends, though
\* the provider may never answer.
EveryFetchEnds ==
    \A f \in Fetches : pc[f] = "request" ~> pc[f] \in {"answered", "raised"}
=============================================================================
