------------------------------ MODULE RateLimiter ------------------------------
(***************************************************************************)
(* The rate limiters of api/ratelimit.py, for the bucket of one client:    *)
(* DatabaseLimiter, which every worker shares, with the housekeeping that  *)
(* prunes its table, and SlidingWindowLimiter, which a process keeps to    *)
(* itself.                                                                 *)
(*                                                                         *)
(* An admission of the former is one transaction that holds the bucket     *)
(* from its upsert to its commit: the row's lock on Postgres, the writer   *)
(* lock on SQLite. A pruner reads under FOR UPDATE SKIP LOCKED on Postgres *)
(* and under no lock on SQLite. The latter decides between two awaits, and *)
(* forgets every client once it tracks too many. Time is in ticks of one   *)
(* clock.                                                                  *)
(***************************************************************************)
EXTENDS Naturals, FiniteSets

CONSTANTS
    None,
    Requests,       \* calls of admit for this client, on any worker
    Pruners,        \* workers whose housekeeping prunes
    MaxRequests,    \* rate_limit_requests
    Window,         \* rate_limit_window_s, in ticks
    Second,         \* ticks in a second
    Kinds,          \* the databases to consider, or the memory of a process
    MaxClock,       \* bound on the clock
    MaxFailures     \* bound on transactions that fail

ASSUME LimiterAssumption ==
    /\ None \notin Requests \cup Pruners
    /\ Requests \cap Pruners = {}
    /\ MaxRequests \in Nat \ {0} /\ Window \in Nat \ {0} /\ Second \in Nat \ {0}
    /\ Kinds \subseteq {"postgresql", "sqlite", "memory"}
    /\ MaxClock \in Nat /\ MaxFailures \in Nat

VARIABLES
    kind,
    clock,
    bucket,      \* the hits kept: of the committed row, or of the process
    lock,        \* the transaction that holds the bucket, or None
    pc,
    seen,        \* per request, the hits inside the window that it read
    now,         \* per request, the clock when it read them
    retryAfter,  \* per request, its answer in seconds: 0 when admitted
    judged,      \* per pruner, the hits it judged idle
    failures,
    admitted,    \* history: every hit admitted
    forgotten    \* history: those a process has cleared

history == <<admitted, forgotten>>
vars == <<kind, clock, bucket, lock, pc, seen, now, retryAfter, judged, failures, history>>

Hits == [id : Requests, at : Nat]

TypeOK ==
    /\ kind \in Kinds
    /\ clock \in Nat
    /\ bucket \subseteq Hits
    /\ lock \in Requests \cup Pruners \cup {None}
    /\ pc \in [Requests \cup Pruners ->
                   {"idle", "locked", "deciding", "delete", "admitted", "refused", "failed"}]
    /\ seen \in [Requests -> SUBSET Hits]
    /\ now \in [Requests -> Nat]
    /\ retryAfter \in [Requests -> Nat]
    /\ judged \in [Pruners -> SUBSET Hits]
    /\ failures \in 0 .. MaxFailures
    /\ admitted \subseteq Hits
    /\ forgotten \subseteq Hits

Init ==
    /\ kind \in Kinds
    /\ clock = 0
    /\ bucket = {}
    /\ lock = None
    /\ pc = [x \in Requests \cup Pruners |-> "idle"]
    /\ seen = [q \in Requests |-> {}]
    /\ now = [q \in Requests |-> 0]
    /\ retryAfter = [q \in Requests |-> 0]
    /\ judged = [w \in Pruners |-> {}]
    /\ failures = 0
    /\ admitted = {}
    /\ forgotten = {}

Goto(x, label) == pc' = [pc EXCEPT ![x] = label]

-----------------------------------------------------------------------------
(* DatabaseLimiter.admit *)

\* Mutant: the upsert does nothing for a row that exists, and the SELECT is plain.
TouchUnlocked(q) ==
    /\ kind # "memory"
    /\ pc[q] = "idle"
    /\ Goto(q, "locked")
    /\ UNCHANGED <<kind, clock, bucket, lock, seen, now, retryAfter, judged, failures, history>>

\* Insert-or-touch waits for whoever holds the row, and holds it from then on. A row
\* it inserts is not visible before the commit.
Touch(q) ==
    /\ kind # "memory"
    /\ pc[q] = "idle"
    /\ lock = None
    /\ lock' = q
    /\ Goto(q, "locked")
    /\ UNCHANGED <<kind, clock, bucket, seen, now, retryAfter, judged, failures, history>>

\* Mutant: a hit exactly one window old still counts.
LiveInclusive(hits, t) == {h \in hits : h.at + Window >= t}

\* "hit > now - window_s"
Live(hits, t) == {h \in hits : h.at + Window > t}

\* SELECT FOR UPDATE, and the clock read under the lock.
Read(q) ==
    /\ pc[q] = "locked"
    /\ seen' = [seen EXCEPT ![q] = Live(bucket, clock)]
    /\ now' = [now EXCEPT ![q] = clock]
    /\ Goto(q, "deciding")
    /\ UNCHANGED <<kind, clock, bucket, lock, retryAfter, judged, failures, history>>

Admit(q) ==
    /\ pc[q] = "deciding"
    /\ Cardinality(seen[q]) < MaxRequests
    /\ LET hit == [id |-> q, at |-> now[q]]
       IN  /\ bucket' = seen[q] \cup {hit}
           /\ admitted' = admitted \cup {hit}
    /\ lock' = None
    /\ Goto(q, "admitted")
    /\ UNCHANGED <<kind, clock, seen, now, retryAfter, judged, failures, forgotten>>

\* Mutant: the fraction of a second that int() drops is not added back.
RetryAfterTruncated(oldest, t) ==
    LET whole == ((oldest + Window) - t) \div Second IN IF whole < 1 THEN 1 ELSE whole

\* _retry_after_s: int() of the time left, plus one, and at least one.
RetryAfter(oldest, t) ==
    LET whole == ((oldest + Window) - t) \div Second + 1 IN IF whole < 1 THEN 1 ELSE whole

\* The oldest hit stands first in the list, as they are appended in time.
Refuse(q) ==
    /\ pc[q] = "deciding"
    /\ Cardinality(seen[q]) >= MaxRequests
    /\ bucket' = seen[q]
    /\ \E oldest \in seen[q] :
        /\ \A h \in seen[q] : oldest.at <= h.at
        /\ retryAfter' = [retryAfter EXCEPT ![q] = RetryAfter(oldest.at, now[q])]
    /\ lock' = None
    /\ Goto(q, "refused")
    /\ UNCHANGED <<kind, clock, seen, now, judged, failures, history>>

\* Mutant: the connection goes back to the pool with its transaction open.
FailOpen(q) ==
    /\ pc[q] \in {"locked", "deciding"}
    /\ failures < MaxFailures
    /\ failures' = failures + 1
    /\ Goto(q, "failed")
    /\ UNCHANGED <<kind, clock, bucket, lock, seen, now, retryAfter, judged, history>>

\* The transaction fails, or the worker dies in it: rolled back, nothing decided.
Fail(q) ==
    /\ pc[q] \in {"locked", "deciding"}
    /\ failures < MaxFailures
    /\ failures' = failures + 1
    /\ lock' = None
    /\ Goto(q, "failed")
    /\ UNCHANGED <<kind, clock, bucket, seen, now, retryAfter, judged, history>>

-----------------------------------------------------------------------------
(* prune_idle_buckets *)

\* A page is read, and the bucket found idle. On Postgres a bucket that somebody
\* holds is skipped, and this one is held until the page's transaction ends.
PruneRead(w) ==
    /\ kind # "memory"
    /\ pc[w] = "idle"
    /\ bucket # {}
    /\ \A h \in bucket : h.at + Window <= clock
    /\ IF kind = "postgresql"
       THEN lock = None /\ lock' = w
       ELSE UNCHANGED lock
    /\ judged' = [judged EXCEPT ![w] = bucket]
    /\ Goto(w, "delete")
    /\ UNCHANGED <<kind, clock, bucket, seen, now, retryAfter, failures, history>>

\* Mutant: the delete names the bucket only.
PruneDeleteByKey(w) ==
    /\ pc[w] = "delete"
    /\ lock \in {None, w}
    /\ bucket' = {}
    /\ judged' = [judged EXCEPT ![w] = {}]
    /\ lock' = None
    /\ Goto(w, "idle")
    /\ UNCHANGED <<kind, clock, seen, now, retryAfter, failures, history>>

\* The delete matches the stored hits that were judged, and the page commits.
PruneDelete(w) ==
    /\ pc[w] = "delete"
    /\ lock \in {None, w}
    /\ bucket' = IF bucket = judged[w] THEN {} ELSE bucket
    /\ judged' = [judged EXCEPT ![w] = {}]
    /\ lock' = None
    /\ Goto(w, "idle")
    /\ UNCHANGED <<kind, clock, seen, now, retryAfter, failures, history>>

-----------------------------------------------------------------------------
(* SlidingWindowLimiter.admit *)

\* Too many clients are tracked, this one among them: all of them are forgotten.
Cleared(hits) ==
    \/ bucket' = hits /\ UNCHANGED forgotten
    \/ bucket' = {} /\ forgotten' = forgotten \cup hits

AdmitInProcess(q) ==
    /\ kind = "memory"
    /\ pc[q] = "idle"
    /\ Cardinality(Live(bucket, clock)) < MaxRequests
    /\ LET hit == [id |-> q, at |-> clock]
       IN  /\ Cleared(Live(bucket, clock) \cup {hit})
           /\ admitted' = admitted \cup {hit}
    /\ Goto(q, "admitted")
    /\ UNCHANGED <<kind, clock, lock, seen, now, retryAfter, judged, failures>>

\* The clock is read twice, with nothing in between.
RefuseInProcess(q) ==
    /\ kind = "memory"
    /\ pc[q] = "idle"
    /\ Cardinality(Live(bucket, clock)) >= MaxRequests
    /\ bucket' = Live(bucket, clock)
    /\ seen' = [seen EXCEPT ![q] = Live(bucket, clock)]
    /\ now' = [now EXCEPT ![q] = clock]
    /\ \E oldest \in Live(bucket, clock) :
        /\ \A h \in Live(bucket, clock) : oldest.at <= h.at
        /\ retryAfter' = [retryAfter EXCEPT ![q] = RetryAfter(oldest.at, clock)]
    /\ Goto(q, "refused")
    /\ UNCHANGED <<kind, clock, lock, judged, failures, history>>

\* Another client's admission is the one too many.
Evict ==
    /\ kind = "memory"
    /\ bucket # {}
    /\ bucket' = {}
    /\ forgotten' = forgotten \cup bucket
    /\ UNCHANGED <<kind, clock, lock, pc, seen, now, retryAfter, judged, failures, admitted>>

-----------------------------------------------------------------------------

Tick ==
    /\ clock < MaxClock
    /\ clock' = clock + 1
    /\ UNCHANGED <<kind, bucket, lock, pc, seen, now, retryAfter, judged, failures, history>>

Decided(q) == pc[q] \in {"admitted", "refused", "failed"}

Terminated ==
    /\ \A q \in Requests : Decided(q)
    /\ \A w \in Pruners : pc[w] = "idle"
    /\ clock = MaxClock
    /\ UNCHANGED vars

AdmitStep(q) ==
    \/ Touch(q) \/ Read(q) \/ Admit(q) \/ Refuse(q)
    \/ AdmitInProcess(q) \/ RefuseInProcess(q)

Next ==
    \/ \E q \in Requests : AdmitStep(q) \/ Fail(q)
    \/ \E w \in Pruners : PruneRead(w) \/ PruneDelete(w)
    \/ Evict
    \/ Tick
    \/ Terminated

Spec == Init /\ [][Next]_vars

\* A call goes on whenever the database lets it, and a prune that has begun goes on
\* to its end. Nothing makes the housekeeping run, and nothing need.
FairSpec ==
    /\ Spec
    /\ \A q \in Requests : WF_vars(AdmitStep(q))
    /\ \A w \in Pruners : WF_vars(PruneDelete(w))

-----------------------------------------------------------------------------
(* Properties *)

InWindow(t) == {h \in admitted : h.at <= t /\ t < h.at + Window}

\* What a limiter is answerable for: a process has said it may forget.
Counted(t) == InWindow(t) \ forgotten

\* DatabaseLimiter: "the ceiling holds exactly", whatever the worker count and
\* whatever is pruned meanwhile: at no time are there more than MaxRequests
\* admissions within one window; and a process exceeds its own budget by exactly
\* the admissions it was made to forget.
Ceiling ==
    /\ Cardinality(Counted(clock)) <= MaxRequests
    /\ kind # "memory" => forgotten = {}

\* The same from the client's side: whoever was refused met a full window.
NoEarlyRefusal ==
    \A q \in Requests : pc[q] = "refused" => Cardinality(InWindow(now[q])) >= MaxRequests

\* prune_idle_buckets: "pruning changes no decision". The table never forgets an
\* admission inside the window, and never holds a hit that was not admitted.
PruningForgetsNothing ==
    /\ Counted(clock) \subseteq bucket
    /\ bucket \subseteq admitted

\* _retry_after_s: a client that waits as long as it was told finds room, as long as
\* nobody is in its way who was not there when it was refused.
RetryAfterSuffices ==
    \A q \in Requests :
        /\ pc[q] = "refused"
        /\ clock >= now[q] + retryAfter[q] * Second
        /\ Counted(clock) \subseteq seen[q]
        => Cardinality(Counted(clock)) < MaxRequests

\* Every call of admit is decided, whatever fails and whatever is pruned.
EveryCallIsDecided == \A q \in Requests : <>Decided(q)
=============================================================================
