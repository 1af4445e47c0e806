----------------------------- MODULE MissionThreads -----------------------------
(***************************************************************************)
(* The life of one planning thread's row and checkpoints (db/retention.py):*)
(* it is planned, acknowledged and replanned, grows older than the         *)
(* retention window, and is purged with its replan children by whichever   *)
(* worker's housekeeping claims it first.                                  *)
(*                                                                         *)
(* The thread is member 0 of its family and its nth replan child member n. *)
(* The database is Postgres: a plain SELECT reads what is committed, an    *)
(* UPDATE, DELETE or SELECT FOR UPDATE waits for the row's lock. The       *)
(* checkpointer commits by itself, outside the row's transaction.          *)
(***************************************************************************)
EXTENDS Naturals, FiniteSets

CONSTANTS
    None,
    Plans,         \* POST /api/plan on this thread id
    Acks,          \* POST /api/plan/{id}/ack
    Replans,       \* POST /api/replan against this thread
    Workers,       \* processes whose housekeeping purges
    OwnThreads,    \* child ids that a client once planned as threads of their own
    AuthOn,        \* whether a thread is visible only with a row
    MaxChild,      \* bound on child ids; large enough for every reservation
    MaxFailures    \* bound on purge passes whose checkpoint delete fails

ASSUME ThreadsAssumption ==
    /\ None \notin Plans \cup Acks \cup Replans \cup Workers
    /\ Plans \cap Acks = {} /\ Plans \cap Replans = {} /\ Acks \cap Replans = {}
    /\ Workers \cap (Plans \cup Acks \cup Replans) = {}
    /\ OwnThreads \subseteq Nat \ {0}
    /\ AuthOn \in BOOLEAN
    /\ MaxChild \in Nat \ {0}
    /\ MaxFailures \in Nat

Requests == Plans \cup Acks \cup Replans
Processes == Requests \cup Workers

Children == 1 .. MaxChild
Family == 0 .. MaxChild

VARIABLES
    row,         \* the mission_threads row, or None
    rowLock,     \* who holds the row's lock, or None
    store,       \* the members of the family that have checkpoints
    ownRows,     \* the children that are threads of their own, with their own row
    pc,          \* per process, where it is
    child,       \* per replan, the count it read and then the child it was given
    todo,        \* per worker, the members its purge has still to visit
    failures,
    \* History, read by properties only
    planned,     \* rows inserted
    purged,      \* purges committed
    trespassed,  \* a replan ran on a child that was a thread of its own
    began,       \* per request, the rows inserted by the time it began
    late,        \* a run wrote checkpoints when the row it began under was gone
    overtaken    \* a reservation committed over one it had not read

vars == <<row, rowLock, store, ownRows, pc, child, todo, failures,
          planned, purged, trespassed, began, late, overtaken>>

Rows == [replan_count : Family, expired : BOOLEAN]

ASSUME NoneIsNoRow == None \notin Rows

PCs == {"idle", "insert", "run", "read", "resume", "sign", "reserve", "update",
        "claim", "delete", "done"}

TypeOK ==
    /\ row \in Rows \cup {None}
    /\ rowLock \in Acks \cup Workers \cup {None}
    /\ store \subseteq Family
    /\ ownRows \subseteq OwnThreads
    /\ pc \in [Processes -> PCs]
    /\ child \in [Replans -> Family]
    /\ todo \in [Workers -> SUBSET Family]
    /\ failures \in 0 .. MaxFailures
    /\ planned \in Nat /\ purged \in Nat
    /\ trespassed \in BOOLEAN
    /\ began \in [Requests -> Nat]
    /\ late \in BOOLEAN /\ overtaken \in BOOLEAN

Init ==
    /\ row = None
    /\ rowLock = None
    /\ store = OwnThreads \cap Children
    /\ ownRows = OwnThreads
    /\ pc = [q \in Processes |-> "idle"]
    /\ child = [r \in Replans |-> 0]
    /\ todo = [w \in Workers |-> {}]
    /\ failures = 0
    /\ planned = 0 /\ purged = 0
    /\ trespassed = FALSE
    /\ began = [q \in Requests |-> 0]
    /\ late = FALSE /\ overtaken = FALSE

Goto(q, label) == pc' = [pc EXCEPT ![q] = label]

Visible == AuthOn => row # None

Begin(q, rows) == began' = [began EXCEPT ![q] = rows]

\* The row that request q began under is gone, or a purge of it is under way.
RowGone(q) == row = None \/ began[q] # planned \/ rowLock \in Workers

\* A run of request q writes the checkpoints of a member of the family.
WriteCheckpoints(q, member) ==
    /\ store' = store \cup {member}
    /\ late' = (late \/ RowGone(q))

-----------------------------------------------------------------------------
(* POST /api/plan *)

\* record_thread: an existing row keeps its creation time, however old.
PlanRecord(p) ==
    /\ pc[p] = "idle"
    /\ Goto(p, IF row = None THEN "insert" ELSE "run")
    /\ Begin(p, planned)
    /\ UNCHANGED <<row, rowLock, store, ownRows, child, todo, failures, planned, purged, trespassed, late, overtaken>>

\* Its INSERT and COMMIT. A row that another plan has committed since is an
\* IntegrityError, one that is being deleted is waited for.
PlanInsert(p) ==
    /\ pc[p] = "insert"
    /\ rowLock \notin Workers
    /\ \/ /\ row = None
          /\ row' = [replan_count |-> 0, expired |-> FALSE]
          /\ planned' = planned + 1
          /\ Begin(p, planned + 1)
          /\ Goto(p, "run")
       \/ /\ row # None
          /\ Goto(p, "done")
          /\ UNCHANGED <<row, planned, began>>
    /\ UNCHANGED <<rowLock, store, ownRows, child, todo, failures, purged, trespassed, late, overtaken>>

PlanRun(p) ==
    /\ p \in Plans /\ pc[p] = "run"
    /\ WriteCheckpoints(p, 0)
    /\ Goto(p, "done")
    /\ UNCHANGED <<row, rowLock, ownRows, child, todo, failures, planned, purged, trespassed, began, overtaken>>

-----------------------------------------------------------------------------
(* POST /api/plan/{thread_id}/ack *)

\* lock_thread_for_update: with no row there is nothing to lock.
AckLock(a) ==
    /\ pc[a] = "idle"
    /\ Visible
    /\ rowLock = None
    /\ rowLock' = IF row = None THEN None ELSE a
    /\ Goto(a, "read")
    /\ Begin(a, planned)
    /\ UNCHANGED <<row, store, ownRows, child, todo, failures, planned, purged, trespassed, late, overtaken>>

AckRefuse(a) ==
    /\ pc[a] = "read"
    /\ 0 \notin store
    /\ rowLock' = IF rowLock = a THEN None ELSE rowLock
    /\ Goto(a, "done")
    /\ UNCHANGED <<row, store, ownRows, child, todo, failures, planned, purged, trespassed, began, late, overtaken>>

AckAccept(a) ==
    /\ pc[a] = "read"
    /\ 0 \in store
    /\ Goto(a, "resume")
    /\ UNCHANGED <<row, rowLock, store, ownRows, child, todo, failures, planned, purged, trespassed, began, late, overtaken>>

AckResume(a) ==
    /\ pc[a] = "resume"
    /\ WriteCheckpoints(a, 0)
    /\ Goto(a, "sign")
    /\ UNCHANGED <<row, rowLock, ownRows, child, todo, failures, planned, purged, trespassed, began, overtaken>>

\* record_acknowledgement, when a row was locked, and the release of the lock.
AckSign(a) ==
    /\ pc[a] = "sign"
    /\ rowLock' = IF rowLock = a THEN None ELSE rowLock
    /\ Goto(a, "done")
    /\ UNCHANGED <<row, store, ownRows, child, todo, failures, planned, purged, trespassed, began, late, overtaken>>

-----------------------------------------------------------------------------
(* POST /api/replan *)

\* aget_state of the parent: an unknown one is refused.
ReplanRead(r) ==
    /\ pc[r] = "idle"
    /\ Visible
    /\ Goto(r, IF 0 \in store THEN "reserve" ELSE "done")
    /\ Begin(r, planned)
    /\ UNCHANGED <<row, rowLock, store, ownRows, child, todo, failures, planned, purged, trespassed, late, overtaken>>

\* next_replan_thread_id up to its SELECT. Without a row: the KeyError, and child 1.
ReplanReserve(r) ==
    /\ pc[r] = "reserve"
    /\ IF row = None
       THEN /\ child' = [child EXCEPT ![r] = 1]
            /\ Goto(r, "run")
       ELSE /\ child' = [child EXCEPT ![r] = row.replan_count]
            /\ Goto(r, "update")
    /\ UNCHANGED <<row, rowLock, store, ownRows, todo, failures, planned, purged, trespassed, began, late, overtaken>>

\* n is the first child past the count that is not a thread of its own.
NextChild(count, n) ==
    /\ n > count
    /\ n \notin ownRows
    /\ (count + 1) .. (n - 1) \subseteq ownRows

\* Its UPDATE and COMMIT write the count computed from the row it read. If the row
\* is gone by then the UPDATE matches nothing, and the request fails.
ReplanUpdate(r) ==
    /\ pc[r] = "update"
    /\ rowLock = None
    /\ IF row = None
       THEN /\ Goto(r, "done")
            /\ UNCHANGED <<row, child, overtaken>>
       ELSE /\ \E n \in Children :
                /\ NextChild(child[r], n)
                /\ row' = [row EXCEPT !.replan_count = n]
                /\ child' = [child EXCEPT ![r] = n]
            /\ overtaken' = (overtaken \/ row.replan_count # child[r])
            /\ Goto(r, "run")
    /\ UNCHANGED <<rowLock, store, ownRows, todo, failures, planned, purged, trespassed, began, late>>

\* The replan graph runs on the child thread and reads nothing of the parent.
ReplanRun(r) ==
    /\ r \in Replans /\ pc[r] = "run"
    /\ WriteCheckpoints(r, child[r])
    /\ trespassed' = (trespassed \/ child[r] \in ownRows)
    /\ Goto(r, "done")
    /\ UNCHANGED <<row, rowLock, ownRows, child, todo, failures, planned, purged, began, overtaken>>

-----------------------------------------------------------------------------
(* Housekeeping *)

\* The row's created_at falls behind the cutoff.
Expire ==
    /\ row # None /\ ~row.expired
    /\ row' = [row EXCEPT !.expired = TRUE]
    /\ UNCHANGED <<rowLock, store, ownRows, pc, child, todo, failures, planned, purged, trespassed, began, late, overtaken>>

\* A child that is a thread of its own is purged, as a thread of its own.
OwnThreadPurged(n) ==
    /\ n \in ownRows
    /\ ownRows' = ownRows \ {n}
    /\ store' = store \ {n}
    /\ UNCHANGED <<row, rowLock, pc, child, todo, failures, planned, purged, trespassed, began, late, overtaken>>

\* _expired_thread_ids lists the thread.
PurgeList(w) ==
    /\ pc[w] = "idle"
    /\ row # None /\ row.expired
    /\ Goto(w, "claim")
    /\ UNCHANGED <<row, rowLock, store, ownRows, child, todo, failures, planned, purged, trespassed, began, late, overtaken>>

\* Mutant: a claim that finds no row purges the thread's own checkpoints anyway.
PurgeClaimAnyway(w) ==
    /\ pc[w] = "claim"
    /\ rowLock = None
    /\ rowLock' = w
    /\ todo' = [todo EXCEPT ![w] = 0 .. (IF row = None THEN 0 ELSE row.replan_count)]
    /\ Goto(w, "delete")
    /\ UNCHANGED <<row, store, ownRows, child, failures, planned, purged, trespassed, began, late, overtaken>>

\* Mutant: the claim reads the row instead of deleting it.
PurgeClaimUnlocked(w) ==
    /\ pc[w] = "claim"
    /\ IF row = None
       THEN Goto(w, "idle") /\ UNCHANGED todo
       ELSE /\ todo' = [todo EXCEPT ![w] = 0 .. row.replan_count]
            /\ Goto(w, "delete")
    /\ UNCHANGED <<row, rowLock, store, ownRows, child, failures, planned, purged, trespassed, began, late, overtaken>>

\* DELETE ... RETURNING replan_count claims the thread: another worker's waits for
\* this one and then finds nothing. The row stays visible until the commit.
PurgeClaim(w) ==
    /\ pc[w] = "claim"
    /\ rowLock = None
    /\ IF row = None
       THEN Goto(w, "idle") /\ UNCHANGED <<rowLock, todo>>
       ELSE /\ rowLock' = w
            /\ todo' = [todo EXCEPT ![w] = 0 .. row.replan_count]
            /\ Goto(w, "delete")
    /\ UNCHANGED <<row, store, ownRows, child, failures, planned, purged, trespassed, began, late, overtaken>>

\* Mutant: every member of the family is deleted, whoever owns it.
SparedNobody(member) == FALSE

Spared(member) == member # 0 /\ member \in ownRows

\* adelete_thread of the next member, unless it is a thread of its own.
PurgeDelete(w) ==
    /\ pc[w] = "delete"
    /\ \E member \in todo[w] :
        /\ \A other \in todo[w] : member <= other
        /\ store' = IF Spared(member) THEN store ELSE store \ {member}
        /\ todo' = [todo EXCEPT ![w] = @ \ {member}]
    /\ UNCHANGED <<row, rowLock, ownRows, pc, child, failures, planned, purged, trespassed, began, late, overtaken>>

\* The transaction ends: the row is gone.
PurgeCommit(w) ==
    /\ pc[w] = "delete"
    /\ todo[w] = {}
    /\ row' = None
    /\ rowLock' = None
    /\ purged' = purged + 1
    /\ Goto(w, "idle")
    /\ UNCHANGED <<store, ownRows, child, todo, failures, planned, trespassed, began, late, overtaken>>

\* Mutant: the row's deletion is committed before the checkpoints are deleted.
PurgeFailCommitted(w) ==
    /\ pc[w] = "delete"
    /\ failures < MaxFailures
    /\ failures' = failures + 1
    /\ row' = None
    /\ rowLock' = None
    /\ purged' = purged + 1
    /\ todo' = [todo EXCEPT ![w] = {}]
    /\ Goto(w, "idle")
    /\ UNCHANGED <<store, ownRows, child, planned, trespassed, began, late, overtaken>>

\* Mutant: a failed delete leaves the transaction open.
PurgeFailOpen(w) ==
    /\ pc[w] = "delete"
    /\ failures < MaxFailures
    /\ failures' = failures + 1
    /\ todo' = [todo EXCEPT ![w] = {}]
    /\ Goto(w, "idle")
    /\ UNCHANGED <<row, rowLock, store, ownRows, child, planned, purged, trespassed, began, late, overtaken>>

\* A checkpoint delete raises, or the worker dies: the transaction rolls back, and
\* what was deleted of the checkpoints stays deleted. The next pass retries.
PurgeFail(w) ==
    /\ pc[w] = "delete"
    /\ failures < MaxFailures
    /\ failures' = failures + 1
    /\ rowLock' = None
    /\ todo' = [todo EXCEPT ![w] = {}]
    /\ Goto(w, "idle")
    /\ UNCHANGED <<row, store, ownRows, child, planned, purged, trespassed, began, late, overtaken>>

-----------------------------------------------------------------------------

AckStep(a) == AckRefuse(a) \/ AckAccept(a) \/ AckResume(a) \/ AckSign(a)
ReplanStep(r) == ReplanReserve(r) \/ ReplanUpdate(r) \/ ReplanRun(r)
PurgeStep(w) == PurgeList(w) \/ PurgeClaim(w) \/ PurgeDelete(w) \/ PurgeCommit(w)

\* Nothing more happens once every request is answered and nothing is left to purge.
Terminated ==
    /\ row = None
    /\ \A q \in Processes : pc[q] = IF q \in Workers THEN "idle" ELSE "done"
    /\ UNCHANGED vars

Next ==
    \/ \E p \in Plans : PlanRecord(p) \/ PlanInsert(p) \/ PlanRun(p)
    \/ \E a \in Acks : AckLock(a) \/ AckStep(a)
    \/ \E r \in Replans : ReplanRead(r) \/ ReplanStep(r)
    \/ \E w \in Workers : PurgeStep(w) \/ PurgeFail(w)
    \/ \E n \in OwnThreads : OwnThreadPurged(n)
    \/ Expire
    \/ Terminated

Spec == Init /\ [][Next]_vars

\* main.py, _housekeep_forever: every worker repeats the pass for as long as it
\* lives, and a request once begun is driven to its answer.
FairSpec ==
    /\ Spec
    /\ \A a \in Acks : WF_vars(AckStep(a))
    /\ \A r \in Replans : WF_vars(ReplanStep(r))
    /\ \A w \in Workers : WF_vars(PurgeStep(w))

-----------------------------------------------------------------------------
(* Properties *)

\* _purge_thread: "each thread is purged once however many workers run the pass".
\* Every row ever inserted is either the one in the table or was purged, once.
PurgedOnce == planned = purged + (IF row = None THEN 0 ELSE 1)

\* _purge_thread: a failure rolls the row back "so the next pass retries instead of
\* orphaning a checkpoint". Checkpoints of the family are always within reach of a
\* purge, unless a run outlived its row or two reservations overtook each other.
NoOrphanedCheckpoint ==
    ~late /\ ~overtaken =>
        \A member \in store \ ownRows :
            row # None /\ member <= row.replan_count

\* While an acknowledgement holds the row, no purge takes the thread from under it:
\* the row it is about to sign is there, and so are the checkpoints it resumes.
SignedThreadIsThere ==
    \A a \in Acks :
        rowLock = a /\ pc[a] \in {"resume", "sign"} => row # None /\ 0 \in store

\* "A child id with a row of its own is someone's thread, not a replan": neither
\* the purge of its parent nor a replan touches it.
OwnThreadsUntouched ==
    ~late => ~trespassed /\ ownRows \cap Children \subseteq store

\* main.py: every worker repeats retention, so an expired thread goes, whatever
\* failed on the way and whoever held its lock.
ExpiredThreadGoes == (row # None /\ row.expired) ~> row = None

-----------------------------------------------------------------------------
(* Statements of the repository's documents that the code does not keep *)

\* next_replan_thread_id: "two concurrent replans of the same mission cannot be
\* given the same child thread".
DistinctChildren ==
    \A r, q \in Replans :
        r # q /\ pc[r] = "run" /\ pc[q] = "run" /\ purged = 0 => child[r] # child[q]
=============================================================================
