------------------------------- MODULE Startup --------------------------------
(***************************************************************************)
(* Workers starting together against one Postgres database: the lifespan   *)
(* of main.py through prepare_schema, the seed and the checkpointer's      *)
(* setup, beside the deploy's migrate step (alembic/env.py). Everything    *)
(* here is check-then-write, under the two advisory locks of               *)
(* db/startup_lock.py.                                                     *)
(*                                                                         *)
(* What the seed reads and writes is in ReferenceData, which composes.     *)
(***************************************************************************)
EXTENDS Naturals

CONSTANTS
    None,
    Workers,
    Migrators,      \* processes that run `docker-entrypoint.sh migrate`
    Migrations,     \* how many checkpoint migrations langgraph ships
    Concurrently,   \* those that CREATE INDEX CONCURRENTLY
    Inherited,      \* the last version an earlier release may have recorded
    MaxFailures     \* bound on processes and requests that die

ASSUME StartupAssumption ==
    /\ Workers \cap Migrators = {} /\ None \notin Workers \cup Migrators
    /\ Migrations \in Nat /\ Concurrently \subseteq 1 .. Migrations
    /\ Inherited \subseteq 0 .. Migrations
    /\ MaxFailures \in Nat

Processes == Workers \cup Migrators

VARIABLES
    owner,      \* who builds the schema: "app", or "alembic" (SUAS_REQUIRE_POSTGRES)
    stage,      \* per process, how far it is
    schema,     \* the application's tables, and whether alembic has stamped them
    lock,       \* per advisory lock key, the process that holds it
    missing,    \* per process, whether it has found that there is something to create
    version,    \* per worker, the migration version it has read or reached
    recorded,   \* the last version in checkpoint_migrations
    awaited,    \* per worker, the waits whose snapshots its CREATE INDEX waits for
    failures

startVars == <<owner, stage, schema, lock, missing, version, recorded, awaited, failures>>

Keys == {"startup", "setup"}

\* A process in one of these is blocked in pg_advisory_xact_lock.
Blocked == {"lock_schema", "lock_seed", "lock_upgrade"}

Stages == Blocked \cup {"down", "inspect", "create", "seed", "poll", "setup", "index",
                        "up", "refused", "failed", "upgrade", "migrated"}

StartupTypeOK ==
    /\ owner \in {"app", "alembic"}
    /\ stage \in [Processes -> Stages]
    /\ schema \in {"absent", "created", "migrated"}
    /\ lock \in [Keys -> Processes \cup {None}]
    /\ missing \in [Processes -> BOOLEAN]
    /\ version \in [Workers -> 0 .. Migrations]
    /\ recorded \in 0 .. Migrations
    /\ awaited \in [Workers -> SUBSET (Processes \X Blocked)]
    /\ failures \in 0 .. MaxFailures

\* A fresh database, or one that an earlier release has served.
StartupInit ==
    /\ owner \in {"app", "alembic"}
    /\ schema \in {"absent", IF owner = "app" THEN "created" ELSE "migrated"}
    /\ recorded \in IF schema = "absent" THEN {0} ELSE Inherited
    /\ stage = [p \in Processes |-> "down"]
    /\ lock = [k \in Keys |-> None]
    /\ missing = [p \in Processes |-> FALSE]
    /\ version = [w \in Workers |-> 0]
    /\ awaited = [w \in Workers |-> {}]
    /\ failures = 0

Goto(p, from, to) == stage[p] = from /\ stage' = [stage EXCEPT ![p] = to]

\* The end of a transaction or of a connection.
Released(p) == [k \in Keys |-> IF lock[k] = p THEN None ELSE lock[k]]

\* Mutant: the seed and the schema before #160, which took no lock.
HoldNothing(p) == lock' = lock

\* hold_startup_lock
HoldStartupLock(p) ==
    /\ lock["startup"] = None
    /\ lock' = [lock EXCEPT !["startup"] = p]

-----------------------------------------------------------------------------
(* prepare_schema *)

\* A worker that was refused is started again by the platform.
Start(w) ==
    /\ stage[w] \in {"down", "refused"}
    /\ stage' = [stage EXCEPT ![w] = IF owner = "app" THEN "lock_schema" ELSE "inspect"]
    /\ UNCHANGED <<owner, schema, lock, missing, version, recorded, awaited, failures>>

\* Where alembic owns the schema the worker only looks whether it is there.
Inspect(w) ==
    /\ Goto(w, "inspect", IF schema = "migrated" THEN "lock_seed" ELSE "refused")
    /\ UNCHANGED <<owner, schema, lock, missing, version, recorded, awaited, failures>>

\* create_all inspects under the lock ...
LockSchema(w) ==
    /\ Goto(w, "lock_schema", "create")
    /\ HoldStartupLock(w)
    /\ missing' = [missing EXCEPT ![w] = schema = "absent"]
    /\ UNCHANGED <<owner, schema, version, recorded, awaited, failures>>

\* ... and creates what it found missing, which fails if it is there by now.
CreateAll(w) ==
    LET taken == missing[w] /\ schema # "absent"
    IN  /\ Goto(w, "create", IF taken THEN "failed" ELSE "lock_seed")
        /\ schema' = IF missing[w] /\ ~taken THEN "created" ELSE schema
        /\ lock' = Released(w)
        /\ UNCHANGED <<owner, missing, version, recorded, awaited, failures>>

-----------------------------------------------------------------------------
(* The migrate step *)

Migrate(m) ==
    /\ owner = "alembic"
    /\ Goto(m, "down", "lock_upgrade")
    /\ UNCHANGED <<owner, schema, lock, missing, version, recorded, awaited, failures>>

LockUpgrade(m) ==
    /\ Goto(m, "lock_upgrade", "upgrade")
    /\ HoldStartupLock(m)
    /\ missing' = [missing EXCEPT ![m] = schema # "migrated"]
    /\ UNCHANGED <<owner, schema, version, recorded, awaited, failures>>

\* On a database without a version row every revision is applied, the one that
\* creates the tables included.
Upgrade(m) ==
    LET taken == missing[m] /\ schema # "absent"
    IN  /\ Goto(m, "upgrade", IF taken THEN "failed" ELSE "migrated")
        /\ schema' = IF taken THEN schema ELSE "migrated"
        /\ lock' = Released(m)
        /\ UNCHANGED <<owner, missing, version, recorded, awaited, failures>>

-----------------------------------------------------------------------------
(* The seed's transaction, and the checkpointer's setup *)

LockSeed(w) ==
    /\ Goto(w, "lock_seed", "seed")
    /\ HoldStartupLock(w)
    /\ UNCHANGED <<owner, schema, missing, version, recorded, awaited, failures>>

\* The seed commits, or a primary key that was free when it looked is taken.
EndSeed(w, taken) ==
    /\ Goto(w, "seed", IF taken THEN "failed" ELSE "poll")
    /\ lock' = Released(w)
    /\ UNCHANGED <<owner, schema, missing, version, recorded, awaited, failures>>

\* startup_lock_session tries, and sleeps while the lock is taken; the holder's setup()
\* reads the recorded version.
Poll(w) ==
    /\ stage[w] = "poll"
    /\ IF lock["setup"] = None
         THEN /\ stage' = [stage EXCEPT ![w] = "setup"]
              /\ lock' = [lock EXCEPT !["setup"] = w]
              /\ version' = [version EXCEPT ![w] = recorded]
         ELSE UNCHANGED <<stage, lock, version>>
    /\ UNCHANGED <<owner, schema, missing, recorded, awaited, failures>>

\* Mutant: waiters block in pg_advisory_lock on the setup key, too.
SnapshotsOfPollers ==
    {<<p, stage[p]>> : p \in {q \in Processes : stage[q] \in Blocked \cup {"poll"}}}

\* The waits that hold a snapshot now.
Snapshots == {<<p, stage[p]>> : p \in {q \in Processes : stage[q] \in Blocked}}

\* An index begins to be built concurrently: it waits for every older snapshot.
BeginIndex(w) ==
    /\ version[w] < Migrations /\ version[w] + 1 \in Concurrently
    /\ Goto(w, "setup", "index")
    /\ awaited' = [awaited EXCEPT ![w] = Snapshots]
    /\ UNCHANGED <<owner, schema, lock, missing, version, recorded, failures>>

\* A migration is applied and recorded; its version is a primary key.
Record(w) ==
    LET next == version[w] + 1
    IN  /\ version[w] < Migrations
        /\ \/ stage[w] = "setup" /\ next \notin Concurrently
           \/ stage[w] = "index" /\ awaited[w] \cap Snapshots = {}
        /\ stage' = [stage EXCEPT ![w] = IF recorded >= next THEN "failed" ELSE "setup"]
        /\ recorded' = IF recorded >= next THEN recorded ELSE next
        /\ lock' = IF recorded >= next THEN Released(w) ELSE lock
        /\ version' = [version EXCEPT ![w] = next]
        /\ awaited' = [awaited EXCEPT ![w] = {}]
        /\ UNCHANGED <<owner, schema, missing, failures>>

EndSetup(w) ==
    /\ version[w] = Migrations
    /\ Goto(w, "setup", "up")
    /\ lock' = Released(w)
    /\ UNCHANGED <<owner, schema, missing, version, recorded, awaited, failures>>

\* A process dies: its connections close, its transaction is rolled back.
Die(p) ==
    /\ failures < MaxFailures /\ failures' = failures + 1
    /\ stage[p] \notin {"down", "refused", "failed", "migrated"}
    /\ stage' = [stage EXCEPT ![p] = "down"]
    /\ lock' = Released(p)
    /\ awaited' = [w \in Workers |-> IF w = p THEN {} ELSE awaited[w]]
    /\ UNCHANGED <<owner, schema, missing, version, recorded>>

\* One step of a process that has begun, the seed's apart.
Proceed(w) ==
    \/ Inspect(w) \/ LockSchema(w) \/ CreateAll(w)
    \/ Poll(w) \/ BeginIndex(w) \/ Record(w) \/ EndSetup(w)

ProceedMigrating(m) == LockUpgrade(m) \/ Upgrade(m)
=============================================================================
