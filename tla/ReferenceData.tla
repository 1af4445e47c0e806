---------------------------- MODULE ReferenceData -----------------------------
(***************************************************************************)
(* One airframe's reference row and whoever writes it: the seed of every   *)
(* starting worker (db/seed.py) and the uploads of flight logs that apply  *)
(* what they measured (POST /api/logs, db/flight_logs.py).                 *)
(*                                                                         *)
(* A figure, and the provenance record of a figure, is who it comes from:  *)
(* the bundled JSON of this release, that of an earlier one, or a log. The *)
(* session updates the columns it has changed, so provenance, one JSON     *)
(* column for all the fields, is written whole and a figure by itself.     *)
(***************************************************************************)
EXTENDS Startup, FiniteSets

CONSTANTS
    Uploads,            \* POST /api/logs
    Contents,           \* the files that can be uploaded, by their sha256
    Content,            \* the file of each upload
    Applying,           \* the uploads with apply=true
    Strangers,          \* the uploads that name an airframe there is none of
    Fields,             \* hover_power_w and cruise_power_w
    Corrected,          \* the sets of fields this release may have corrected
    Samples,            \* per file and field, the samples that were selected
    MinApplySamples     \* MIN_APPLY_SAMPLES

Origins == {"bundled", "earlier"} \cup Contents

\* figure is the value of each field, basis the entry of provenance that explains it.
Rows == [figure : [Fields -> Origins], basis : [Fields -> Origins]]

ASSUME ReferenceAssumption ==
    /\ Uploads \cap Processes = {} /\ None \notin Uploads
    /\ Content \in [Uploads -> Contents]
    /\ Applying \subseteq Uploads /\ Strangers \subseteq Uploads
    /\ Corrected \in SUBSET (SUBSET Fields)
    /\ Samples \in [Contents -> [Fields -> Nat]] /\ MinApplySamples \in Nat \ {0}
    /\ {"bundled", "earlier"} \cap Contents = {} /\ None \notin Rows

VARIABLES
    outgoing,       \* an earlier release is still serving; it has seeded long ago
    row,            \* the aircraft row, or None
    logs,           \* per file, whether it is stored, and applied
    req,            \* per upload, how far it is
    read,           \* per worker and upload, the row as its session has read it
    overwritten     \* history: a row was written that had changed since it was read

dataVars == <<outgoing, row, logs, req, read, overwritten>>
vars == <<startVars, dataVars>>

RowOf(origin) == [figure |-> origin, basis |-> origin]
Bundled == RowOf([f \in Fields |-> "bundled"])

\* What an earlier release has seeded, when this one corrects these fields.
Inherit(fields) == RowOf([f \in Fields |-> IF f \in fields THEN "earlier" ELSE "bundled"])

TypeOK ==
    /\ StartupTypeOK
    /\ outgoing \in BOOLEAN
    /\ row \in Rows \cup {None}
    /\ logs \in [Contents -> {"unknown", "stored", "applied"}]
    /\ req \in [Uploads -> {"idle", "store", "apply", "write", "stored", "applied", "raised"}]
    /\ read \in [Workers \cup Uploads -> Rows \cup {None}]
    /\ overwritten \in BOOLEAN

\* A release corrects some of the figures; an earlier one has left the rest as they are.
Init ==
    /\ StartupInit
    /\ outgoing = (schema # "absent")
    /\ row \in IF schema = "absent" THEN {None}
                                    ELSE {Inherit(fields) : fields \in Corrected}
    /\ logs = [c \in Contents |-> "unknown"]
    /\ req = [u \in Uploads |-> "idle"]
    /\ read = [a \in Workers \cup Uploads |-> None]
    /\ overwritten = FALSE

\* Mutant: every column is written, as by a detached row that is merged back.
UpdatedWhole(old, new) == new

\* What an UPDATE of the columns that differ from `old` makes of the row.
Updated(old, new) ==
    [figure |-> [f \in Fields |-> IF new.figure[f] # old.figure[f] THEN new.figure[f]
                                                                   ELSE row.figure[f]],
     basis |-> IF new.basis # old.basis THEN new.basis ELSE row.basis]

Forget(a) == read' = [read EXCEPT ![a] = None]

-----------------------------------------------------------------------------
(* seed_reference_data *)

\* merge() selects the row under the startup lock, which uploads do not take ...
SeedSelect(w) ==
    /\ LockSeed(w)
    /\ read' = [read EXCEPT ![w] = row]
    /\ UNCHANGED <<outgoing, row, logs, req, overwritten>>

\* ... and inserts it, or updates what differs from the bundled JSON.
SeedCommit(w) ==
    LET old == read[w]
    IN  /\ EndSeed(w, old = None /\ row # None)
        /\ row' = IF old # None THEN Updated(old, Bundled)
                                ELSE IF row = None THEN Bundled ELSE row
        /\ overwritten' = (overwritten \/ (row # old /\ row' # row))
        /\ Forget(w)
        /\ UNCHANGED <<outgoing, logs, req>>

-----------------------------------------------------------------------------
(* upload_flight_log *)

\* store_flight_log looks for the file among those it has. A worker of this release
\* or of the outgoing one serves it.
Upload(u) ==
    /\ req[u] = "idle"
    /\ outgoing \/ \E w \in Workers : stage[w] = "up"
    /\ req' = [req EXCEPT ![u] = IF logs[Content[u]] = "unknown" THEN "store" ELSE "raised"]
    /\ UNCHANGED <<startVars, outgoing, row, logs, read, overwritten>>

\* The log is inserted and committed, whatever is to be applied; sha256 is unique.
Store(u) ==
    LET taken == logs[Content[u]] # "unknown"
    IN  /\ req[u] = "store"
        /\ req' = [req EXCEPT ![u] = IF taken THEN "raised"
                                     ELSE IF u \in Applying THEN "apply" ELSE "stored"]
        /\ logs' = IF taken THEN logs ELSE [logs EXCEPT ![Content[u]] = "stored"]
        /\ UNCHANGED <<startVars, outgoing, row, read, overwritten>>

\* Mutant: every field it has measured.
UsableAtAll(c) == {f \in Fields : Samples[c][f] > 0}

\* _usable_estimate: the fields this file may change.
Usable(c) == {f \in Fields : Samples[c][f] >= MinApplySamples}

\* apply_flight_log reads the airframe; without one it raises, and the log stays stored.
ApplyRead(u) ==
    /\ req[u] = "apply"
    /\ IF u \in Strangers \/ row = None
         THEN req' = [req EXCEPT ![u] = "raised"] /\ UNCHANGED read
         ELSE IF Usable(Content[u]) = {}
                THEN req' = [req EXCEPT ![u] = "stored"] /\ UNCHANGED read
                ELSE /\ req' = [req EXCEPT ![u] = "write"]
                     /\ read' = [read EXCEPT ![u] = row]
    /\ UNCHANGED <<startVars, outgoing, row, logs, overwritten>>

\* Mutant: provenance is changed in place, which the session does not see.
MeasuredInPlace(old, c) ==
    [figure |-> [f \in Fields |-> IF f \in Usable(c) THEN c ELSE old.figure[f]],
     basis |-> old.basis]

\* The row with what the file has measured.
Measured(old, c) ==
    [figure |-> [f \in Fields |-> IF f \in Usable(c) THEN c ELSE old.figure[f]],
     basis |-> [f \in Fields |-> IF f \in Usable(c) THEN c ELSE old.basis[f]]]

\* Figures, provenance and the log's mark are committed together.
ApplyCommit(u) ==
    LET c == Content[u]
        old == read[u]
    IN  /\ req[u] = "write"
        /\ req' = [req EXCEPT ![u] = "applied"]
        /\ row' = Updated(old, Measured(old, c))
        /\ logs' = [logs EXCEPT ![c] = "applied"]
        /\ overwritten' = (overwritten \/ row # old)
        /\ Forget(u)
        /\ UNCHANGED <<startVars, outgoing>>

\* The database fails a request, or the worker that serves it dies.
UploadFails(u) ==
    /\ req[u] \in {"store", "apply", "write"}
    /\ failures < MaxFailures /\ failures' = failures + 1
    /\ req' = [req EXCEPT ![u] = "raised"]
    /\ Forget(u)
    /\ UNCHANGED <<owner, stage, schema, lock, missing, version, recorded, awaited,
                   outgoing, row, logs, overwritten>>

-----------------------------------------------------------------------------

\* The platform stops the earlier release; its workers end what they have begun.
Retire == outgoing /\ outgoing' = FALSE /\ UNCHANGED <<startVars, row, logs, req, read, overwritten>>

WorkerDies(w) == Die(w) /\ Forget(w) /\ UNCHANGED <<outgoing, row, logs, req, overwritten>>

WorkerStep(w) ==
    \/ Proceed(w) /\ UNCHANGED dataVars
    \/ SeedSelect(w) \/ SeedCommit(w)

UploadStep(u) == Store(u) \/ ApplyRead(u) \/ ApplyCommit(u)

\* Every worker has started or failed, every upload is answered.
Terminated ==
    /\ \A w \in Workers : stage[w] \in {"up", "failed"}
    /\ \A m \in Migrators : stage[m] \in {"down", "migrated", "failed"}
    /\ \A u \in Uploads : req[u] \in {"stored", "applied", "raised"}
    /\ UNCHANGED vars

Next ==
    \/ \E w \in Workers : Start(w) /\ UNCHANGED dataVars
    \/ \E w \in Workers : WorkerStep(w) \/ WorkerDies(w)
    \/ \E m \in Migrators : (Migrate(m) \/ ProceedMigrating(m) \/ Die(m)) /\ UNCHANGED dataVars
    \/ \E u \in Uploads : Upload(u) \/ UploadStep(u) \/ UploadFails(u)
    \/ Retire
    \/ Terminated

Spec == Init /\ [][Next]_vars

\* A process that has begun goes on: advisory locks are granted in the order of asking,
\* and a poller tries again. Nobody has to start, upload or fail.
FairSpec ==
    /\ Spec
    /\ \A w \in Workers : WF_vars(WorkerStep(w))
    /\ \A m \in Migrators : WF_vars(ProceedMigrating(m) /\ UNCHANGED dataVars)

-----------------------------------------------------------------------------
(* Properties *)

\* tests/test_startup_concurrency.py, #160: however many workers and migrations start
\* together, and wherever one dies, none of their check-then-write steps meets a key or a
\* table that was free when it looked, and the app never builds what alembic creates.
NobodyCollides == \A p \in Processes : stage[p] # "failed"

\* The two keys and the polling of startup_lock.py: nobody waits forever for whoever
\* waits for his snapshot. A worker that starts serves, is refused, or has died.
EveryStartEnds ==
    \A w \in Workers :
        stage[w] \notin {"down", "refused", "up"} ~> stage[w] \in {"down", "refused", "up"}

\* "Ingesting is not applying", at any interleaving with seeds and other uploads: what
\* the row attributes to a log, as figure or as provenance, was applied from that log,
\* and from enough samples of that field.
OnlyApplyingMeasures ==
    row # None =>
        \A f \in Fields, c \in Contents :
            row.figure[f] = c \/ row.basis[f] = c =>
                logs[c] = "applied" /\ Samples[c][f] >= MinApplySamples

\* "A corrected performance figure reaches an existing deployment on the next restart":
\* once a worker of this release has seeded, no figure of an earlier one is ever in the
\* row again, though an upload may have read the row before the seed.
CorrectionsLast ==
    (\E w \in Workers : stage[w] \in {"poll", "setup", "index", "up"}) =>
        row # None /\ \A f \in Fields : row.figure[f] # "earlier"

\* AircraftRow.provenance, "where each number came from, keyed by field name".
FiguresHaveTheirBasis == row # None => row.figure = row.basis

\* The same as long as nobody has written a row that had changed since he read it.
FiguresHaveTheirBasisInTurn == ~overwritten => FiguresHaveTheirBasis
=============================================================================
