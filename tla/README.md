# A verification project for LangGraphUAS

LangGraphUAS plans drone missions. A FastAPI service runs a LangGraph state
graph per planning thread: it validates the request, fetches weather, computes
an assessment, pauses for an operator's signature, and only then asks a
language model for a brief. Several uvicorn workers share one database
(Postgres in production, SQLite for a single worker).

This directory models the parts of that service whose correctness depends on
the order in which things happen, and the calculations an operator flies by. It
checks the models with TLC and proves their safety properties with TLAPS. All
paths below are relative to `backend/suas/` unless they start with `docs/`,
`frontend/` or `README.md`.

## Inventory

| Component | State | Operations | Hard behaviour | What makes it correct |
| --- | --- | --- | --- | --- |
| planning graph (`graph/workflow.py`, `graph/nodes.py`) | the channels of `MissionState`, one checkpoint per superstep | six nodes, two conditional edges, `interrupt()` | resumption from a checkpoint, edits looping back, a new plan over an old thread | no brief before review; what is signed is what was assessed; abort is final; edits are bounded |
| handlers (`api/routes.py`) | the mission row (signature), what each request has read | plan, acknowledge, get, replan | two acknowledgements of one interrupt, a plan in the middle of one, a death between report and signature | one interrupt is resumed once; signature and brief agree |
| thread locks (`api/thread_locks.py`) | a table of `asyncio.Lock` per worker | enter, leave, prune | release wakes a waiter that has not yet taken the lock | exclusion per thread, bounded table, no lost waiter |
| retention and replan ids (`db/retention.py`, `main.py`) | `mission_threads` rows, checkpoints of a thread's family | record, reserve a child id, purge | every worker purges; partial failure; runs that outlive their row | purged once; nothing orphaned; nothing taken from under a signature |
| rate limiters (`api/ratelimit.py`) | one bucket of hits per client, in a table or in a process | admit, prune, evict | workers racing on one bucket, pruning during an admission, window boundaries, a process that forgets its clients | exact ceiling, exact refusals, honest Retry-After |
| weather (`services/weather.py`) | cache cell per coordinate | fetch, store, prune | deadline against retries, stale readings, late stores | never overstated, never served past the maximum age |
| reference data and flight logs (`db/seed.py`, `db/flight_logs.py`) | aircraft rows with provenance | seed on every start, store log, apply log | read-modify-write of one JSON column, seed against apply | a figure and its provenance agree |
| startup (`db/startup_lock.py`, `db/engine.py`, `db/migrations.py`) | two advisory locks, the schema | create, seed, checkpointer setup | all workers at once on an empty database | every worker starts; no deadlock |
| corpus (`db/corpus.py`, `rag/`, `scripts/ingest_corpus.py`) | documents, chunks, quarantine; the checkout and its manifest | ingest, clear, retrieve | ingest, clearances and redeployed models while a plan runs; an ingest that is run again | nothing lost; held text is never shown; the gate knew of what is cited; only like vectors are compared |
| gate and calculators (`calculations/`) | none | pure functions | thresholds, rounding, missing inputs, two budgets of one flight | one mission is never spoken of in two voices; asking for more never helps |
| replan graph (`graph/replan.py`, `calculations/replan.py`) | the thread it is run on, one snapshot | ingest, energy, evaluate, alert | stale, partial and contradicting snapshots | no milder advice for a worse report |
| log estimates (`calculations/from_log.py`, `flight_log_import.py`) | none | parse, select, estimate | clocks that stand still, labels that are wrong | a hover figure is of hovering |
| seal and provenance (`graph/seal.py`, `api/number_provenance.py`) | none | text in, violations out | rounding of a literal, wording | a number the calculator did not produce is never published; a label is its weakest input's |
| dashboard (`frontend/`) | the latest answer per panel | plan, replan, acknowledge | answers out of order | what is shown belongs to the plan on screen |
| configuration, authentication, observability, evaluation, scripts | settings, counters, files | | | not modelled |

How they interact: a handler calls the graph (`ainvoke`, `aget_state`), which
writes checkpoints through the checkpointer; handlers and housekeeping share
the `mission_threads` rows through transactions and row locks; the checkpointer
commits on its own connection, outside those transactions. Every hard behaviour
of the service comes from that last fact and from the awaits in between.

## Modules

| Module | Models | Checked by | Proofs |
| --- | --- | --- | --- |
| `MissionGraph` | channels, nodes and edges as operators on one state | through `PlanService` | |
| `PlanService` (extends `MissionGraph`) | plan, acknowledge and get on one thread, several workers, failures | `MCPlanService` | `PlanServiceProofs` |
| `Reviews` | the abstract ledger: a review takes at most one decision | as a property of `PlanService` | refinement in `PlanServiceProofs` |
| `ThreadLocks` | the lock table inside one worker, between awaits | `MCThreadLocks` | `ThreadLocksProofs` |
| `MissionThreads` | row, checkpoints and family of one thread; replans; purges | `MCMissionThreads` | `MissionThreadsProofs` |
| `RateLimiter` | one client's bucket, in a table or in a process | `MCRateLimiter` | `RateLimiterProofs` |
| `WeatherCache` | fetch with its deadline and retries, both caches, pruning | `MCWeatherCache` | `WeatherCacheProofs` |
| `Startup` | schema, migrate step, seed and checkpointer setup under two advisory locks | through `ReferenceData` | `ReferenceDataProofs` |
| `ReferenceData` (extends `Startup`) | one airframe's row, written by seeds and by uploads that apply a flight log | `MCReferenceData` | `ReferenceDataProofs` |
| `Retrieval` | what a retrieval may return, as operators | through `Corpus` | `CorpusProofs` |
| `BriefSeal` | what the seal lets through of a model's prose, as operators | through `Corpus` | `CorpusProofs` |
| `Corpus` (extends both) | manifest, ingest, quarantine, embedding service, and a plan that cites | `MCCorpus` | `CorpusProofs` |
| `EnergyBudget` | physics and battery, in whole numbers | through `Sortie` | `SortieProofs` |
| `MissionAssessment` (extends it) | the assessment: flags, decision, gate, labels | through `Sortie` | `SortieProofs` |
| `ReplanEvaluation` (extends it) | live budget, alerts, advice | through `Sortie` | `SortieProofs` |
| `FlightLogEstimate` | the power figures a log is worth | through `Sortie` | `SortieProofs` |
| `Sortie` (extends both) | a log recorded and applied, a mission planned, edited and flown | `MCSortie` | `SortieProofs` |

`PlanService` and `Corpus` both contain a plan, seen from two sides: the first
asks who may sign and brief it when, and knows of the assessment only what it was
computed from; the second asks what it was told by the corpus, and takes its
review for granted. `Sortie` takes both for granted and computes the numbers.
`MissionThreads` and `ReferenceData` stand in the same way beside `Sortie`: on
which thread a replan runs, and how concurrent writers of an aircraft row get on,
are theirs.

A definition whose comment begins with "Mutant:" is never used by a
specification. It is the form a plausible bug would give to the definition
below it; each checked property is known to fail with one of them in place,
which is what shows that the property says something about the code.

### PlanService and MissionGraph

Threads do not share state, so one thread is modelled. `ckpt` is its latest
checkpoint (values, next node, and the number of the review it awaits), `row`
its `mission_threads` row, `mutex` the asyncio mutex of each worker, `rowLock`
the `FOR UPDATE` lock, and per request `pc`, `run` (the copy of the channels
the graph works on) and `ack` (what the acknowledgement read). Each action is
what runs between two awaits at which another request can get in: `PlanRecord` (the
select of `record_thread`), `PlanInsert` (its insert and commit, an `IntegrityError`
if another plan has committed the row since), `PlanInvoke`, one action per superstep
of a run, and `AckArrive` or `AckTurnedAway`, `AckEnterMutex`, `AckLockRow`,
`AckCheck`/`AckRefuse`, `AckResume`, `AckSign`. `Fail` is an exception or the death of
the worker at any of them.

`AuthOn` says whether operators need a key. With one, a thread without a row is
unknown to everybody; without, an acknowledgement gets in before there is a row, has
none to lock, and leaves no signature (`locked` in what it remembers). On one worker
the mutex still keeps others out, so acknowledgements are `Serialised` if a key is
needed or there is one worker. History variables mark the premises of properties:
`overlapped`, that a plan and an acknowledgement were under way at once; `replaced`,
the acknowledgements of which a plan replaced the checkpoint between `aget_state` and
`ainvoke`; `cutShort`, that a run died which had not come to a review.

An assessment is the record of the inputs it was computed from, which is also
its `inputs_hash`; a report is who wrote it and which assessment it describes.
That is all the properties need: they ask whether the thing signed, the thing
briefed and the thing computed are the same thing, never what its numbers are.

What is taken from LangGraph (external): new input restarts the graph at START,
discards pending tasks and keeps the channels it does not name; with
`durability="sync"` each superstep writes its checkpoint before the next; an
interrupt writes none; a resume value reaches only the first superstep that is
resumed; concurrent runs work on copies and the last checkpoint written is the
latest; resuming a finished thread returns at once.

`mutex` is an exclusive lock per worker and thread. `ThreadLocks` is the detail
of it, and shows when that is not so: past the bound of the table. With Postgres
row locks the service does not need it.

### ThreadLocks

The event loop runs one coroutine at a time, so an action is what a caller does
between two awaits. `locked` and `waiters` are the flag and the queue of
`asyncio.Lock`; `Leave` is `release()` and `_release` together, because no await
separates them. The counter of contended waits is left out, and so is a waiter
that is cancelled.

### MissionThreads

The thread is member 0 of its family, its nth replan child member n. `store` is the
set of members with checkpoints, `PlanRecord` and `PlanInsert` are the two
statements of `record_thread` (the insert waits while a purge holds the key),
`ownRows` the children that are threads of their own (ids with a `:` from before
they were refused). `row` stays visible to plain reads while a purge holds its lock,
until the purge commits; checkpoint deletes take effect at once. `Expire` is the
passing of the retention window. Postgres is assumed; on SQLite the writer lock
makes the whole purge one step.

History variables say when a property does not apply: `late` is set when a run
writes checkpoints although the row it began under has gone or is being purged,
`overtaken` when a reservation commits over one it had not read.

### RateLimiter

`bucket` is the committed row, empty when there is none (a committed row always
has a hit), or in a process the client's deque; `kind` (`postgres`, `sqlite` or
`memory`) is chosen in the initial state, so that one run covers the three.
`Touch` is the upsert that takes the lock, `Read` the locked read together with
the clock, `Admit` and `Refuse` the two commits. A pruner holds the row on
Postgres and nothing on SQLite. In a process `AdmitInProcess` and
`RefuseInProcess` are the whole of `admit`, which never awaits, and `Evict` is the
clearing of all clients when one more than `_MAX_TRACKED_CLIENTS` would be
tracked; the history variable `forgotten` holds what went with it, and the three
exact properties are stated against it: what a process has forgotten is the only
thing by which it can be too generous. The code reads the clock twice there, and
the two readings are taken as one. The budget is per worker (the ceiling of a
cluster is that times the workers), so one process is modelled. Time is counted in
ticks of one clock, and `Second` says how many make the second that Retry-After is
rounded to.

### WeatherCache

A reading that was fetched is its fetch time. `kept` is what each place keeps
per cell: each worker's dictionary, or the shared table (`Shared`); `kind` is
chosen in the initial state, so that one run covers the three deployments. A
fetch is `Load` (the cache read and both looks at the age), then attempts, then
`Parsed` and, with a shared cache, the store; a worker's own cache awaits
nothing, so its store is part of `Parsed`. The deadline covers the attempts
only, as in the code, and its timer is taken to be punctual. `PruneRead` and
`PruneDelete` are the two statements of a page's transaction, `after` its
cursor. `unpruned` is a history variable: the table had nothing been pruned.
`NotAnObject` is an answer that is JSON but no object: `body.get` then raises
what `fetch` does not catch, although it is documented as never raising. Demo
mode's fixture is a constant and left out, and so is the death of a worker.

### Startup and ReferenceData

`Startup` is what a process does from its start until it serves, and what the
migrate step does beside it, on Postgres (on SQLite there is one worker). Each
check and each write is an action of its own, because the code's claim is that
nothing gets in between them: `LockSchema` and `CreateAll`, `LockUpgrade` and
`Upgrade`, the seed's select and commit, and in the checkpointer's setup the
version it read (`Poll`) and the one it records (`Record`). `owner` says who
builds the schema, the app or alembic. A process that waits in
`pg_advisory_xact_lock` is `Blocked` and has a snapshot; `BeginIndex` remembers
the snapshots there are (`awaited`), and the index is finished when those have
gone, which is what Postgres does (external). A poller has none. What each
migration changes is left out but for whether it creates an index concurrently.

`ReferenceData` adds one aircraft row. A figure, and the entry of `provenance`
that explains it, is who it comes from: the bundled file of this release
(`bundled`), that of an earlier one (`earlier`), or the log. `Updated` is
SQLAlchemy's flush (external): only the columns that differ from what the
session has read are written, so each figure by itself and the JSON column
whole. An upload is the duplicate check, the insert, and with `apply` the read
of the airframe and the commit. `outgoing` is an earlier release that goes on
serving uploads during a rolling deploy; it has seeded long ago, and that one of
its workers starts again, and seeds the old figures, is not modelled.
`overwritten` is a history variable: somebody has written a row that had changed
since he read it.

### Corpus, Retrieval and BriefSeal

A document is known by its place in the sorted manifest, its bytes by a model
value that is their sha256 as well, and its text is a sequence of paragraphs. What
a paragraph's words and numbers are, whether it is too short to keep, and whether
the tripwire matches it are constants: the regular expressions are left out, the
control around them is not. `disk` and `manifest` are the checkout; `Commit` is a
reviewed change of both and `Overwrite` a change of the one. `run` is the script's
place in the manifest as it read it; `IngestDocument` is one document with its
commit, `RunDies` any of the errors that end the script (verification, embedding,
the unique columns), `EmbeddingCallFails` a lost call. Because a document is one
transaction there is no state in between, which `EveryParagraphAccountedFor`
checks against the mutant that commits before it embeds.

`AbstainsOnlyWithoutEvidence` asks for evidence among the rows of the model that the
plan embeds its questions with (`model`, remembered at the calculation). What rows of
another model are worth is left open there, because the code and its documents
disagree on it (see below). Past `RowLimit` it asks for as many rows that do not
answer as the limit admits, so that rows which do answer can only be missed behind
those.

`Calculate` is the calculations node, which asks whether the airframe has an open
quarantine; `CiteField` one field of `cite_limits`, each in a session of its own;
`Brief` the report node with the vetting of the prose. What a statement without an
`ORDER BY` returns, in which order, and what a cosine comes to are free. The
fields `stored`, `open` and `compared` of the plan are history. A vector carries
who really computed it (`computed`) beside what is recorded with it (`model`,
`length`), since the two can differ after a redeployment.

`BriefSeal` counts numbers in tenths and knows of a literal how many decimals it
is written with, because that is what decides whether it is supported. It sees no
sign and no unit beyond there being one, as the code does.

### Sortie and the calculators

Numbers are whole: metres, seconds, grams, degrees Celsius and tenths of m/s;
watts as given, hundredths of a watt once scaled; watt-hours as given, hundredths
once computed; ratios in thousandths. Where the code rounds a result that is
compared later (`round(x, 2)`), `RoundDiv` does; where it compares before
rounding, as in `check_battery`, so does the model. Two curves are not rational,
the density of air over altitude and the power law of momentum theory; they are
constants, monotonic in each argument by assumption, and the instance gives them a
linear and a Newton approximation. The first is assumed of altitudes up to the
tropopause, where the code's docstring says that the relation is valid
(`calculations/physics.py:60`), and `Sortie` flies there: `RangeAssumption` puts
every density altitude of the instance among them. `SchemaAssumption` is what the
request schemas and the loaders of reference data let through.

`IsMissionViable` and `Decide` are kept apart as in the code, where one goes by a
list of flags and the other by whatever flags there are, and so are the two maxima
of a replan.

`Sortie` has the steps follow one another: a recorder writes rows (external), the
file is uploaded with `apply=true`, a mission is planned, edited and flown, and
each snapshot is answered. Its properties relate figures that different functions
compute from different premises. The rate of climb of a row is unknown to the code,
and taken for zero, if it is the first or has the time of the row before it
(`Untold`); `HoverFigureIsOfHover` says that such rows do not move the estimate out of
level flight while they are fewer than half of the samples.

## Runs

| Run | Instance | Shows |
| --- | --- | --- |
| `plan_ack` | 1 plan, 2 acknowledgements, 2 workers, row locks, 2 rounds, 1 failure | no brief before review, one decision per review (the refinement of `Reviews`), no signature without its brief, with liveness (68,705 states) |
| `replanned` | 2 plans (one may name an unknown airframe), 2 acknowledgements that may edit altitude and payload, 1 worker on SQLite, no key needed, 1 round, 1 failure | sealed inputs are current, no decision on changed numbers, an abort is final and decisions are bounded where the thread is planned over, acknowledged twice, before it has a row too, and fails half way (3.1 million states) |
| `thread_locks` | 5 callers, 3 threads, 2 locks tracked | bounded table, exclusion until a drop, no lost waiter |
| `mission_threads` | 2 plans, 1 acknowledgement, 1 replan, 2 purging workers, 1 own thread, 1 failed pass | retention and child ids, with liveness |
| `rate_limit` | 4 calls, budget 2, window 3 ticks, 2 ticks a second, clock to 5, 1 pruner, 1 failure, both databases and a process | exact ceiling and refusals, with liveness |
| `weather` | 2 fetches of one cell, 2 cells, 1 pruner, page of 1, TTL 1, maximum 2, deadline 1, clock to 4, 1 failure, three kinds of cache | honest, bounded answers; invisible and complete pruning, with liveness |
| `reference_data` | 2 workers, 1 migrator, 2 checkpoint migrations of which 1 is concurrent, fresh and inherited databases, 2 uploads that measure different figures, 1 failure | no collision, no lost correction, nothing attributed to a log that did not earn it, with the liveness of every start |
| `corpus` | 2 paths, 3 files, 4 paragraphs (a limit, another, one that trips the wire, one too short), 2 airframes, a row limit of 2, a hashing and an HTTP embedder, 2 models behind the service, 3 briefs a model may write | nothing lost, nothing unscreened shown, the gate knew, evidence found, like compared with like |
| `sortie` | logs of up to 5 rows of 7 kinds, 3 payloads, 2 distances, 4 conditions, 2 altitudes, 2 hover times, 31 snapshots | one voice, brief and replan agree, hover is hover, worse is never milder |
| `stale_brief`, `replan_ids`, `reingest` | the smallest instance that shows it | a statement of the repository that the code does not keep (see below) |

Why the bounds are enough. Two acknowledgements are needed for one to be a
duplicate, and a third adds nothing to the locks, which are symmetric in the
requests (the proofs cover any number). One failure is enough to reach every state a
death can leave, because a failed request leaves only the checkpoint, the row and
free locks, and two are two of those in turn. Two rounds let an edit be followed by
a confirmation and still reach the limit. Five callers on three threads fill a table
of two, with a holder, a waiter and a newcomer on the hot thread. A second plan is
what makes a purged thread live again, and the second worker is what races the
first. A window of three ticks and a second of two make the time left a fraction of
a second in half of the cases, and a clock of five lets a window pass entirely. In
`weather` the clock lets a reading pass the TTL, the maximum and the deadline while
a second fetch uses it, and the cell behind the one that is fetched holds a row
nobody can read, behind a page of its own. In `reference_data` each file has exactly
enough samples of one figure and one too few of the other. One migration that needs
no concurrent index and one that does are the two cases of the setup, and the second
worker is both the one that waits for it and the one that races the seed. A third
upload, with a file that is already there or an airframe that is not, was explored
without the outgoing release and changes nothing that the properties speak of; the
proofs cover any number. The instance of `mission_threads` with two replans has also
been explored (with symmetry, safety only: about 1.1 million states) and adds
nothing but the lost update of `replan_ids`. In `corpus` the one document that is
there has a paragraph held back twice over, so that one clearance leaves another
open; the revision of it has evidence of another field; and with a row limit of two,
rows that answer and rows that do not stand on both sides of it. One path is about
each airframe, so that a citation of the other's document would show. In `sortie`
five rows are two more than an applied median needs, which lets an outlier or a row
without a figure be among them, and is the least number of samples of which the
first and one that the clock stood still for are a minority; the settings of the
estimate are scaled down with them. The snapshots confirm a brief exactly, come
later and in worse wind, or lack, contradict and delay something, one at a time; the
conditions are a good day, gusts, cold under stale weather, and wind at the
aircraft's own speed.

Each run that states liveness uses a specification of its own, `FairSpec`:

- `PlanService`: weak fairness of each accepted request's next step. The event
  loop drives what it has accepted, `asyncio.Lock` and Postgres row locks are
  queues, and the model client has a timeout. Clients are free not to send
  anything, and nothing has to fail.
- `ThreadLocks`: weak fairness of `Wake` and `Leave`, for the same reason.
- `MissionThreads`: weak fairness of requests that have begun, and of each
  worker's pass, which `_housekeep_forever` repeats for as long as the process
  lives. Failures are finitely many.
- `WeatherCache`: weak fairness of time, of a timer that is due, of a store's
  commit and of housekeeping, and strong fairness of a store's wait for its row,
  since Postgres hands a row lock to whoever has waited. The provider need never
  answer.
- `RateLimiter`: weak fairness of each call's next step, and of a prune that has
  begun. Nothing makes a prune begin, or a process forget.
- `ReferenceData`: weak fairness of each worker and migration that has begun.
  Advisory locks are granted in the order of asking and a poller asks again. No
  process has to start, no upload has to be made or to end, and failures are
  finitely many.
- `Corpus`, for `reingest` alone: the ingest is started again and again, and each
  of its steps is taken. That is more than the code does by itself, and makes the
  violation stronger: no persistence of the operator's helps.

Deadlock is checked in every run; a state in which every request is answered
stutters by an explicit `Terminated` step. `Corpus` and `Sortie` never stop.

## What the code does not do as documented

Each of these is a run that is expected to find a violation, and an entry in
`PROJECT.json` that quotes the statement.

1. `stale_brief`: a thread that is planned and signed twice publishes the first
   brief under the second signature, since the report channel survives.
2. `replan_ids`: two concurrent replans can be given one child thread.
3. `reingest`: every run adds every listed document, whose path is unique; from
   the second run on the script ends at the first document that is there already,
   so a document that was replaced as the runbook says never arrives.

Observed while modelling, and excluded by the properties' premises or the
instances rather than refuted.

*Planning and signing.* An acknowledgement that arrives while the plan is still
running is taken for one that awaits a signature; its resume value is lost, and it
is recorded all the same (`api/routes.py:439` says otherwise). An edit of the
payload id is stored and not assessed, because the edge goes back behind the node
that resolves it: `graph/workflow.py:47` says "the revision is assessed rather than
assumed", and `docs/backlog/05-hitl-interrupt-and-ack.md` asks that editing the
payload mass change the residual energy and the hash, while this edit changes
neither; `SealedInputsAreCurrent` therefore speaks of a thread until its payload is
edited. A plan takes neither lock, so it can replace what an acknowledgement has
just checked before the graph reads it again: the decision is then applied to other
numbers than the hash that was compared (`replaced`). With authentication off, two
acknowledgements that arrive before the thread has a row lock nothing that other
workers know of, and their signatures are not recorded; the code does not require a
key (`docs/railway.md:123` tells what is lost without one), so the properties that
rest on acknowledgements being serialised say so (`Serialised`). Two
first plans of one thread id race on its row, and one of them answers 500. A replan
is answered for a thread that was aborted or never signed, which only the dashboard
hides; on a thread without data it raises. The review's round limit confirms by
itself, so a brief can exist that nobody signed (`waived` in the model); a worker
that dies between the report and the signature leaves a brief that nobody can sign
any more; a run that died while it confirmed is resumed at the report by whatever
comes next, so that an edit or an abort is lost and the brief it publishes is
unsigned; a run that died before its review, resumed by a confirmation, comes to a
review that is recorded as signed (`cutShort`); runs that outlive their row leave
checkpoints no purge will find (`late`); two reservations that overtake each other
can move `replan_count` backwards (`overtaken`); past the bound of the lock table a
lock can be dropped between its release and the waiter it woke, and the next caller
is inside with that waiter (`dropped`); a purge does not look at a thread's age
again when it claims, and can take one that was purged and planned anew since it was
listed.

*Reference data.* A log that was stored and not applied can never be applied,
since its file is refused from then on and no endpoint applies a stored log; a
restart's seed puts the bundled figure back over an applied one, and the log stays
marked as applied; a log for an airframe there is none of is stored before the
request is refused. Two logs that measure different figures of one airframe, or a
log and a seed, written concurrently leave one figure under the record of the
number it replaced (`db/flight_logs.py:184`); the operational gate reads that
record.

*Weather and limits.* A provider's answer that is JSON but no object makes `fetch`
raise; the cache read and the store are outside the deadline that is documented as
covering the whole operation; an older reading can replace a newer one. A process
that forgets its clients lets each have its budget again.

*Corpus.* Rows embedded by another model are left out of the comparison of vectors,
but the lexical leg still returns them, which a test pins, although
`rag/retrieve.py:18` says that they are "excluded rather than scored" and
`docs/railway.md:315` that a mismatch "skips every row" and "Retrieval returns
nothing at all". `AbstainsOnlyWithoutEvidence` counts neither on the one nor on the
other. Past the limit of a statement without an order, rows that answer can be
missed. Two models of one width behind the service are not told apart, since its
`model_id` is ignored. A paragraph that a person clears never becomes evidence.
Paragraphs under forty characters are dropped and those over four thousand cut,
without a trace. Two paths with the same bytes collide. The text of a document
ingested while a plan is being cited may be cited although the document has a
paragraph that awaits review: the gate was asked before. The Blue List blocker
always stands, so operational mode is out of reach. The seal does not look at the
sign or the kind of a unit.

*Numbers.* Where a log's clock stands still the rate of climb is zero, and climbing
rows count as hover (`calculations/from_log.py:73`); where this is so for half of
the samples the estimate can be of a climb, although the docstring of
`select_hover_samples` says that "a mislabelled row cannot smuggle climb power into
a hover figure". Rows that were rejected leave gaps over which a rate is averaged;
timestamps with and without a zone in one file make the sort raise. The live budget
of a replan is made of reference powers at airspeed: a plan refused for its climb or
the wind gets no energy alert at launch, and in air denser than the reference a plan
that was just accepted can be told to land at once. A snapshot from the future
counts as fresh. A payload less than five grams over its limit passes. The schema
puts no bound on the altitude, and the density ratio, which "never goes
non-positive" by its docstring (`calculations/physics.py:62`), is rounded to zero
between 40 and 44 km of density altitude; power is then left unscaled, so a mission
that is refused for its power at 39 km can be computed with a hundredth of it at 41
(`test_physics.py` tries 2.5 km, the very end of the curve and 100 km).

*Dashboard.* Its hooks keep one answer each, in the order of arrival: of two
replans the one answered last is shown, and an answer that arrives after a new
plan has been made is shown beside the new plan.

## Proofs

TLC shows a property on an instance; the theorems hold for every number of
requests, workers and failures and every value of the other constants.

- **`PlanServiceProofs`.** `TypeOK` is inductive. For the safety properties, the
  strengthening `IInv` says of every *copy* of the channels (the checkpoint and
  each run) that what is on its way to review or brief is assessed from the
  inputs beside it, that an aborted copy holds a report, and of every copy in
  front of the report that its assessment was confirmed or waived. It is
  needed because a run's copy can become the checkpoint at any time: an
  invariant of the checkpoint alone is not inductive. From it
  `ReviewPrecedesBrief`, `SealedInputsStayCurrent` and `AbortStaysFinal`.
  `OneInterruptIsResumedOnce` is a refinement: every step of the service is a
  step of `Reviews` under the mapping `opened <- reviews`, `decided <-` the
  review of each decision, or leaves both alone. It rests on mutual exclusion
  (whoever is between the check and the signature holds the row's lock or, on
  the single worker of SQLite, the mutex) and on the numbers of undecided
  reviews being unused. `SeenInv` says that whoever is about to resume came with the
  hash of the assessment in the checkpoint, unless a plan has replaced that since, and
  that the run keeps it until the response is taken: hence `AppliedToWhatWasSeen`,
  whatever plans there are beside. Where no plan runs beside an acknowledgement,
  `QuietInv` says that every copy has counted the decisions taken: hence
  `RoundsStayBounded`. For `SignatureMatchesBrief` the thread is followed from the plan
  to the signature (`CalmInv`): at most one request drives it (`Driving`), what it still
  has in front of it is stated by where it is (`Driven`), and what its run ended with is
  what it will sign (`Ended`). A death anywhere leaves a thread of which the same is
  true (`FailCalm`), since it takes nothing from the checkpoint and leaves the row as it
  was: only the half of the property that no brief is unsigned needs that nobody has
  died, and the other half only that no run died before its review. It does need one
  plan: planned over, row and checkpoint are allowed to differ, as `stale_brief` shows.
- **`ThreadLocksProofs`.** Until a lock in use is dropped, everybody on a thread
  refers to the lock in the table and its flag says whether one of them is
  inside (`LockInv`). Below the bound no lock is ever dropped, so exclusion is
  unconditional (`ExclusiveBelowBound`). The bound of the table does not depend on
  either: a lock that is held is held by somebody inside on its thread
  (`HolderInv`), so whatever a pruning leaves past the bound is attended
  (`SizeInv`), and `TableStaysBounded` counts.
- **`MissionThreadsProofs`.** `LockInv`: a purge holds the row from claim to
  commit. `DeleteInv`: while it deletes, what it has still to visit covers the
  checkpoints that are left. `ChildInv`: the child a replan is about to run on
  is within the count of the row it began under. Together with the four
  properties they are inductive; without `DeleteInv` the commit could not be
  shown to leave nothing behind.
- **`RateLimiterProofs`.** What whoever holds the bucket has read is what was
  admitted inside the window (`SeenInv`), the bucket covers what the window holds
  and nobody has forgotten, and the hit a refused client was told to wait for is
  among those it met (`RefusedInv`). A process decides and writes in one step and
  needs nobody to hold anything; on a database nothing is ever forgotten
  (`KeptInv`). The counting is done with the library's theorems on finite sets,
  and `RetryAfterCovers` is the arithmetic of the truncation.
- **`WeatherCacheProofs`.** Everything that is kept or loaded goes back to an
  answer another fetch has given for the same cell through the same place
  (`Origin`), what is loaded was of an age that was right when the request
  began (`StandsIn`), and what was judged expired stays so (`JudgedInv`). These
  make the three properties inductive; that pruning is invisible needs no lock,
  only that the delete matches the reading it judged.
- **`ReferenceDataProofs`.** Whoever is between a check and its write holds the
  lock that covers it (`LockInv`), and what it found still stands (`FoundInv`);
  with the division of labour between app and alembic (`RoleInv`) nobody
  collides. For the row, what is said of it is said of every copy a session
  holds (`EarnedInv`, `BasisInv`), because a copy's provenance can become the
  row's at any time. `EarlierInv` is why a correction lasts although uploads
  ignore the seed's lock: a figure of an earlier release that is still in the
  row was seen by every session, so the seed writes it, and no upload writes a
  figure it did not measure.
- **`CorpusProofs`.** A document's rows carry the airframe it is listed with
  (`RowsInv`), which is why a paragraph held back blocks exactly the plans that
  could cite the rest of its document (`BlockedInv`): the join the gate makes by
  airframe is as good as one by document. What passed the seal stays supported
  because rows are only ever added (`PlanKept`). That nothing is lost rests on the
  unique path: rows of a path exist only with their document, so a new document
  finds none. `VectorInv` says of every vector which embedder it was recorded under
  and what that embedder had looked at; two vectors that are compared were recorded
  under one (`MayCompute`), and `ToldApart` is exactly what then makes them like.
  `AbstentionIsJustified` is about what retrieval does not find. Fewer rows that do not
  answer than the limit cannot be all of what a statement returns, so one that answers
  is among it if there is one (`AnswerIsFetched`). A row that shares
  content with the question has a lexical score, the fusion of the two legs ranks
  it above nothing whatever the vectors say, and among finitely many fused rows one
  is best (`EvidenceIsFound`; the best exists because a strict order on a finite
  set is well-founded, which takes no induction over the rows). The invariant
  (`AInv`) says it of every question the plan has got past, and that what a plan
  remembers as stored gains no row any more, since a later row under its path
  would have collided.
- **`SortieProofs`.** `OneVoice`, for whatever curves: an evaluation raises alerts
  of which each has a severity and an action of one rank, so two maxima taken apart
  are of one rank too (`MaximaAgree`); a label is operational exactly if its weakest
  source is (`LabelIsWeakest`), and between them the figures have every input the
  gate asks for (`FiguresHaveInputs`). The invariant is that what is briefed was
  made by one assessment of sourced records.

  The other three rest on `Reckoned`: rows of a file are numbered without a gap and
  in the order of their times, the row of the aircraft differs from the bundled one
  in its two powers alone, a mission is one that can be asked for, and the answer is
  the one to the snapshot there is. The arithmetic is a ladder of lemmas that say
  what keeps order (`DivKeepsOrder`, `RoundKeepsOrder`, then each part of the
  budget): rounding can lose a difference but not turn it round. `NothingGetsMilder`
  follows, for an edit because every part of the energy grows with altitude and
  hover time (`PartsKeepOrder`, `AskingForMore`), for a snapshot because each alert
  has a match that is no milder in the evaluation of a worse one
  (`AlertsAreMatched`, `Dominated`). `GoIsNotGrounded` compares two budgets: no
  lighter than empty and in air no denser than the reference, scaled powers are no
  less than the reference ones (`ScaleAboveReference`); a sum rounded once exceeds
  its parts rounded apart by a hundredth at most (`RoundSum`, `NeedIsCovered`),
  which the margin of three hundredths covers (`ReserveIsKept`).
  `LabelsDoNotMakeHover` is about order statistics: the ranks of n samples are an
  injection into 1..n and so take every value (`EveryRankIsTaken`), so as many
  samples are at one of the k lowest ranks as there are (`LowestAndHighest`), and a
  minority of the samples cannot be all of those on one side of the median
  (`MedianIsInside`). The minority is of rows whose climb is unknown; every other
  selected row was held against the row before it in the file, which is the one
  before it in time because a recorder's clock does not go back (`SelectedIsLevel`).

The proofs assume what the modules' `ASSUME`s say and nothing else: sorts of
requests are disjoint, the model's `None` is none of the values, SQLite is the
single-worker deployment, records name sources there are, questions are finite,
bounds are natural numbers, the two curves are monotonic up to the tropopause, and
an estimate is applied from three samples on (the code asks for thirty). TLC
evaluates every one of them on the instance of a run.

Every safety property of a passing run is proved, action properties included. Only
model-checked are the liveness properties (`EveryRequestEnds`, `EveryCallerGetsIn`,
`ExpiredThreadGoes`, `EveryCallIsDecided`, `ExpiredRowGoes`, `EveryFetchEnds`,
`EveryStartEnds`): fairness and `ENABLED` are out of the prover's reach. Where a
module states `TypeOK`, it is proved and is not a property of a run.

## Not modelled, and the plan

Left out for good: the wording of reports, prompts and alerts, the regular
expressions of screening and seal, HTTP and serialisation, authentication
(comparison of keys), configuration (its limits are the constants' assumptions),
observability (counters that nothing reads back), the evaluation harness, which
scores model output offline, and deployment scripts. The dashboard's hooks keep no
more than one answer each; what follows from that is said above. What each schema
migration changes is left out, and so are payload rows, the cancellation of a
waiter on an `asyncio.Lock`, and the retries inside the client library of the
language model.

The runs ask what the project has found worth asking; a property is replaced
rather than added when a deeper one is found. What is left to do is to prove more:

1. the measures behind the liveness properties: what each step of an accepted
   request, of a fetch and of a start brings nearer to its end, as action properties;
2. `SignatureAndBriefAgree` of a thread that is planned over once it is signed: which
   part of it outlasts a second plan;
3. `NothingGetsMilder` for a worse condition as well as for a longer mission, where
   the capacity curve of the battery comes in.
