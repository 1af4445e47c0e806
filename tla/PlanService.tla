----------------------------- MODULE PlanService -----------------------------
(***************************************************************************)
(* The planning handlers of api/routes.py driving the graph of MissionGraph*)
(* on one thread: POST /api/plan, POST /api/plan/{id}/ack and GET          *)
(* /api/plan/{id}. Checkpoints, the mission row and both locks are keyed   *)
(* by thread id, so threads do not interact and one is enough.             *)
(*                                                                         *)
(* Handlers are coroutines of several workers. A step below is what runs   *)
(* between two awaits that another request can get in between. With        *)
(* durability="sync" a superstep of a run ends by writing the checkpoint   *)
(* that becomes the thread's latest; a run keeps working on its own copy   *)
(* of the channels whatever other runs write meanwhile.                    *)
(***************************************************************************)
EXTENDS MissionGraph, Sequences, FiniteSets

CONSTANTS
    Plans,            \* requests to POST /api/plan on this thread
    Acks,             \* requests to POST /api/plan/{id}/ack
    PlanRequests,     \* what a plan may ask for
    Edits,            \* what an "edit" acknowledgement may change
    Workers,
    RowLocks,         \* FOR UPDATE locks the row: TRUE on Postgres, FALSE on SQLite
    AuthOn,           \* whether operators need a key
    MaxFailures       \* bound on handlers that die before answering

ASSUME ServiceAssumption ==
    /\ Plans \cap Acks = {}
    /\ None \notin Plans \cup Acks
    /\ PlanRequests \subseteq MissionRequests
    /\ Edits \subseteq MissionEdits
    /\ None \notin Workers
    /\ RowLocks \in BOOLEAN
    /\ AuthOn \in BOOLEAN
    /\ MaxFailures \in Nat

\* SQLite is the single-worker deployment.
OneWorker == \A v, w \in Workers : v = w
ASSUME DeploymentAssumption == RowLocks \/ OneWorker

\* With authentication off an acknowledgement is let in before its thread has a
\* row to lock; then only the mutex of its own worker keeps others out.
Serialised == AuthOn \/ OneWorker

Requests == Plans \cup Acks

VARIABLES
    ckpt,        \* the thread's latest checkpoint
    row,         \* its mission_threads row: the signature recorded, or None if absent
    worker,      \* per acknowledgement, the worker it was handed to, or None
    mutex,       \* per worker, the request inside thread_lock, or None
    rowLock,     \* the request holding the mission row, or None
    pc,          \* per request, where its handler is
    run,         \* per request, the graph run it is driving
    ack,         \* per acknowledgement, its body and the assessment it read
    failures,
    \* History, read by properties only
    reviews,     \* reviews opened: checkpoints written in front of human_ack
    decisions,   \* the responses human_ack consumed, in order
    waived,      \* assessments the round limit confirmed
    briefs,      \* assessments the language model was asked to describe, in order
    shown,       \* assessments some response showed a client
    overlapped,  \* whether a plan and an acknowledgement were ever under way at once
    replaced,    \* acknowledgements under way of which a plan replaced the checkpoint
                 \* between the check and the resume
    cutShort     \* whether a run ever died that had not come to a review

history == <<reviews, decisions, waived, briefs, shown, overlapped, replaced, cutShort>>
vars == <<ckpt, row, worker, mutex, rowLock, pc, run, ack, failures, history>>

-----------------------------------------------------------------------------
(* Values *)

Checkpoints == [values : MissionState, next : Targets, review : Nat]

\* An unknown thread reads as empty values and an empty next.
NoCheckpoint == [values |-> NoValues, next |-> "end", review |-> 0]
Unknown(c) == c.values.aircraft_id = None
Pending(c) == c.next # "end"

Rows == [ack_inputs_hash : Maybe(Assessments)]

ASSUME NoneIsNoRow == None \notin Rows

Bodies == [action : Actions, edits : MissionEdits, inputs_hash : Maybe(Assessments)]

\* A run's channels, where it is, and the resume value still to be consumed.
Runs == [values : MissionState, next : Targets, review : Nat, resume : BOOLEAN]
NoRun == [values |-> NoValues, next |-> "end", review |-> 0, resume |-> FALSE]

\* An acknowledgement's body, the assessment it read, and whether there was a row
\* to lock when it asked for one.
Acknowledgements == [body : Bodies, read : Maybe(Assessments), locked : BOOLEAN]
NoAck == [body |-> [action |-> "confirm", edits |-> NoEdits, inputs_hash |-> None],
          read |-> None, locked |-> FALSE]

Finished == {"done", "refused", "failed"}
PCs == {"idle", "insert", "invoke", "run"} \cup {"mutex", "row", "check", "resume", "sign"} \cup Finished

Decisions ==
    [review : Nat, action : Actions, edits : MissionEdits, of : Maybe(Assessments),
     hash : Maybe(Assessments), replaced : BOOLEAN]

TypeOK ==
    /\ ckpt \in Checkpoints
    /\ row \in Maybe(Rows)
    /\ worker \in [Acks -> Maybe(Workers)]
    /\ mutex \in [Workers -> Maybe(Acks)]
    /\ rowLock \in Maybe(Acks)
    /\ pc \in [Requests -> PCs]
    /\ run \in [Requests -> Runs]
    /\ ack \in [Acks -> Acknowledgements]
    /\ failures \in 0 .. MaxFailures
    /\ reviews \in Nat
    /\ decisions \in Seq(Decisions)
    /\ waived \subseteq Maybe(Assessments)
    /\ briefs \in Seq(Maybe(Assessments))
    /\ shown \subseteq Maybe(Assessments)
    /\ overlapped \in BOOLEAN
    /\ replaced \subseteq Acks
    /\ cutShort \in BOOLEAN

Init ==
    /\ ckpt = NoCheckpoint
    /\ row = None
    /\ worker = [a \in Acks |-> None]
    /\ mutex = [w \in Workers |-> None]
    /\ rowLock = None
    /\ pc = [r \in Requests |-> "idle"]
    /\ run = [r \in Requests |-> NoRun]
    /\ ack = [a \in Acks |-> NoAck]
    /\ failures = 0
    /\ reviews = 0
    /\ decisions = <<>>
    /\ waived = {}
    /\ briefs = <<>>
    /\ shown = {}
    /\ overlapped = FALSE
    /\ replaced = {}
    /\ cutShort = FALSE

Goto(r, label) == pc' = [pc EXCEPT ![r] = label]

\* Leaving the two context managers of acknowledge_plan, in whatever way.
ReleaseLocks(a) ==
    /\ mutex' = [w \in Workers |-> IF mutex[w] = a THEN None ELSE mutex[w]]
    /\ rowLock' = IF rowLock = a THEN None ELSE rowLock
    /\ worker' = [b \in Acks |-> IF b = a THEN None ELSE worker[b]]

AckInFlight == \E a \in Acks : pc[a] \in {"resume", "run", "sign"}
PlanInFlight == \E p \in Plans : pc[p] = "run"

\* Acknowledgements that have checked a checkpoint and not resumed from it yet.
Checked == {a \in Acks : pc[a] = "resume"}

-----------------------------------------------------------------------------
(* POST /api/plan *)

\* record_thread: a thread that has a row keeps it as it is.
PlanRecord(p) ==
    /\ pc[p] = "idle"
    /\ Goto(p, IF row = None THEN "insert" ELSE "invoke")
    /\ UNCHANGED <<ckpt, row, worker, mutex, rowLock, run, ack, failures, history>>

\* Its INSERT; a row that another plan has committed since is an IntegrityError.
PlanInsert(p) ==
    /\ pc[p] = "insert"
    /\ \/ row = None /\ row' = [ack_inputs_hash |-> None] /\ Goto(p, "invoke")
       \/ row # None /\ UNCHANGED row /\ Goto(p, "failed")
    /\ UNCHANGED <<ckpt, worker, mutex, rowLock, run, ack, failures, history>>

\* Mutant: a thread that already has an assessment starts again at its citations.
PlanInvokeSkipsCalculator(p) ==
    /\ pc[p] = "invoke"
    /\ \E request \in PlanRequests :
           LET values == WithInput(ckpt.values, request)
               start == IF values.assessment = None THEN "validate" ELSE "cite_limits"
           IN  /\ run' = [run EXCEPT ![p] = [values |-> values, next |-> start,
                                             review |-> 0, resume |-> FALSE]]
               /\ ckpt' = [values |-> values, next |-> start, review |-> 0]
    /\ Goto(p, "run")
    /\ overlapped' = (overlapped \/ AckInFlight)
    /\ replaced' = replaced \cup Checked
    /\ UNCHANGED <<row, worker, mutex, rowLock, ack, failures,
                   reviews, decisions, waived, briefs, shown, cutShort>>

\* graph.ainvoke(initial): the latest channels, overwritten by the input, start
\* again at validate. Whatever the thread was waiting for is discarded.
PlanInvoke(p) ==
    /\ pc[p] = "invoke"
    /\ \E request \in PlanRequests :
           LET values == WithInput(ckpt.values, request)
           IN  /\ run' = [run EXCEPT ![p] = [values |-> values, next |-> "validate",
                                             review |-> 0, resume |-> FALSE]]
               /\ ckpt' = [values |-> values, next |-> "validate", review |-> 0]
    /\ Goto(p, "run")
    /\ overlapped' = (overlapped \/ AckInFlight)
    /\ replaced' = replaced \cup Checked
    /\ UNCHANGED <<row, worker, mutex, rowLock, ack, failures,
                   reviews, decisions, waived, briefs, shown, cutShort>>

-----------------------------------------------------------------------------
(* Supersteps of a run, whichever request drives it *)

\* ainvoke returns: a plan answers, an acknowledgement goes on to its signature.
Return(r) ==
    /\ Goto(r, IF r \in Plans THEN "done" ELSE "sign")
    /\ run' = [run EXCEPT ![r] = NoRun]

\* The end of a superstep: its checkpoint is written and becomes the latest.
Advance(r, values, next, review) ==
    /\ ckpt' = [values |-> values, next |-> next, review |-> review]
    /\ IF next = "end"
       THEN Return(r)
       ELSE /\ run' = [run EXCEPT ![r] = [values |-> values, next |-> next,
                                          review |-> review, resume |-> FALSE]]
            /\ UNCHANGED pc
    /\ replaced' = IF r \in Plans THEN replaced \cup Checked ELSE replaced
    /\ UNCHANGED <<row, worker, mutex, rowLock, ack, failures, cutShort>>

At(r, node) == pc[r] = "run" /\ run[r].next = node

ValidateNode(r) ==
    /\ At(r, "validate")
    /\ LET s == ValidateInputs(run[r].values)
       IN  Advance(r, s, RouteAfterValidation(s), 0)
    /\ UNCHANGED <<reviews, decisions, waived, briefs, shown, overlapped>>

WeatherNode(r) ==
    /\ At(r, "weather")
    /\ \E reading \in Weathers :
           Advance(r, FetchWeather(run[r].values, reading), "calculations", 0)
    /\ UNCHANGED <<reviews, decisions, waived, briefs, shown, overlapped>>

CalculationsNode(r) ==
    /\ At(r, "calculations")
    /\ Advance(r, Calculate(run[r].values), "cite_limits", 0)
    /\ UNCHANGED <<reviews, decisions, waived, briefs, shown, overlapped>>

CiteLimitsNode(r) ==
    /\ At(r, "cite_limits")
    /\ Advance(r, CiteLimits(run[r].values), "human_ack", reviews + 1)
    /\ reviews' = reviews + 1
    /\ UNCHANGED <<decisions, waived, briefs, shown, overlapped>>

\* Past the round limit the node confirms without asking anyone.
HumanAckAtLimit(r) ==
    /\ At(r, "human_ack")
    /\ AtRoundLimit(run[r].values)
    /\ LET s == ProceedAtLimit(run[r].values)
       IN  Advance(r, s, RouteAfterAck(s), 0)
    /\ waived' = waived \cup {run[r].values.assessment}
    /\ UNCHANGED <<reviews, decisions, briefs, shown, overlapped>>

\* interrupt() with nothing to resume it: ainvoke returns and the latest
\* checkpoint stays as it is, in front of human_ack.
HumanAckInterrupt(r) ==
    /\ At(r, "human_ack")
    /\ ~AtRoundLimit(run[r].values)
    /\ ~run[r].resume
    /\ shown' = shown \cup {run[r].values.assessment}
    /\ Return(r)
    /\ UNCHANGED <<ckpt, row, worker, mutex, rowLock, ack, failures,
                   reviews, decisions, waived, briefs, overlapped, replaced, cutShort>>

\* interrupt() returns the response the acknowledgement resumed it with.
HumanAckResponse(a) ==
    /\ At(a, "human_ack")
    /\ ~AtRoundLimit(run[a].values)
    /\ run[a].resume
    /\ LET body == ack[a].body
           s == TakeResponse(run[a].values, body.action, body.edits)
       IN  /\ Advance(a, s, RouteAfterAck(s), 0)
           /\ decisions' = Append(decisions,
                  [review |-> run[a].review, action |-> body.action, edits |-> body.edits,
                   of |-> run[a].values.assessment, hash |-> body.inputs_hash,
                   replaced |-> a \in replaced])
    /\ UNCHANGED <<reviews, waived, briefs, shown, overlapped>>

ReportNode(r) ==
    /\ At(r, "report")
    /\ Advance(r, GenerateReport(run[r].values), "end", 0)
    /\ briefs' = IF AsksModel(run[r].values)
                 THEN Append(briefs, run[r].values.assessment)
                 ELSE briefs
    /\ UNCHANGED <<reviews, decisions, waived, shown, overlapped>>

Superstep(r) ==
    \/ ValidateNode(r)
    \/ WeatherNode(r)
    \/ CalculationsNode(r)
    \/ CiteLimitsNode(r)
    \/ HumanAckAtLimit(r)
    \/ HumanAckInterrupt(r)
    \/ ReportNode(r)

-----------------------------------------------------------------------------
(* POST /api/plan/{thread_id}/ack *)

\* The request passes _require_visible: to an operator with a key, a thread
\* without a row is unknown.
AckArrive(a) ==
    /\ pc[a] = "idle"
    /\ AuthOn => row # None
    /\ \E w \in Workers : worker' = [worker EXCEPT ![a] = w]
    /\ Goto(a, "mutex")
    /\ UNCHANGED <<ckpt, row, mutex, rowLock, run, ack, failures, history>>

\* Without one it answers 404 (as does every other request for the thread).
AckTurnedAway(a) ==
    /\ pc[a] = "idle"
    /\ AuthOn /\ row = None
    /\ Goto(a, "refused")
    /\ UNCHANGED <<ckpt, row, worker, mutex, rowLock, run, ack, failures, history>>

\* thread_lock.__aenter__: this worker's asyncio.Lock for the thread.
AckEnterMutex(a) ==
    /\ pc[a] = "mutex"
    /\ mutex[worker[a]] = None
    /\ mutex' = [mutex EXCEPT ![worker[a]] = a]
    /\ Goto(a, "row")
    /\ UNCHANGED <<ckpt, row, worker, rowLock, run, ack, failures, history>>

\* Mutant: the SELECT without FOR UPDATE.
AckReadRow(a) ==
    /\ pc[a] = "row"
    /\ ack' = [ack EXCEPT ![a].locked = row # None]
    /\ Goto(a, "check")
    /\ UNCHANGED <<ckpt, row, worker, mutex, rowLock, run, failures, history>>

\* lock_thread_for_update: SELECT ... FOR UPDATE of the mission row, if any.
AckLockRow(a) ==
    /\ pc[a] = "row"
    /\ IF RowLocks /\ row # None
       THEN rowLock = None /\ rowLock' = a
       ELSE UNCHANGED rowLock
    /\ ack' = [ack EXCEPT ![a].locked = row # None]
    /\ Goto(a, "check")
    /\ UNCHANGED <<ckpt, row, worker, mutex, run, failures, history>>

\* What an operator may send: with the hash of an assessment shown to a client, or
\* without one. Its content is first looked at under the locks, so it is chosen
\* there: a request that waits for a lock is one that could have been sent later.
OperatorBodies ==
    {body \in [action : Actions, edits : Edits \cup {NoEdits}, inputs_hash : Maybe(shown)] :
        body.action = "edit" <=> body.edits # NoEdits}

\* Mutant: the hash the operator sent is not compared.
AcceptableAnyHash(body) == ~Unknown(ckpt) /\ Pending(ckpt)

\* aget_state, _require_awaiting_ack and _require_current_hash.
Acceptable(body) ==
    /\ ~Unknown(ckpt)
    /\ Pending(ckpt)
    /\ body.inputs_hash \in {None, ckpt.values.assessment}

AckCheck(a) ==
    /\ pc[a] = "check"
    /\ \E body \in OperatorBodies :
           /\ Acceptable(body)
           /\ ack' = [ack EXCEPT ![a] = [@ EXCEPT !.body = body, !.read = ckpt.values.assessment]]
    /\ Goto(a, "resume")
    /\ overlapped' = (overlapped \/ PlanInFlight)
    /\ UNCHANGED <<ckpt, row, worker, mutex, rowLock, run, failures,
                   reviews, decisions, waived, briefs, shown, replaced, cutShort>>

\* Mutant: a refusal that leaves without releasing the locks.
AckRefuseHoldingLocks(a) ==
    /\ pc[a] = "check"
    /\ \E body \in OperatorBodies : ~Acceptable(body)
    /\ Goto(a, "refused")
    /\ UNCHANGED <<ckpt, row, worker, mutex, rowLock, run, ack, failures, history>>

AckRefuse(a) ==
    /\ pc[a] = "check"
    /\ \E body \in OperatorBodies : ~Acceptable(body)
    /\ ReleaseLocks(a)
    /\ ack' = [ack EXCEPT ![a] = NoAck]
    /\ Goto(a, "refused")
    /\ UNCHANGED <<ckpt, row, run, failures, history>>

\* Mutant: the signature is recorded before the run that it is for.
AckResumeSigned(a) ==
    /\ pc[a] = "resume"
    /\ row' = IF ack[a].body.action = "confirm" /\ ack[a].locked /\ ack[a].read # None
              THEN [ack_inputs_hash |-> ack[a].read]
              ELSE row
    /\ IF Pending(ckpt)
       THEN /\ run' = [run EXCEPT ![a] = [values |-> ckpt.values, next |-> ckpt.next,
                                          review |-> ckpt.review, resume |-> TRUE]]
            /\ Goto(a, "run")
       ELSE /\ Goto(a, "sign")
            /\ UNCHANGED run
    /\ UNCHANGED <<ckpt, worker, mutex, rowLock, ack, failures, history>>

\* graph.ainvoke(Command(resume=...)): it reads the latest checkpoint again. On a
\* finished thread there is nothing to run and it returns at once.
AckResume(a) ==
    /\ pc[a] = "resume"
    /\ IF Pending(ckpt)
       THEN /\ run' = [run EXCEPT ![a] = [values |-> ckpt.values, next |-> ckpt.next,
                                          review |-> ckpt.review, resume |-> TRUE]]
            /\ Goto(a, "run")
       ELSE /\ Goto(a, "sign")
            /\ UNCHANGED run
    /\ UNCHANGED <<ckpt, row, worker, mutex, rowLock, ack, failures, history>>

\* _record_signature, the release of both locks and the response.
AckSign(a) ==
    /\ pc[a] = "sign"
    /\ row' = IF ack[a].body.action = "confirm" /\ ack[a].locked /\ ack[a].read # None
              THEN [ack_inputs_hash |-> ack[a].read]
              ELSE row
    /\ ReleaseLocks(a)
    /\ ack' = [ack EXCEPT ![a] = NoAck]
    /\ Goto(a, "done")
    /\ replaced' = replaced \ {a}
    /\ UNCHANGED <<ckpt, run, failures, reviews, decisions, waived, briefs, shown, overlapped, cutShort>>

-----------------------------------------------------------------------------
(* GET /api/plan/{thread_id} shows whatever assessment the thread holds. *)
GetThread ==
    /\ AuthOn => row # None
    /\ ckpt.values.assessment \notin shown \cup {None}
    /\ shown' = shown \cup {ckpt.values.assessment}
    /\ UNCHANGED <<ckpt, row, worker, mutex, rowLock, pc, run, ack, failures,
                   reviews, decisions, waived, briefs, overlapped, replaced, cutShort>>

\* A run that has not come to a review: on its way there, or answered without one
\* because its aircraft is unknown.
NotReviewed(c) ==
    c.next \in {"validate", "weather", "calculations", "cite_limits"} \/ HasReport(c.values)

\* The handler raises at an await, or its worker dies there: the run is gone,
\* its locks are released, and the thread keeps its latest checkpoint.
Fail(r) ==
    /\ failures < MaxFailures
    /\ pc[r] \notin Finished \cup {"idle"}
    /\ failures' = failures + 1
    /\ ReleaseLocks(r)
    /\ run' = [run EXCEPT ![r] = NoRun]
    /\ ack' = IF r \in Acks THEN [ack EXCEPT ![r] = NoAck] ELSE ack
    /\ cutShort' = (cutShort \/ (pc[r] = "run" /\ NotReviewed(run[r])))
    /\ Goto(r, "failed")
    /\ replaced' = replaced \ {r}
    /\ UNCHANGED <<ckpt, row, reviews, decisions, waived, briefs, shown, overlapped>>

\* Every request of this instance has been answered.
Terminated ==
    /\ \A r \in Requests : pc[r] \in Finished
    /\ UNCHANGED vars

PlanStep(p) == PlanInsert(p) \/ PlanInvoke(p) \/ Superstep(p)

AckStep(a) ==
    \/ AckEnterMutex(a)
    \/ AckLockRow(a)
    \/ AckCheck(a)
    \/ AckRefuse(a)
    \/ AckResume(a)
    \/ Superstep(a)
    \/ HumanAckResponse(a)
    \/ AckSign(a)

Next ==
    \/ \E p \in Plans : PlanRecord(p) \/ PlanStep(p)
    \/ \E a \in Acks : AckArrive(a) \/ AckTurnedAway(a) \/ AckStep(a)
    \/ \E r \in Requests : Fail(r)
    \/ GetThread
    \/ Terminated

Spec == Init /\ [][Next]_vars

\* A request once accepted is driven by its worker's event loop to its answer.
\* Clients need not send anything, and nothing has to fail. asyncio.Lock and
\* Postgres row locks are queues, so a waiter's turn comes.
Fairness ==
    /\ \A p \in Plans : WF_vars(PlanStep(p))
    /\ \A a \in Acks : WF_vars(AckStep(a))

FairSpec == Spec /\ Fairness

-----------------------------------------------------------------------------
(* Properties *)

Confirmed == {decisions[k].of : k \in {j \in DOMAIN decisions : decisions[j].action = "confirm"}}

\* The thread's latest checkpoint and every copy a run is working on.
Copies == {[values |-> ckpt.values, next |-> ckpt.next]}
              \cup {[values |-> run[r].values, next |-> run[r].next] : r \in Requests}

\* ADR-004, "human_ack precedes report": however plans, acknowledgements and
\* failures interleave on a thread, the model is only ever asked to describe an
\* assessment that human_ack let pass, by a confirmation or by its round limit.
ReviewBeforeBrief ==
    \A k \in DOMAIN briefs : briefs[k] \in Confirmed \cup waived

\* The assessment of what a state asks for by its ids, resolved anew.
AssessRequested(s) ==
    [decision |-> "assessed", aircraft |-> s.aircraft_id,
     payload |-> ResolvePayload(s.payload_id),
     mission_params |-> s.mission_params, weather |-> s.weather]

PayloadRevised == \E k \in DOMAIN decisions : decisions[k].edits.payload_id # None

\* What is in front of the operator, and what a brief is then written about, was
\* assessed from the ids and parameters that the same copy of the state holds: an
\* edit of the mission, a new plan with another airframe or payload, or a crash
\* never leaves a stale assessment, or a stale resolution of an id, on its way to
\* review (workflow.py: "the revision is assessed rather than assumed"). Until the
\* payload is edited: the edge of an edit leads back behind the node that
\* resolves payload_id, and the code keeps assessing the earlier payload.
AwaitsSignature(c) == c.next \in {"cite_limits", "human_ack"}
AwaitsBrief(c) == c.next = "report" /\ ~HasReport(c.values)
SealedInputsAreCurrent ==
    ~PayloadRevised =>
        \A c \in Copies :
            AwaitsSignature(c) \/ AwaitsBrief(c) =>
                c.values.assessment = AssessRequested(c.values)

\* An abort is final for its thread (nodes.py: "Mission aborted by the operator
\* before any brief was generated"): no later request publishes a model's text.
AbortIsFinal ==
    \A c \in Copies :
        c.values.aborted => c.values.report.by \in {"operator_abort", "invalid_aircraft"}

\* api/thread_locks.py, "one interrupt is resumed once": the service implements
\* the abstract ledger of reviews in which each takes at most one decision.
Ledger == INSTANCE Reviews WITH
    opened <- reviews,
    decided <- [k \in DOMAIN decisions |-> decisions[k].review]
OneDecisionPerReview == Ledger!Spec

PlannedOnce == Cardinality({p \in Plans : pc[p] # "idle"}) <= 1
Undisturbed == PlannedOnce /\ ~overlapped

\* The signature lives in the database row and the brief in the checkpoint, and
\* are written by different steps. Of one plan that acknowledgements leave to run,
\* and with a key needed, whenever no acknowledgement is under way: whoever has died
\* between the steps, at the latest review or behind it, a signature is never without
\* the brief of what was signed; and if nobody has died, no brief is without it.
SignatureAndBriefAgree ==
    (AuthOn /\ Undisturbed /\ ~AckInFlight /\ row # None) =>
        LET signed == row.ack_inputs_hash
            report == ckpt.values.report
        IN  /\ ~cutShort /\ signed # None => report = [by |-> "model", of |-> signed]
            /\ failures = 0 /\ report.by = "model" /\ report.of \notin waived => signed = report.of

\* nodes.py, MAX_ACK_ROUNDS: "An operator may revise and re-review, but not
\* forever", whatever number of acknowledgements arrives or dies half way, and
\* however often the thread is planned over between them.
ReviewRoundsAreBounded ==
    Serialised /\ ~overlapped => Len(decisions) <= MaxAckRounds

\* Neither lock is ever left behind: every accepted request ends.
EveryRequestEnds ==
    \A r \in Requests : pc[r] # "idle" ~> pc[r] \in Finished

\* README.md: an acknowledgement whose hash no longer matches is refused "rather
\* than applied to numbers that changed underneath it". True of the response the
\* review consumes, not only of the one checked, whatever plans, acknowledgements
\* and deaths there are, but in one window: the handler checks what aget_state
\* returned, ainvoke reads again, and a plan, which takes neither lock, may have
\* written a checkpoint in between.
NeverAppliedToChangedNumbers ==
    Serialised =>
        \A k \in DOMAIN decisions :
            decisions[k].replaced \/ decisions[k].hash \in {None, decisions[k].of}

-----------------------------------------------------------------------------
(* A statement of the repository's documents that the code does not keep *)

\* docs/backlog/05: "No brief exists without a human acknowledgement recorded
\* against the exact assessment that was signed". With nothing under way on the
\* thread, the brief it publishes is of the assessment its row says was signed.
BriefIsOfSignedAssessment ==
    (~overlapped /\ (\A r \in Requests : pc[r] \in Finished \cup {"idle"}) /\ failures = 0
        /\ row # None /\ ~Pending(ckpt) /\ row.ack_inputs_hash # None) =>
            ckpt.values.report.of \in {None, row.ack_inputs_hash}
=============================================================================
