--------------------------- MODULE PlanServiceProofs ---------------------------
(***************************************************************************)
(* Proofs that PlanService keeps its safety invariants for any number of   *)
(* plans, acknowledgements and workers, any round limit and any number of  *)
(* failures.                                                               *)
(***************************************************************************)
EXTENDS PlanService, FiniteSetTheorems, TLAPS

(***************************************************************************)
(* What the nodes of the graph do to the type of the state.                *)
(***************************************************************************)

LEMMA NoValuesType == NoValues \in MissionState
BY ConstantsAssumption, SMT
   DEF NoValues, MissionState, Maybe, NoReport, Text, Reports

LEMMA AssessType ==
    ASSUME NEW s \in MissionState
    PROVE  Assess(s) \in Assessments
BY DEF MissionState, Assess, Assessments

LEMMA WithInputType ==
    ASSUME NEW s \in MissionState, NEW request \in MissionRequests
    PROVE  WithInput(s, request) \in MissionState
BY DEF MissionState, MissionRequests, WithInput, Maybe

LEMMA ValidateInputsType ==
    ASSUME NEW s \in MissionState
    PROVE  ValidateInputs(s) \in MissionState
<1>1. InsufficientData(s) \in Assessments
  BY DEF MissionState, InsufficientData, Assessments, Maybe
<1>2. ResolvePayload(s.payload_id) \in PayloadIds \cup {NoPayload}
  BY ConstantsAssumption DEF ResolvePayload
<1>3. Text("invalid_aircraft") \in Reports
  BY DEF Text, Reports, Maybe
<1>4. ASSUME NEW hash \in Assessments, NEW text \in Reports
      PROVE  [s EXCEPT !.assessment = hash, !.is_viable = FALSE, !.report = text] \in MissionState
  BY DEF MissionState, Maybe
<1>5. ASSUME NEW id \in AircraftIds, NEW resolved \in PayloadIds \cup {NoPayload}
      PROVE  [s EXCEPT !.aircraft = id, !.payload = resolved, !.is_viable = TRUE] \in MissionState
  BY DEF MissionState, Maybe
<1>6. CASE s.aircraft_id \in KnownAircraft
  BY <1>2, <1>5, <1>6, ConstantsAssumption DEF ValidateInputs
<1>7. CASE s.aircraft_id \notin KnownAircraft
  BY <1>1, <1>3, <1>4, <1>7 DEF ValidateInputs
<1> QED
  BY <1>6, <1>7

LEMMA FetchWeatherType ==
    ASSUME NEW s \in MissionState, NEW reading \in Weathers
    PROVE  FetchWeather(s, reading) \in MissionState
BY DEF MissionState, FetchWeather, Maybe

LEMMA CalculateType ==
    ASSUME NEW s \in MissionState
    PROVE  Calculate(s) \in MissionState
<1>1. Assess(s) \in Maybe(Assessments)
  BY AssessType DEF Maybe
<1>2. ASSUME NEW a \in Maybe(Assessments), NEW b \in BOOLEAN
      PROVE  [s EXCEPT !.calculations = a, !.assessment = a, !.is_viable = b] \in MissionState
  BY DEF MissionState
<1>3. (s.weather \in FlyableWeathers) \in BOOLEAN
  OBVIOUS
<1> QED
  BY <1>1, <1>2, <1>3 DEF Calculate

LEMMA ProceedAtLimitType ==
    ASSUME NEW s \in MissionState
    PROVE  ProceedAtLimit(s) \in MissionState
BY DEF MissionState, ProceedAtLimit, Maybe, Actions

LEMMA ApplyEditsType ==
    ASSUME NEW s \in MissionState, NEW edits \in MissionEdits
    PROVE  ApplyEdits(s, edits) \in MissionState
<1> DEFINE params == IF edits.mission_params = None THEN s.mission_params ELSE edits.mission_params
           payload == IF edits.payload_id = None THEN s.payload_id ELSE edits.payload_id
<1>1. params \in Maybe(MissionParams) /\ payload \in Maybe(PayloadIds)
  BY DEF MissionState, MissionEdits
<1>2. ApplyEdits(s, edits) = [s EXCEPT !.mission_params = params, !.payload_id = payload]
  BY DEF ApplyEdits
<1> HIDE DEF params, payload
<1> QED
  BY <1>1, <1>2 DEF MissionState

LEMMA TakeResponseType ==
    ASSUME NEW s \in MissionState, ~AtRoundLimit(s),
           NEW action \in Actions, NEW edits \in MissionEdits
    PROVE  TakeResponse(s, action, edits) \in MissionState
<1> DEFINE reviewed == [s EXCEPT !.ack_action = action, !.ack_rounds = @ + 1]
<1>1. s.ack_rounds + 1 \in 0 .. MaxAckRounds
  BY ConstantsAssumption DEF AtRoundLimit, MissionState
<1>2. reviewed \in MissionState
  BY <1>1 DEF MissionState, Maybe
<1>3. CASE action = "confirm"
  BY <1>2, <1>3 DEF TakeResponse
<1>4. CASE action = "edit"
  <2>1. ApplyEdits(reviewed, edits) \in MissionState
    BY <1>2, ApplyEditsType
  <2> QED
    BY <2>1, <1>4 DEF TakeResponse
<1>5. CASE action = "abort"
  <2>1. Text("operator_abort") \in Reports
    BY DEF Text, Reports, Maybe
  <2>2. ASSUME NEW t \in MissionState
        PROVE  [t EXCEPT !.aborted = TRUE, !.report = Text("operator_abort")] \in MissionState
    BY <2>1 DEF MissionState
  <2> HIDE DEF reviewed
  <2>3. [reviewed EXCEPT !.aborted = TRUE, !.report = Text("operator_abort")] \in MissionState
    BY <1>2, <2>2
  <2>4. TakeResponse(s, action, edits)
          = [reviewed EXCEPT !.aborted = TRUE, !.report = Text("operator_abort")]
    BY <1>5 DEF TakeResponse, reviewed
  <2> QED
    BY <2>3, <2>4
<1> QED
  BY <1>3, <1>4, <1>5 DEF Actions

LEMMA GenerateReportType ==
    ASSUME NEW s \in MissionState
    PROVE  GenerateReport(s) \in MissionState
<1>1. Text("validation_failed") \in Reports
  BY DEF Text, Reports, Maybe
<1>2. [by |-> "model", of |-> s.assessment] \in Reports
  BY DEF Reports, MissionState
<1>3. CASE HasReport(s)
  BY <1>3 DEF GenerateReport, AsksModel
<1>4. CASE ~HasReport(s) /\ NothingToAssess(s)
  BY <1>1, <1>4 DEF GenerateReport, MissionState, AsksModel
<1>5. CASE AsksModel(s)
  BY <1>2, <1>5 DEF GenerateReport, MissionState, AsksModel
<1> QED
  BY <1>3, <1>4, <1>5 DEF AsksModel

(***************************************************************************)
(* Type correctness. TypeOK is split in what the handlers act on and the   *)
(* history; a superstep writes the first through Advance or Return alone.  *)
(***************************************************************************)

HandlerTypes ==
    /\ ckpt \in Checkpoints
    /\ row \in Maybe(Rows)
    /\ worker \in [Acks -> Maybe(Workers)]
    /\ mutex \in [Workers -> Maybe(Acks)]
    /\ rowLock \in Maybe(Acks)
    /\ pc \in [Requests -> PCs]
    /\ run \in [Requests -> Runs]
    /\ ack \in [Acks -> Acknowledgements]
    /\ failures \in 0 .. MaxFailures
    /\ replaced \subseteq Acks
    /\ cutShort \in BOOLEAN

HistoryTypes ==
    /\ reviews \in Nat
    /\ decisions \in Seq(Decisions)
    /\ waived \subseteq Maybe(Assessments)
    /\ briefs \in Seq(Maybe(Assessments))
    /\ shown \subseteq Maybe(Assessments)
    /\ overlapped \in BOOLEAN

LEMMA SplitTypes == TypeOK => HandlerTypes /\ HistoryTypes
BY DEF TypeOK, HandlerTypes, HistoryTypes

LEMMA JoinTypes == HandlerTypes' /\ HistoryTypes' => TypeOK'
BY DEF TypeOK, HandlerTypes, HistoryTypes

LEMMA NoRunType == NoRun \in Runs
BY NoValuesType DEF NoRun, Runs, Targets

LEMMA NoAckType == NoAck \in Acknowledgements
BY DEF NoAck, Acknowledgements, Bodies, Actions, NoEdits, MissionEdits, Maybe

\* Every copy of the state a run holds is typed.
LEMMA RunType ==
    ASSUME TypeOK, NEW r \in Requests
    PROVE  /\ run[r].values \in MissionState
           /\ run[r].next \in Targets
           /\ run[r].review \in Nat
           /\ run[r].resume \in BOOLEAN
           /\ run[r].values.assessment \in Maybe(Assessments)
BY DEF TypeOK, Runs, MissionState

LEMMA CkptType ==
    ASSUME TypeOK
    PROVE  /\ ckpt.values \in MissionState
           /\ ckpt.next \in Targets
           /\ ckpt.review \in Nat
           /\ ckpt.values.assessment \in Maybe(Assessments)
BY DEF TypeOK, Checkpoints, MissionState

LEMMA ReturnType ==
    ASSUME TypeOK, NEW r \in Requests, Return(r)
    PROVE  run' \in [Requests -> Runs] /\ pc' \in [Requests -> PCs]
BY NoRunType DEF TypeOK, Return, Goto, PCs, Finished

LEMMA AdvanceType ==
    ASSUME TypeOK, NEW r \in Requests, NEW values \in MissionState,
           NEW next \in Targets, NEW review \in Nat,
           Advance(r, values, next, review)
    PROVE  HandlerTypes'
<1>1. ckpt' \in Checkpoints
  BY DEF Advance, Checkpoints
<1>2. run' \in [Requests -> Runs] /\ pc' \in [Requests -> PCs]
  <2>1. CASE next = "end"
    BY <2>1, ReturnType DEF Advance
  <2>2. CASE next # "end"
    <3>1. [values |-> values, next |-> next, review |-> review, resume |-> FALSE] \in Runs
      BY DEF Runs
    <3>2. /\ run' = [run EXCEPT ![r] = [values |-> values, next |-> next,
                                        review |-> review, resume |-> FALSE]]
          /\ pc' = pc
      BY <2>2 DEF Advance
    <3> QED
      BY <3>1, <3>2 DEF TypeOK
  <2> QED
    BY <2>1, <2>2
<1> QED
  BY <1>1, <1>2 DEF Advance, Checked, TypeOK, HandlerTypes

LEMMA ReleaseLocksType ==
    ASSUME TypeOK, NEW r \in Requests, ReleaseLocks(r)
    PROVE  /\ mutex' \in [Workers -> Maybe(Acks)]
           /\ rowLock' \in Maybe(Acks)
           /\ worker' \in [Acks -> Maybe(Workers)]
BY DEF TypeOK, ReleaseLocks, Maybe

LEMMA GotoType ==
    ASSUME TypeOK, NEW r \in Requests, NEW label \in PCs, Goto(r, label)
    PROVE  pc' \in [Requests -> PCs]
BY DEF TypeOK, Goto

LEMMA RouteType ==
    ASSUME NEW s
    PROVE  RouteAfterValidation(s) \in Targets /\ RouteAfterAck(s) \in Targets
BY DEF RouteAfterValidation, RouteAfterAck, Targets, Nodes

LEMMA AcksAreRequests == Acks \subseteq Requests /\ Plans \subseteq Requests
BY DEF Requests

LEMMA InitType == Init => TypeOK
<1> SUFFICES ASSUME Init PROVE TypeOK
  OBVIOUS
<1>1. NoCheckpoint \in Checkpoints
  BY NoValuesType DEF Checkpoints, NoCheckpoint, Targets
<1>2. ckpt \in Checkpoints /\ run \in [Requests -> Runs]
  BY <1>1, NoRunType DEF Init
<1>3. ack \in [Acks -> Acknowledgements]
  BY NoAckType DEF Init
<1>4. pc \in [Requests -> PCs]
  BY DEF Init, PCs
<1>5. /\ worker \in [Acks -> Maybe(Workers)]
      /\ mutex \in [Workers -> Maybe(Acks)]
      /\ rowLock \in Maybe(Acks)
      /\ row \in Maybe(Rows)
  BY DEF Init, Maybe
<1>6. failures \in 0 .. MaxFailures
  BY ServiceAssumption DEF Init
<1>7. HistoryTypes
  <2>1. decisions \in Seq(Decisions) /\ briefs \in Seq(Maybe(Assessments))
    BY DEF Init
  <2>2. waived \subseteq Maybe(Assessments) /\ shown \subseteq Maybe(Assessments)
    BY DEF Init
  <2>3. reviews \in Nat /\ overlapped \in BOOLEAN
    BY DEF Init
  <2> QED
    BY <2>1, <2>2, <2>3 DEF HistoryTypes
<1>8. replaced \subseteq Acks /\ cutShort \in BOOLEAN
  BY DEF Init
<1> QED
  BY <1>2, <1>3, <1>4, <1>5, <1>6, <1>7, <1>8 DEF TypeOK, HistoryTypes

LEMMA SuperstepType ==
    ASSUME TypeOK, NEW r \in Requests, Superstep(r)
    PROVE  TypeOK'
<1> DEFINE s == run[r].values
<1>1. CASE ValidateNode(r)
  BY <1>1, AdvanceType, RunType, ValidateInputsType, RouteType, SplitTypes, JoinTypes
     DEF ValidateNode, HistoryTypes
<1>2. CASE WeatherNode(r)
  BY <1>2, AdvanceType, RunType, FetchWeatherType, SplitTypes, JoinTypes
     DEF WeatherNode, HistoryTypes, Targets, Nodes
<1>3. CASE CalculationsNode(r)
  BY <1>3, AdvanceType, RunType, CalculateType, SplitTypes, JoinTypes
     DEF CalculationsNode, HistoryTypes, Targets, Nodes
<1>4. CASE CiteLimitsNode(r)
  BY <1>4, AdvanceType, RunType, SplitTypes, JoinTypes
     DEF CiteLimitsNode, CiteLimits, HistoryTypes, Targets, Nodes
<1>5. CASE HumanAckAtLimit(r)
  BY <1>5, AdvanceType, RunType, ProceedAtLimitType, RouteType, SplitTypes, JoinTypes
     DEF HumanAckAtLimit, HistoryTypes
<1>6. CASE HumanAckInterrupt(r)
  BY <1>6, ReturnType, RunType, SplitTypes, JoinTypes
     DEF HumanAckInterrupt, HandlerTypes, HistoryTypes
<1>7. CASE ReportNode(r)
  <2>1. HandlerTypes'
    BY <1>7, AdvanceType, RunType, GenerateReportType DEF ReportNode, Targets
  <2>2. briefs' \in Seq(Maybe(Assessments))
    BY <1>7, RunType, SplitTypes DEF ReportNode, HistoryTypes
  <2> QED
    BY <1>7, <2>1, <2>2, SplitTypes, JoinTypes DEF ReportNode, HistoryTypes
<1> QED
  BY <1>1, <1>2, <1>3, <1>4, <1>5, <1>6, <1>7 DEF Superstep

LEMMA HumanAckResponseType ==
    ASSUME TypeOK, NEW a \in Acks, HumanAckResponse(a)
    PROVE  TypeOK'
<1> DEFINE body == ack[a].body
           s == TakeResponse(run[a].values, body.action, body.edits)
<1>1. body \in Bodies /\ body.action \in Actions /\ body.edits \in MissionEdits
        /\ body.inputs_hash \in Maybe(Assessments)
  BY DEF TypeOK, Acknowledgements, Bodies
<1>2. HandlerTypes'
  <2>1. s \in MissionState
    BY <1>1, RunType, AcksAreRequests, TakeResponseType DEF HumanAckResponse
  <2> QED
    BY <2>1, AdvanceType, AcksAreRequests, RouteType DEF HumanAckResponse
<1>3. decisions' \in Seq(Decisions)
  <2>1. [review |-> run[a].review, action |-> body.action, edits |-> body.edits,
         of |-> run[a].values.assessment, hash |-> body.inputs_hash,
         replaced |-> a \in replaced] \in Decisions
    BY <1>1, RunType, AcksAreRequests DEF Decisions
  <2> QED
    BY <2>1 DEF HumanAckResponse, TypeOK
<1> QED
  BY <1>2, <1>3, JoinTypes DEF HumanAckResponse, HistoryTypes, TypeOK

LEMMA PlanType ==
    ASSUME TypeOK, NEW p \in Plans, PlanRecord(p) \/ PlanInsert(p) \/ PlanInvoke(p)
    PROVE  TypeOK'
<1>1. CASE PlanRecord(p)
  <2>1. pc' \in [Requests -> PCs]
    BY <1>1, GotoType, AcksAreRequests DEF PlanRecord, PCs
  <2> QED
    BY <1>1, <2>1 DEF PlanRecord, TypeOK, history
<1>3. CASE PlanInsert(p)
  <2>1. row' \in Maybe(Rows)
    BY <1>3 DEF PlanInsert, TypeOK, Maybe, Rows
  <2>2. pc' \in [Requests -> PCs]
    BY <1>3, GotoType, AcksAreRequests DEF PlanInsert, PCs, Finished
  <2> QED
    BY <1>3, <2>1, <2>2 DEF PlanInsert, TypeOK, history
<1>2. CASE PlanInvoke(p)
  <2>1. PICK request \in PlanRequests :
           LET values == WithInput(ckpt.values, request)
           IN  /\ run' = [run EXCEPT ![p] = [values |-> values, next |-> "validate",
                                             review |-> 0, resume |-> FALSE]]
               /\ ckpt' = [values |-> values, next |-> "validate", review |-> 0]
    BY <1>2 DEF PlanInvoke
  <2> DEFINE values == WithInput(ckpt.values, request)
  <2>2. values \in MissionState
    BY CkptType, WithInputType, ServiceAssumption
  <2> HIDE DEF values
  <2>3. /\ run' = [run EXCEPT ![p] = [values |-> values, next |-> "validate",
                                      review |-> 0, resume |-> FALSE]]
        /\ ckpt' = [values |-> values, next |-> "validate", review |-> 0]
    BY <2>1 DEF values
  <2>4. ckpt' \in Checkpoints
    BY <2>2, <2>3 DEF Checkpoints, Targets, Nodes
  <2>5. [values |-> values, next |-> "validate", review |-> 0, resume |-> FALSE] \in Runs
    BY <2>2 DEF Runs, Targets, Nodes
  <2>6. run' \in [Requests -> Runs]
    BY <2>3, <2>5 DEF TypeOK
  <2>7. pc' \in [Requests -> PCs]
    BY <1>2, GotoType, AcksAreRequests DEF PlanInvoke, PCs
  <2>8. overlapped' \in BOOLEAN /\ replaced' \subseteq Acks
    BY <1>2 DEF PlanInvoke, Checked, TypeOK
  <2> QED
    BY <1>2, <2>4, <2>6, <2>7, <2>8 DEF PlanInvoke, TypeOK
<1> QED
  BY <1>1, <1>2, <1>3

LEMMA AckType ==
    ASSUME TypeOK, NEW a \in Acks,
           \/ AckArrive(a) \/ AckTurnedAway(a) \/ AckEnterMutex(a) \/ AckLockRow(a)
           \/ AckCheck(a) \/ AckRefuse(a) \/ AckResume(a) \/ AckSign(a)
    PROVE  TypeOK'
<1>0. a \in Requests
  BY AcksAreRequests
<1>1. CASE AckArrive(a)
  BY <1>0, <1>1, GotoType DEF AckArrive, TypeOK, PCs, Maybe, history
<1>2. CASE AckEnterMutex(a)
  BY <1>0, <1>2, GotoType DEF AckEnterMutex, TypeOK, PCs, Maybe, history
<1>3. CASE AckLockRow(a)
  <2>1. ack' \in [Acks -> Acknowledgements]
    BY <1>3 DEF AckLockRow, TypeOK, Acknowledgements
  <2> QED
    BY <1>0, <1>3, <2>1, GotoType DEF AckLockRow, TypeOK, PCs, Maybe, history
<1>4. CASE AckCheck(a)
  <2>1. PICK body \in OperatorBodies :
            ack' = [ack EXCEPT ![a] = [@ EXCEPT !.body = body, !.read = ckpt.values.assessment]]
    BY <1>4 DEF AckCheck
  <2>2. body \in Bodies
    BY ServiceAssumption, SplitTypes
       DEF OperatorBodies, Bodies, HistoryTypes, NoEdits, MissionEdits, Maybe
  <2>3. ack' \in [Acks -> Acknowledgements]
    BY <2>1, <2>2, CkptType DEF TypeOK, Acknowledgements
  <2>4. overlapped' \in BOOLEAN
    BY <1>4 DEF AckCheck, TypeOK
  <2>5. pc' \in [Requests -> PCs]
    BY <1>0, <1>4, GotoType DEF AckCheck, PCs
  <2> QED
    BY <1>4, <2>3, <2>4, <2>5 DEF AckCheck, TypeOK
<1>5. CASE AckRefuse(a)
  <2>1. ack' \in [Acks -> Acknowledgements]
    BY <1>5, NoAckType DEF AckRefuse, TypeOK
  <2> QED
    BY <1>0, <1>5, <2>1, GotoType, ReleaseLocksType
       DEF AckRefuse, TypeOK, PCs, Finished, history
<1>6. CASE AckResume(a)
  <2>1. [values |-> ckpt.values, next |-> ckpt.next,
         review |-> ckpt.review, resume |-> TRUE] \in Runs
    BY CkptType DEF Runs
  <2>2. run' \in [Requests -> Runs]
    BY <1>6, <2>1 DEF AckResume, TypeOK
  <2>3. pc' \in [Requests -> PCs]
    BY <1>0, <1>6, GotoType DEF AckResume, PCs
  <2> QED
    BY <1>6, <2>2, <2>3 DEF AckResume, TypeOK, history
<1>7. CASE AckSign(a)
  <2>1. row' \in Maybe(Rows)
    <3>1. ack[a].read \in Maybe(Assessments)
      BY DEF TypeOK, Acknowledgements
    <3>2. [ack_inputs_hash |-> ack[a].read] \in Rows
      BY <3>1 DEF Rows
    <3> QED
      BY <1>7, <3>2 DEF AckSign, TypeOK, Maybe
  <2>2. ack' \in [Acks -> Acknowledgements]
    BY <1>7, NoAckType DEF AckSign, TypeOK
  <2>3. pc' \in [Requests -> PCs]
    BY <1>0, <1>7, GotoType DEF AckSign, PCs, Finished
  <2> QED
    BY <1>0, <1>7, <2>1, <2>2, <2>3, ReleaseLocksType DEF AckSign, TypeOK
<1>8. CASE AckTurnedAway(a)
  BY <1>0, <1>8, GotoType DEF AckTurnedAway, TypeOK, PCs, Finished, history
<1> QED
  BY <1>1, <1>2, <1>3, <1>4, <1>5, <1>6, <1>7, <1>8

LEMMA FailType ==
    ASSUME TypeOK, NEW r \in Requests, Fail(r)
    PROVE  TypeOK'
<1>1. run' \in [Requests -> Runs]
  BY NoRunType DEF Fail, TypeOK
<1>2. ack' \in [Acks -> Acknowledgements]
  BY NoAckType DEF Fail, TypeOK
<1>3. pc' \in [Requests -> PCs]
  BY GotoType DEF Fail, PCs, Finished
<1>4. failures' \in 0 .. MaxFailures
  BY ServiceAssumption DEF Fail, TypeOK
<1>5. replaced' \subseteq Acks /\ cutShort' \in BOOLEAN
  BY DEF Fail, TypeOK
<1> QED
  BY <1>1, <1>2, <1>3, <1>4, <1>5, ReleaseLocksType DEF Fail, TypeOK

LEMMA TypeStep == TypeOK /\ [Next]_vars => TypeOK'
<1> SUFFICES ASSUME TypeOK, [Next]_vars PROVE TypeOK'
  OBVIOUS
<1>1. CASE UNCHANGED vars
  BY <1>1 DEF vars, history, TypeOK
<1>2. CASE GetThread
  BY <1>2, CkptType DEF GetThread, TypeOK
<1>3. ASSUME NEW p \in Plans, PlanRecord(p) \/ PlanStep(p) PROVE TypeOK'
  BY <1>3, PlanType, SuperstepType, AcksAreRequests DEF PlanStep
<1>4. ASSUME NEW a \in Acks, AckArrive(a) \/ AckTurnedAway(a) \/ AckStep(a) PROVE TypeOK'
  BY <1>4, AckType, SuperstepType, HumanAckResponseType, AcksAreRequests DEF AckStep
<1>5. ASSUME NEW r \in Requests, Fail(r) PROVE TypeOK'
  BY <1>5, FailType
<1> QED
  BY <1>1, <1>2, <1>3, <1>4, <1>5 DEF Next, Terminated

\* Every variable keeps its type in every behaviour of the service.
THEOREM TypeCorrect == Spec => []TypeOK
<1>1. Init => TypeOK
  BY InitType
<1>2. TypeOK /\ [Next]_vars => TypeOK'
  BY TypeStep
<1> QED
  BY <1>1, <1>2, PTL DEF Spec

(***************************************************************************)
(* Copies of the state. A step leaves each copy as it was, forgets it, or  *)
(* writes one that a single superstep or a new plan makes of an old one.   *)
(***************************************************************************)

Copy(values, next) == [values |-> values, next |-> next]
NoCopy == Copy(NoValues, "end")

\* What human_ack let pass.
Passed == Confirmed \cup waived

\* d is what one step makes of the copy c.
Follows(c, d) ==
    \/ \E request \in PlanRequests : d = Copy(WithInput(c.values, request), "validate")
    \/ /\ c.next = "validate"
       /\ d = Copy(ValidateInputs(c.values), RouteAfterValidation(ValidateInputs(c.values)))
    \/ /\ c.next = "weather"
       /\ \E reading \in Weathers : d = Copy(FetchWeather(c.values, reading), "calculations")
    \/ /\ c.next = "calculations"
       /\ d = Copy(Calculate(c.values), "cite_limits")
    \/ /\ c.next = "cite_limits"
       /\ d = Copy(c.values, "human_ack")
    \/ /\ c.next = "human_ack"
       /\ d = Copy(ProceedAtLimit(c.values), RouteAfterAck(ProceedAtLimit(c.values)))
       /\ c.values.assessment \in Passed'
    \/ /\ c.next = "human_ack"
       /\ ~AtRoundLimit(c.values)
       /\ \E action \in Actions, edits \in MissionEdits :
             LET s == TakeResponse(c.values, action, edits)
             IN  /\ d = Copy(s, RouteAfterAck(s))
                 /\ action = "confirm" => c.values.assessment \in Passed'
                 /\ edits.payload_id # None => PayloadRevised'
    \/ /\ c.next = "report"
       /\ d = Copy(GenerateReport(c.values), "end")

LEMMA ConfirmedUnchanged ==
    UNCHANGED decisions => Confirmed' = Confirmed /\ PayloadRevised' = PayloadRevised
BY DEF Confirmed, PayloadRevised

LEMMA ConfirmedAppend ==
    ASSUME TypeOK, NEW d \in Decisions, decisions' = Append(decisions, d)
    PROVE  /\ Confirmed \subseteq Confirmed'
           /\ d.action = "confirm" => d.of \in Confirmed'
           /\ PayloadRevised \/ d.edits.payload_id # None => PayloadRevised'
<1>1. decisions \in Seq(Decisions)
  BY DEF TypeOK
<1>2. /\ DOMAIN decisions \subseteq DOMAIN decisions'
      /\ \A k \in DOMAIN decisions : decisions'[k] = decisions[k]
  BY <1>1
<1>3. Len(decisions) + 1 \in DOMAIN decisions' /\ decisions'[Len(decisions) + 1] = d
  BY <1>1
<1> QED
  BY <1>2, <1>3 DEF Confirmed, PayloadRevised

LEMMA CopiesOfUnchanged ==
    UNCHANGED <<ckpt, run>> => Copies' = Copies
BY DEF Copies

LEMMA CkptIsCopy == Copy(ckpt.values, ckpt.next) \in Copies
BY DEF Copies, Copy

LEMMA RunIsCopy ==
    ASSUME NEW r \in Requests
    PROVE  Copy(run[r].values, run[r].next) \in Copies
BY DEF Copies, Copy

LEMMA ReturnCopies ==
    ASSUME TypeOK, NEW r \in Requests, Return(r), UNCHANGED ckpt
    PROVE  \A d \in Copies' : d \in Copies \/ d = NoCopy
<1>1. run' = [run EXCEPT ![r] = NoRun] /\ ckpt' = ckpt
  BY DEF Return
<1>2. run \in [Requests -> Runs]
  BY DEF TypeOK
<1> QED
  BY <1>1, <1>2 DEF Copies, NoCopy, Copy, NoRun

LEMMA AdvanceCopies ==
    ASSUME TypeOK, NEW r \in Requests, NEW values, NEW next, NEW review,
           Advance(r, values, next, review)
    PROVE  \A d \in Copies' : d \in Copies \/ d = NoCopy \/ d = Copy(values, next)
<1>1. run \in [Requests -> Runs]
  BY DEF TypeOK
<1>2. ckpt' = [values |-> values, next |-> next, review |-> review]
  BY DEF Advance
<1>3. PICK x \in {NoRun, [values |-> values, next |-> next, review |-> review, resume |-> FALSE]} :
          run' = [run EXCEPT ![r] = x]
  BY DEF Advance, Return
<1>4. Copy(x.values, x.next) \in {NoCopy, Copy(values, next)}
  BY DEF Copy, NoCopy, NoRun
<1>5. Copy(ckpt'.values, ckpt'.next) = Copy(values, next)
  BY <1>2 DEF Copy
<1>6. \A q \in Requests : run'[q] = IF q = r THEN x ELSE run[q]
  BY <1>1, <1>3
<1> QED
  BY <1>4, <1>5, <1>6 DEF Copies, Copy

LEMMA SuperstepCopies ==
    ASSUME TypeOK, NEW r \in Requests, Superstep(r)
    PROVE  \A d \in Copies' :
               d \in Copies \/ d = NoCopy \/ \E c \in Copies : Follows(c, d)
<1> DEFINE c == Copy(run[r].values, run[r].next)
<1>0. c \in Copies /\ c.values = run[r].values /\ c.next = run[r].next
  BY RunIsCopy DEF Copy
<1> HIDE DEF c
<1>1. CASE ValidateNode(r)
  BY <1>0, <1>1, AdvanceCopies DEF ValidateNode, At, Follows
<1>2. CASE WeatherNode(r)
  BY <1>0, <1>2, AdvanceCopies DEF WeatherNode, At, Follows
<1>3. CASE CalculationsNode(r)
  BY <1>0, <1>3, AdvanceCopies DEF CalculationsNode, At, Follows
<1>4. CASE CiteLimitsNode(r)
  BY <1>0, <1>4, AdvanceCopies DEF CiteLimitsNode, CiteLimits, At, Follows
<1>5. CASE HumanAckAtLimit(r)
  <2>1. c.values.assessment \in Passed'
    BY <1>0, <1>5 DEF HumanAckAtLimit, Passed
  <2> QED
    BY <1>0, <1>5, <2>1, AdvanceCopies DEF HumanAckAtLimit, At, Follows
<1>6. CASE HumanAckInterrupt(r)
  BY <1>6, ReturnCopies DEF HumanAckInterrupt
<1>7. CASE ReportNode(r)
  BY <1>0, <1>7, AdvanceCopies DEF ReportNode, At, Follows
<1> QED
  BY <1>1, <1>2, <1>3, <1>4, <1>5, <1>6, <1>7 DEF Superstep

LEMMA HumanAckResponseCopies ==
    ASSUME TypeOK, NEW a \in Acks, HumanAckResponse(a)
    PROVE  /\ \A d \in Copies' :
                  d \in Copies \/ d = NoCopy \/ \E c \in Copies : Follows(c, d)
           /\ Passed \subseteq Passed'
           /\ PayloadRevised => PayloadRevised'
<1> DEFINE c == Copy(run[a].values, run[a].next)
           body == ack[a].body
           s == TakeResponse(c.values, body.action, body.edits)
<1>0. c \in Copies /\ c.values = run[a].values /\ c.next = run[a].next
  BY RunIsCopy, AcksAreRequests DEF Copy
<1>1. body.action \in Actions /\ body.edits \in MissionEdits
        /\ body.inputs_hash \in Maybe(Assessments)
  BY DEF TypeOK, Acknowledgements, Bodies
<1> HIDE DEF c, body
<1>2. /\ Confirmed \subseteq Confirmed'
      /\ body.action = "confirm" => c.values.assessment \in Confirmed'
      /\ PayloadRevised \/ body.edits.payload_id # None => PayloadRevised'
  <2> DEFINE d == [review |-> run[a].review, action |-> body.action, edits |-> body.edits,
                   of |-> c.values.assessment, hash |-> body.inputs_hash,
                   replaced |-> a \in replaced]
  <2>1. d \in Decisions
    BY <1>0, <1>1, RunType, AcksAreRequests DEF Decisions
  <2>2. decisions' = Append(decisions, d)
    BY <1>0 DEF HumanAckResponse, body
  <2> QED
    BY <2>1, <2>2, ConfirmedAppend
<1>3. waived' = waived
  BY DEF HumanAckResponse
<1>4. Advance(a, s, RouteAfterAck(s), 0)
  BY <1>0 DEF HumanAckResponse, body
<1>5. Follows(c, Copy(s, RouteAfterAck(s)))
  <2>1. c.next = "human_ack" /\ ~AtRoundLimit(c.values)
    BY <1>0 DEF HumanAckResponse, At
  <2> QED
    BY <1>1, <1>2, <2>1 DEF Follows, Passed
<1>6. \A d \in Copies' : d \in Copies \/ d = NoCopy \/ d = Copy(s, RouteAfterAck(s))
  BY <1>4, AdvanceCopies, AcksAreRequests
<1> QED
  BY <1>0, <1>2, <1>3, <1>5, <1>6 DEF Passed

\* No step takes back what human_ack let pass, or that a payload was edited.
LEMMA PassedGrows ==
    TypeOK /\ [Next]_vars => Passed \subseteq Passed' /\ (PayloadRevised => PayloadRevised')
<1> DEFINE Grows == Passed \subseteq Passed' /\ (PayloadRevised => PayloadRevised')
<1> SUFFICES ASSUME TypeOK, [Next]_vars PROVE Grows
  OBVIOUS
<1>1. ASSUME UNCHANGED decisions, waived \subseteq waived' PROVE Grows
  BY <1>1, ConfirmedUnchanged DEF Passed
<1>2. CASE UNCHANGED vars
  BY <1>1, <1>2 DEF vars, history
<1>3. CASE GetThread
  BY <1>1, <1>3 DEF GetThread
<1>4. ASSUME NEW r \in Requests, Superstep(r) PROVE Grows
  BY <1>1, <1>4 DEF Superstep, ValidateNode, WeatherNode, CalculationsNode, CiteLimitsNode,
                    HumanAckAtLimit, HumanAckInterrupt, ReportNode, history
<1>5. ASSUME NEW p \in Plans, PlanRecord(p) \/ PlanStep(p) PROVE Grows
  BY <1>1, <1>4, <1>5, AcksAreRequests DEF PlanRecord, PlanStep, PlanInsert, PlanInvoke, history
<1>6. ASSUME NEW a \in Acks, AckArrive(a) \/ AckTurnedAway(a) \/ AckStep(a) PROVE Grows
  <2>1. CASE HumanAckResponse(a)
    BY <2>1, HumanAckResponseCopies
  <2>2. CASE Superstep(a)
    BY <2>2, <1>4, AcksAreRequests
  <2> QED
    BY <1>1, <1>6, <2>1, <2>2
       DEF AckArrive, AckTurnedAway, AckStep, AckEnterMutex, AckLockRow, AckCheck, AckRefuse,
           AckResume, AckSign, history
<1>7. ASSUME NEW r \in Requests, Fail(r) PROVE Grows
  BY <1>1, <1>7 DEF Fail, history
<1> QED
  BY <1>2, <1>3, <1>5, <1>6, <1>7 DEF Next, Terminated

LEMMA CopiesFollow ==
    ASSUME TypeOK, [Next]_vars
    PROVE  \A d \in Copies' :
               d \in Copies \/ d = NoCopy \/ \E c \in Copies : Follows(c, d)
<1> DEFINE Goal == \A d \in Copies' :
                       d \in Copies \/ d = NoCopy \/ \E c \in Copies : Follows(c, d)
<1>0. ASSUME UNCHANGED <<ckpt, run>> PROVE Goal
  BY <1>0, CopiesOfUnchanged
<1> SUFFICES Goal
  OBVIOUS
<1> HIDE DEF Goal
<1>1. CASE UNCHANGED vars
  BY <1>0, <1>1 DEF vars
<1>2. CASE GetThread
  BY <1>0, <1>2 DEF GetThread
<1>3. ASSUME NEW r \in Requests, Superstep(r) PROVE Goal
  BY <1>3, SuperstepCopies DEF Goal
<1>4. ASSUME NEW p \in Plans, PlanRecord(p) \/ PlanInsert(p) PROVE Goal
  BY <1>0, <1>4 DEF PlanRecord, PlanInsert
<1>5. ASSUME NEW p \in Plans, PlanInvoke(p) PROVE Goal
  <2>1. PICK request \in PlanRequests :
           LET values == WithInput(ckpt.values, request)
           IN  /\ run' = [run EXCEPT ![p] = [values |-> values, next |-> "validate",
                                             review |-> 0, resume |-> FALSE]]
               /\ ckpt' = [values |-> values, next |-> "validate", review |-> 0]
    BY <1>5 DEF PlanInvoke
  <2> DEFINE c == Copy(ckpt.values, ckpt.next)
             d == Copy(WithInput(ckpt.values, request), "validate")
  <2>2. Follows(c, d)
    BY DEF Follows, Copy
  <2>3. \A e \in Copies' : e \in Copies \/ e = d
    BY <2>1, AcksAreRequests DEF Copies, Copy, TypeOK
  <2> QED
    BY <2>2, <2>3, CkptIsCopy DEF Goal
<1>6. ASSUME NEW a \in Acks, AckResume(a) PROVE Goal
  <2>1. run' = run \/ run' = [run EXCEPT ![a] = [values |-> ckpt.values, next |-> ckpt.next,
                                                 review |-> ckpt.review, resume |-> TRUE]]
    BY <1>6 DEF AckResume
  <2>2. \A d \in Copies' : d \in Copies
    <3>1. ckpt' = ckpt
      BY <1>6 DEF AckResume
    <3>2. \A r \in Requests : Copy(run'[r].values, run'[r].next)
                                \in {Copy(run[r].values, run[r].next), Copy(ckpt.values, ckpt.next)}
      BY <2>1, AcksAreRequests DEF TypeOK
    <3> QED
      BY <3>1, <3>2 DEF Copies, Copy
  <2> QED
    BY <2>2 DEF Goal
<1>7. ASSUME NEW a \in Acks, AckArrive(a) \/ AckTurnedAway(a) \/ AckStep(a) PROVE Goal
  <2>1. CASE HumanAckResponse(a)
    BY <2>1, HumanAckResponseCopies DEF Goal
  <2> QED
    BY <1>0, <1>3, <1>6, <1>7, <2>1, AcksAreRequests
       DEF AckArrive, AckTurnedAway, AckStep, AckEnterMutex, AckLockRow, AckCheck, AckRefuse, AckSign
<1>8. ASSUME NEW r \in Requests, Fail(r) PROVE Goal
  <2>1. run' = [run EXCEPT ![r] = NoRun] /\ ckpt' = ckpt
    BY <1>8 DEF Fail
  <2> QED
    BY <2>1 DEF Goal, Copies, TypeOK, NoCopy, Copy, NoRun
<1> QED
  BY <1>1, <1>2, <1>3, <1>4, <1>5, <1>7, <1>8, AcksAreRequests DEF Next, PlanStep, Terminated

(***************************************************************************)
(* The invariant of the copies, and what it says of the briefs.            *)
(***************************************************************************)

SealedCopy(c) == AwaitsSignature(c) \/ AwaitsBrief(c) => c.values.assessment = Assess(c.values)

AbortedCopy(c) == c.values.aborted => c.values.report.by \in {"operator_abort", "invalid_aircraft"}

\* Whatever is about to be described by the model has been let pass.
PassedCopy(c) == c.next = "report" /\ AsksModel(c.values) => c.values.assessment \in Passed

\* Until a payload is edited, what the ids were resolved to is what they resolve to.
ResolvedCopy(c) ==
    ~PayloadRevised /\ (c.next \in {"weather", "calculations"} \/ AwaitsSignature(c) \/ AwaitsBrief(c)) =>
        /\ c.values.aircraft = c.values.aircraft_id
        /\ c.values.payload = ResolvePayload(c.values.payload_id)

CopiesInv ==
    \A c \in Copies : SealedCopy(c) /\ AbortedCopy(c) /\ PassedCopy(c) /\ ResolvedCopy(c)

IInv == TypeOK /\ CopiesInv /\ ReviewBeforeBrief

LEMMA CopyType ==
    ASSUME TypeOK, NEW c \in Copies
    PROVE  c.values \in MissionState
BY CkptType, RunType DEF Copies

LEMMA NoCopyInv ==
    SealedCopy(NoCopy) /\ AbortedCopy(NoCopy) /\ PassedCopy(NoCopy)' /\ ResolvedCopy(NoCopy)'
BY DEF SealedCopy, AbortedCopy, PassedCopy, ResolvedCopy, NoCopy, Copy, AwaitsSignature, AwaitsBrief, NoValues

\* How the edges and the nodes treat what the invariant speaks of.
LEMMA TakeResponseFacts ==
    ASSUME NEW s \in MissionState, NEW action \in Actions, NEW edits \in MissionEdits
    PROVE  LET t == TakeResponse(s, action, edits)
           IN  /\ t.assessment = s.assessment
               /\ action = "confirm" =>
                      /\ Assess(t) = Assess(s)
                      /\ t.report = s.report
                      /\ t.aborted = s.aborted
                      /\ RouteAfterAck(t) = "report"
               /\ action = "edit" =>
                      /\ t.report = s.report
                      /\ t.aborted = s.aborted
                      /\ RouteAfterAck(t) = "calculations"
               /\ action = "abort" =>
                      /\ t.report.by = "operator_abort"
                      /\ RouteAfterAck(t) = "end"
<1> DEFINE reviewed == [s EXCEPT !.ack_action = action, !.ack_rounds = @ + 1]
<1>1. CASE action = "confirm"
  BY <1>1 DEF TakeResponse, MissionState, RouteAfterAck, Assess
<1>2. CASE action = "edit"
  BY <1>2 DEF TakeResponse, ApplyEdits, MissionState, RouteAfterAck
<1>3. CASE action = "abort"
  BY <1>3 DEF TakeResponse, MissionState, RouteAfterAck, Text
<1> QED
  BY <1>1, <1>2, <1>3 DEF Actions

LEMMA ProceedAtLimitFacts ==
    ASSUME NEW s \in MissionState
    PROVE  LET t == ProceedAtLimit(s)
           IN  /\ t.assessment = s.assessment
               /\ Assess(t) = Assess(s)
               /\ t.report = s.report
               /\ t.aborted = s.aborted
               /\ RouteAfterAck(t) = "report"
BY DEF ProceedAtLimit, MissionState, RouteAfterAck, Assess

LEMMA WithInputFacts ==
    ASSUME NEW s \in MissionState, NEW request
    PROVE  LET t == WithInput(s, request)
           IN  t.report = s.report /\ t.aborted = s.aborted
BY DEF WithInput, MissionState

LEMMA ValidateInputsFacts ==
    ASSUME NEW s \in MissionState
    PROVE  LET t == ValidateInputs(s)
           IN  /\ t.aborted = s.aborted
               /\ \/ t.report = s.report /\ RouteAfterValidation(t) = "weather"
                  \/ t.report = Text("invalid_aircraft") /\ RouteAfterValidation(t) = "report"
BY DEF ValidateInputs, MissionState, RouteAfterValidation

LEMMA GenerateReportFacts ==
    ASSUME NEW s \in MissionState
    PROVE  LET t == GenerateReport(s)
           IN  /\ t.aborted = s.aborted
               /\ HasReport(s) => t.report = s.report
BY DEF GenerateReport, MissionState, AsksModel

LEMMA CalculateFacts ==
    ASSUME NEW s \in MissionState
    PROVE  LET t == Calculate(s)
           IN  /\ t.assessment = Assess(t)
               /\ t.report = s.report
               /\ t.aborted = s.aborted
BY DEF Calculate, Assess, MissionState

\* A report that says why there is no brief is a report.
LEMMA HasReportFacts ==
    ASSUME NEW s, s.report.by # "none"
    PROVE  HasReport(s)
BY DEF HasReport, NoReport, Text

LEMMA FollowsInv ==
    ASSUME NEW c, c.values \in MissionState,
           SealedCopy(c), AbortedCopy(c), PassedCopy(c),
           Passed \subseteq Passed', NEW d, Follows(c, d)
    PROVE  SealedCopy(d) /\ AbortedCopy(d) /\ PassedCopy(d)'
<1> USE DEF SealedCopy, AbortedCopy, PassedCopy, AwaitsSignature, AwaitsBrief, Copy
<1>1. CASE \E request \in PlanRequests : d = Copy(WithInput(c.values, request), "validate")
  <2>1. PICK request \in PlanRequests : d = Copy(WithInput(c.values, request), "validate")
    BY <1>1
  <2>2. d.values = WithInput(c.values, request) /\ d.next = "validate"
    BY <2>1
  <2> QED
    BY <2>2, WithInputFacts
<1>2. CASE /\ c.next = "validate"
           /\ d = Copy(ValidateInputs(c.values), RouteAfterValidation(ValidateInputs(c.values)))
  <2>1. d.next = "report" => HasReport(d.values)
    BY <1>2, ValidateInputsFacts, HasReportFacts DEF Text
  <2> QED
    BY <1>2, <2>1, ValidateInputsFacts DEF Text, AsksModel
<1>3. CASE \E reading \in Weathers : d = Copy(FetchWeather(c.values, reading), "calculations")
  BY <1>3 DEF FetchWeather, MissionState
<1>4. CASE d = Copy(Calculate(c.values), "cite_limits")
  BY <1>4, CalculateFacts
<1>5. CASE c.next = "cite_limits" /\ d = Copy(c.values, "human_ack")
  BY <1>5
<1>6. CASE /\ c.next = "human_ack"
           /\ d = Copy(ProceedAtLimit(c.values), RouteAfterAck(ProceedAtLimit(c.values)))
           /\ c.values.assessment \in Passed'
  BY <1>6, ProceedAtLimitFacts
<1>7. CASE /\ c.next = "human_ack"
           /\ ~AtRoundLimit(c.values)
           /\ \E action \in Actions, edits \in MissionEdits :
                 LET s == TakeResponse(c.values, action, edits)
                 IN  /\ d = Copy(s, RouteAfterAck(s))
                     /\ action = "confirm" => c.values.assessment \in Passed'
  <2>1. PICK action \in Actions, edits \in MissionEdits :
            LET s == TakeResponse(c.values, action, edits)
            IN  /\ d = Copy(s, RouteAfterAck(s))
                /\ action = "confirm" => c.values.assessment \in Passed'
    BY <1>7
  <2>2. CASE action = "confirm"
    BY <1>7, <2>1, <2>2, TakeResponseFacts
  <2>3. CASE action = "edit"
    BY <1>7, <2>1, <2>3, TakeResponseFacts
  <2>4. CASE action = "abort"
    BY <1>7, <2>1, <2>4, TakeResponseFacts
  <2> QED
    BY <2>2, <2>3, <2>4 DEF Actions
<1>8. CASE c.next = "report" /\ d = Copy(GenerateReport(c.values), "end")
  <2>1. c.values.aborted => HasReport(c.values)
    BY HasReportFacts
  <2> QED
    BY <1>8, <2>1, GenerateReportFacts
<1> QED
  BY <1>1, <1>2, <1>3, <1>4, <1>5, <1>6, <1>7, <1>8 DEF Follows

\* How the nodes treat the ids and what they were resolved to.
SameIds(s, t) ==
    t.aircraft_id = s.aircraft_id /\ t.aircraft = s.aircraft
        /\ t.payload_id = s.payload_id /\ t.payload = s.payload

LEMMA NodesKeepIds ==
    ASSUME NEW s \in MissionState
    PROVE  /\ \A reading : SameIds(s, FetchWeather(s, reading))
           /\ SameIds(s, Calculate(s))
           /\ SameIds(s, ProceedAtLimit(s))
BY DEF SameIds, FetchWeather, Calculate, ProceedAtLimit, MissionState

LEMMA TakeResponseKeepsIds ==
    ASSUME NEW s \in MissionState, NEW action \in Actions, NEW edits \in MissionEdits,
           edits.payload_id = None
    PROVE  SameIds(s, TakeResponse(s, action, edits))
<1>1. CASE action = "confirm"
  BY <1>1 DEF TakeResponse, SameIds, MissionState
<1>2. CASE action = "edit"
  BY <1>2 DEF TakeResponse, ApplyEdits, SameIds, MissionState
<1>3. CASE action = "abort"
  BY <1>3 DEF TakeResponse, SameIds, MissionState
<1> QED
  BY <1>1, <1>2, <1>3 DEF Actions

LEMMA ValidateInputsResolves ==
    ASSUME NEW s \in MissionState
    PROVE  LET t == ValidateInputs(s)
           IN  \/ t.aircraft = t.aircraft_id /\ t.payload = ResolvePayload(t.payload_id)
               \/ RouteAfterValidation(t) = "report" /\ HasReport(t)
BY DEF ValidateInputs, MissionState, RouteAfterValidation, HasReport, NoReport, Text

LEMMA FollowsResolved ==
    ASSUME NEW c, c.values \in MissionState, ResolvedCopy(c),
           PayloadRevised => PayloadRevised', NEW d, Follows(c, d)
    PROVE  ResolvedCopy(d)'
<1> SUFFICES ASSUME ~PayloadRevised' PROVE ResolvedCopy(d)'
  BY DEF ResolvedCopy
<1>0. ASSUME SameIds(c.values, d.values),
             c.next \in {"weather", "calculations"} \/ AwaitsSignature(c)
      PROVE  ResolvedCopy(d)'
  BY <1>0 DEF ResolvedCopy, SameIds
<1> USE DEF Copy
<1>1. CASE \E request \in PlanRequests : d = Copy(WithInput(c.values, request), "validate")
  BY <1>1 DEF ResolvedCopy, AwaitsSignature, AwaitsBrief
<1>2. CASE /\ c.next = "validate"
           /\ d = Copy(ValidateInputs(c.values), RouteAfterValidation(ValidateInputs(c.values)))
  <2> DEFINE t == ValidateInputs(c.values)
  <2>1. d.values = t /\ d.next = RouteAfterValidation(t)
    BY <1>2
  <2>2. \/ t.aircraft = t.aircraft_id /\ t.payload = ResolvePayload(t.payload_id)
        \/ RouteAfterValidation(t) = "report" /\ HasReport(t)
    BY ValidateInputsResolves
  <2> HIDE DEF t
  <2> QED
    BY <2>1, <2>2 DEF ResolvedCopy, AwaitsSignature, AwaitsBrief
<1>3. CASE /\ c.next = "weather"
           /\ \E reading \in Weathers : d = Copy(FetchWeather(c.values, reading), "calculations")
  BY <1>0, <1>3, NodesKeepIds
<1>4. CASE c.next = "calculations" /\ d = Copy(Calculate(c.values), "cite_limits")
  BY <1>0, <1>4, NodesKeepIds
<1>5. CASE c.next = "cite_limits" /\ d = Copy(c.values, "human_ack")
  BY <1>0, <1>5 DEF SameIds, AwaitsSignature
<1>6. CASE /\ c.next = "human_ack"
           /\ d = Copy(ProceedAtLimit(c.values), RouteAfterAck(ProceedAtLimit(c.values)))
  BY <1>0, <1>6, NodesKeepIds DEF AwaitsSignature
<1>7. CASE /\ c.next = "human_ack"
           /\ \E action \in Actions, edits \in MissionEdits :
                 LET s == TakeResponse(c.values, action, edits)
                 IN  /\ d = Copy(s, RouteAfterAck(s))
                     /\ edits.payload_id # None => PayloadRevised'
  BY <1>0, <1>7, TakeResponseKeepsIds DEF AwaitsSignature
<1>8. CASE c.next = "report" /\ d = Copy(GenerateReport(c.values), "end")
  BY <1>8 DEF ResolvedCopy, AwaitsSignature, AwaitsBrief
<1> QED
  BY <1>1, <1>2, <1>3, <1>4, <1>5, <1>6, <1>7, <1>8 DEF Follows

LEMMA CopiesStep ==
    ASSUME TypeOK, CopiesInv, [Next]_vars
    PROVE  CopiesInv'
<1>1. Passed \subseteq Passed' /\ (PayloadRevised => PayloadRevised')
  BY PassedGrows
<1>2. ASSUME NEW d \in Copies'
      PROVE  SealedCopy(d) /\ AbortedCopy(d) /\ PassedCopy(d)' /\ ResolvedCopy(d)'
  <2>1. CASE d \in Copies
    BY <1>1, <2>1 DEF CopiesInv, PassedCopy, ResolvedCopy
  <2>2. CASE d = NoCopy
    BY <2>2, NoCopyInv
  <2>3. CASE \E c \in Copies : Follows(c, d)
    BY <1>1, <2>3, CopyType, FollowsInv, FollowsResolved DEF CopiesInv
  <2> QED
    BY <2>1, <2>2, <2>3, CopiesFollow
<1> QED
  BY <1>2 DEF CopiesInv, SealedCopy, AbortedCopy

LEMMA BriefsStep ==
    ASSUME TypeOK, CopiesInv, ReviewBeforeBrief, [Next]_vars
    PROVE  ReviewBeforeBrief'
<1>1. ASSUME UNCHANGED briefs PROVE ReviewBeforeBrief'
  BY <1>1, PassedGrows DEF ReviewBeforeBrief, Passed
<1>2. ASSUME NEW r \in Requests, ReportNode(r) PROVE ReviewBeforeBrief'
  <2> DEFINE s == run[r].values
  <2>1. CASE ~AsksModel(s)
    BY <1>1, <1>2, <2>1 DEF ReportNode
  <2>2. CASE AsksModel(s)
    <3>1. briefs \in Seq(Maybe(Assessments))
      BY DEF TypeOK
    <3>2. briefs' = Append(briefs, s.assessment)
      BY <1>2, <2>2 DEF ReportNode
    <3>3. \A k \in DOMAIN briefs' : \/ k \in DOMAIN briefs /\ briefs'[k] = briefs[k]
                                   \/ briefs'[k] = s.assessment
      BY <3>1, <3>2
    <3>4. s.assessment \in Passed
      BY <1>2, <2>2, RunIsCopy DEF CopiesInv, PassedCopy, Copy, ReportNode, At
    <3> QED
      BY <3>3, <3>4, PassedGrows DEF ReviewBeforeBrief, Passed
  <2> QED
    BY <2>1, <2>2
<1>3. ASSUME NEW r \in Requests, Superstep(r) PROVE ReviewBeforeBrief'
  BY <1>1, <1>2, <1>3 DEF Superstep, ValidateNode, WeatherNode, CalculationsNode,
                          CiteLimitsNode, HumanAckAtLimit, HumanAckInterrupt, history
<1>4. CASE UNCHANGED vars \/ GetThread
  BY <1>1, <1>4 DEF vars, history, GetThread
<1>5. ASSUME NEW p \in Plans, PlanRecord(p) \/ PlanStep(p) PROVE ReviewBeforeBrief'
  BY <1>1, <1>3, <1>5, AcksAreRequests DEF PlanRecord, PlanStep, PlanInsert, PlanInvoke, history
<1>6. ASSUME NEW a \in Acks, AckArrive(a) \/ AckTurnedAway(a) \/ AckStep(a) PROVE ReviewBeforeBrief'
  BY <1>1, <1>3, <1>6, AcksAreRequests
     DEF AckArrive, AckTurnedAway, AckStep, AckEnterMutex, AckLockRow, AckCheck, AckRefuse,
         AckResume, AckSign, HumanAckResponse, history
<1>7. ASSUME NEW r \in Requests, Fail(r) PROVE ReviewBeforeBrief'
  BY <1>1, <1>7 DEF Fail, history
<1> QED
  BY <1>4, <1>5, <1>6, <1>7 DEF Next, Terminated

LEMMA InitIInv == Init => IInv
<1> SUFFICES ASSUME Init PROVE IInv
  OBVIOUS
<1>1. Copies \subseteq {NoCopy}
  BY DEF Init, Copies, NoCopy, Copy, NoRun, NoCheckpoint
<1>2. CopiesInv
  BY <1>1 DEF CopiesInv, SealedCopy, AbortedCopy, PassedCopy, ResolvedCopy, NoCopy, Copy,
              AwaitsSignature, AwaitsBrief, NoValues
<1>3. ReviewBeforeBrief
  BY DEF Init, ReviewBeforeBrief
<1> QED
  BY <1>2, <1>3, InitType DEF IInv

LEMMA StepIInv == IInv /\ [Next]_vars => IInv'
BY TypeStep, CopiesStep, BriefsStep DEF IInv

\* What every copy of the thread's channels and every brief satisfies at every step
\* of every handler: the inductive invariant the safety theorems are read off from.
THEOREM InductiveInvariant == Spec => []IInv
<1> QED
  BY InitIInv, StepIInv, PTL DEF Spec

\* However plans, acknowledgements and failures interleave on a thread, the
\* language model only describes assessments that human_ack let pass.
THEOREM ReviewPrecedesBrief == Spec => []ReviewBeforeBrief
<1>1. IInv => ReviewBeforeBrief
  BY DEF IInv
<1> QED
  BY <1>1, InductiveInvariant, PTL

\* Until a payload is edited, an assessment on its way to review, or to the brief,
\* is the assessment of the ids and parameters stored next to it.
THEOREM SealedInputsStayCurrent == Spec => []SealedInputsAreCurrent
<1>1. IInv => SealedInputsAreCurrent
  <2> SUFFICES ASSUME IInv, ~PayloadRevised, NEW c \in Copies,
                      AwaitsSignature(c) \/ AwaitsBrief(c)
               PROVE  c.values.assessment = AssessRequested(c.values)
    BY DEF SealedInputsAreCurrent
  <2>1. c.values.assessment = Assess(c.values)
    BY DEF IInv, CopiesInv, SealedCopy
  <2>2. /\ c.values.aircraft = c.values.aircraft_id
        /\ c.values.payload = ResolvePayload(c.values.payload_id)
    BY DEF IInv, CopiesInv, ResolvedCopy
  <2> QED
    BY <2>1, <2>2 DEF Assess, AssessRequested
<1> QED
  BY <1>1, InductiveInvariant, PTL

\* Nothing later on the thread publishes a model's text after an abort.
THEOREM AbortStaysFinal == Spec => []AbortIsFinal
<1>1. IInv => AbortIsFinal
  BY DEF IInv, CopiesInv, AbortedCopy, AbortIsFinal
<1> QED
  BY <1>1, InductiveInvariant, PTL

(***************************************************************************)
(* The two locks. An acknowledgement past its mutex holds it, and with     *)
(* authentication on, when the thread's row is there for it to lock, one   *)
(* past the row lock holds that where the database has row locks. So as    *)
(* long as one lock or the other is sure to be shared at most one          *)
(* acknowledgement is in its critical section.                             *)
(***************************************************************************)

Critical(a) == pc[a] \in {"check", "resume", "run", "sign"}
Inside(a) == pc[a] = "row" \/ Critical(a)

LockInv ==
    /\ \A a \in Acks : AuthOn /\ (pc[a] = "mutex" \/ Inside(a)) => row # None
    /\ \A a \in Acks : ack[a].locked => row # None
    /\ \A a \in Acks : AuthOn /\ Critical(a) => ack[a].locked
    /\ \A a \in Acks : pc[a] = "mutex" \/ Inside(a) => worker[a] \in Workers
    /\ \A a \in Acks : Inside(a) => mutex[worker[a]] = a
    /\ \A a \in Acks : RowLocks /\ AuthOn /\ Critical(a) => rowLock = a

LEMMA MutualExclusion ==
    ASSUME Serialised, LockInv, NEW a \in Acks, NEW b \in Acks, Critical(a), Critical(b)
    PROVE  a = b
<1>1. CASE RowLocks /\ AuthOn
  BY <1>1 DEF LockInv
<1>2. CASE ~(RowLocks /\ AuthOn)
  <2>1. worker[a] = worker[b]
    BY <1>2, DeploymentAssumption DEF LockInv, Inside, Serialised, OneWorker
  <2> QED
    BY <2>1 DEF LockInv, Inside
<1> QED
  BY <1>1, <1>2

\* A superstep of an acknowledgement's run stays inside its critical section.
LEMMA SuperstepFrame ==
    ASSUME NEW r \in Requests, Superstep(r) \/ HumanAckResponse(r)
    PROVE  /\ UNCHANGED <<row, worker, mutex, rowLock, ack>>
           /\ pc[r] = "run"
           /\ \/ pc' = pc
              \/ pc' = [pc EXCEPT ![r] = IF r \in Plans THEN "done" ELSE "sign"]
<1>1. ASSUME NEW values, NEW next, NEW review, Advance(r, values, next, review)
      PROVE  /\ UNCHANGED <<row, worker, mutex, rowLock, ack>>
             /\ \/ pc' = pc
                \/ pc' = [pc EXCEPT ![r] = IF r \in Plans THEN "done" ELSE "sign"]
  BY <1>1 DEF Advance, Return, Goto
<1> QED
  BY <1>1 DEF Superstep, ValidateNode, WeatherNode, CalculationsNode, CiteLimitsNode,
              HumanAckAtLimit, HumanAckInterrupt, ReportNode, HumanAckResponse,
              At, Return, Goto

\* A request that leaves with its locks; the row, if there is one, stays.
LEMMA ReleaseLocksFrame ==
    ASSUME TypeOK, LockInv, NEW r \in Requests, ReleaseLocks(r),
           row # None => row' # None,
           \A a \in Acks : ack'[a] = IF a = r THEN NoAck ELSE ack[a],
           NEW label \in Finished, Goto(r, label)
    PROVE  LockInv'
<1>1. \A a \in Acks : Inside(a)' => a # r /\ Inside(a)
  BY AcksAreRequests DEF Inside, Critical, Finished, Goto, TypeOK
<1>2. \A a \in Acks : (pc[a] = "mutex")' => a # r /\ pc[a] = "mutex"
  BY AcksAreRequests DEF Finished, Goto, TypeOK
<1>3. \A a \in Acks : a # r => worker'[a] = worker[a]
  BY DEF ReleaseLocks
<1>4. \A a \in Acks : Inside(a) /\ a # r => mutex'[worker[a]] = a
  BY DEF ReleaseLocks, LockInv, TypeOK
<1>5. \A a \in Acks : RowLocks /\ AuthOn /\ Critical(a) /\ a # r => rowLock' = a
  BY DEF ReleaseLocks, LockInv
<1>6. \A a \in Acks : ack'[a].locked => ack[a].locked
  BY DEF NoAck
<1>7. \A a \in Acks : Critical(a)' => a # r /\ Critical(a)
  BY AcksAreRequests DEF Critical, Finished, Goto, TypeOK
<1> QED
  BY <1>1, <1>2, <1>3, <1>4, <1>5, <1>6, <1>7 DEF LockInv, Inside

LEMMA LockStep ==
    ASSUME TypeOK, LockInv, [Next]_vars
    PROVE  LockInv'
<1> USE AcksAreRequests DEF Inside, Critical
<1>1. CASE UNCHANGED vars \/ GetThread
  BY <1>1 DEF vars, GetThread, LockInv
<1>2. ASSUME NEW r \in Requests, Superstep(r) \/ HumanAckResponse(r) PROVE LockInv'
  BY <1>2, SuperstepFrame DEF LockInv, TypeOK, Requests
<1>3. ASSUME NEW p \in Plans, PlanRecord(p) \/ PlanStep(p) PROVE LockInv'
  <2>1. CASE PlanRecord(p)
    BY <2>1, ServiceAssumption DEF PlanRecord, LockInv, TypeOK, Goto
  <2>2. CASE PlanInvoke(p)
    BY <2>2, ServiceAssumption DEF PlanInvoke, LockInv, TypeOK, Goto
  <2>3. CASE PlanInsert(p)
    <3>1. row' # None
      BY <2>3, NoneIsNoRow DEF PlanInsert, Rows, Maybe
    <3>2. \A a \in Acks : pc'[a] = pc[a]
      BY <2>3, ServiceAssumption DEF PlanInsert, TypeOK, Goto
    <3> QED
      BY <2>3, <3>1, <3>2 DEF PlanInsert, LockInv
  <2> QED
    BY <1>2, <1>3, <2>1, <2>2, <2>3 DEF PlanStep
<1>4. ASSUME NEW a \in Acks, AckArrive(a) \/ AckTurnedAway(a) \/ AckStep(a) PROVE LockInv'
  <2>1. CASE AckArrive(a)
    BY <2>1 DEF AckArrive, LockInv, TypeOK, Goto
  <2>2. CASE AckEnterMutex(a)
    BY <2>2, ServiceAssumption DEF AckEnterMutex, LockInv, TypeOK, Goto
  <2>3. CASE AckLockRow(a)
    <3>1. /\ ack'[a].locked <=> row # None
          /\ \A b \in Acks : b # a => ack'[b] = ack[b]
      BY <2>3 DEF AckLockRow, TypeOK, Acknowledgements
    <3>2. /\ pc[a] = "row" /\ pc'[a] = "check" /\ \A b \in Acks : b # a => pc'[b] = pc[b]
          /\ UNCHANGED <<row, worker, mutex>>
      BY <2>3 DEF AckLockRow, Goto, TypeOK
    <3>3. \A b \in Acks : RowLocks /\ AuthOn /\ Critical(b)' => rowLock' = b
      BY <2>3, <3>2, ServiceAssumption DEF AckLockRow, LockInv
    <3> QED
      BY <3>1, <3>2, <3>3 DEF LockInv
  <2>4. CASE AckCheck(a)
    <3>1. \A b \in Acks : ack'[b].locked = ack[b].locked
      BY <2>4 DEF AckCheck, TypeOK, Acknowledgements
    <3> QED
      BY <2>4, <3>1 DEF AckCheck, LockInv, TypeOK, Goto
  <2>5. CASE AckRefuse(a)
    <3>1. \A b \in Acks : ack'[b] = IF b = a THEN NoAck ELSE ack[b]
      BY <2>5 DEF AckRefuse, TypeOK
    <3> QED
      BY <2>5, <3>1, ReleaseLocksFrame DEF AckRefuse, Finished
  <2>6. CASE AckResume(a)
    BY <2>6 DEF AckResume, LockInv, TypeOK, Goto
  <2>7. CASE AckSign(a)
    <3>1. row # None => row' # None
      BY <2>7, NoneIsNoRow DEF AckSign, Rows, Maybe, TypeOK, Acknowledgements
    <3>2. \A b \in Acks : ack'[b] = IF b = a THEN NoAck ELSE ack[b]
      BY <2>7 DEF AckSign, TypeOK
    <3> QED
      BY <2>7, <3>1, <3>2, ReleaseLocksFrame DEF AckSign, Finished
  <2>8. CASE AckTurnedAway(a)
    BY <2>8 DEF AckTurnedAway, LockInv, TypeOK, Goto
  <2> QED
    BY <1>2, <1>4, <2>1, <2>2, <2>3, <2>4, <2>5, <2>6, <2>7, <2>8 DEF AckStep
<1>5. ASSUME NEW r \in Requests, Fail(r) PROVE LockInv'
  <2>1. \A b \in Acks : ack'[b] = IF b = r THEN NoAck ELSE ack[b]
    BY <1>5 DEF Fail, TypeOK
  <2> QED
    BY <1>5, <2>1, ReleaseLocksFrame DEF Fail, Finished
<1> QED
  BY <1>1, <1>3, <1>4, <1>5 DEF Next, Terminated

(***************************************************************************)
(* Reviews. A review still to be decided is the one in the checkpoint in   *)
(* front of human_ack; an acknowledgement's run has it only inside the     *)
(* critical section, and writes a checkpoint past it when it decides.      *)
(***************************************************************************)

DecidedReviews == {decisions[k].review : k \in DOMAIN decisions}

\* A copy's review has been opened, and is undecided.
OpenReview(c) == c.review \in 1 .. reviews /\ c.review \notin DecidedReviews

ReviewInv ==
    /\ DecidedReviews \subseteq 1 .. reviews
    /\ ckpt.next = "human_ack" => OpenReview(ckpt)
    /\ \A r \in Requests : run[r].resume => r \in Acks /\ pc[r] = "run"
    /\ \A r \in Requests :
          run[r].resume /\ run[r].next = "human_ack" => OpenReview(run[r])

LEMMA DecidedUnchanged == UNCHANGED decisions => DecidedReviews' = DecidedReviews
BY DEF DecidedReviews

LEMMA DecidedAppend ==
    ASSUME TypeOK, NEW d, decisions' = Append(decisions, d)
    PROVE  DecidedReviews' = DecidedReviews \cup {d.review}
<1>1. decisions \in Seq(Decisions)
  BY DEF TypeOK
<1>2. \A k \in DOMAIN decisions : k \in DOMAIN decisions' /\ decisions'[k] = decisions[k]
  BY <1>1
<1>3. \A k \in DOMAIN decisions' :
          \/ k \in DOMAIN decisions /\ decisions'[k] = decisions[k]
          \/ decisions'[k] = d
  BY <1>1
<1>4. Len(decisions) + 1 \in DOMAIN decisions' /\ decisions'[Len(decisions) + 1] = d
  BY <1>1
<1> QED
  BY <1>2, <1>3, <1>4 DEF DecidedReviews

LEMMA AdvanceRuns ==
    ASSUME TypeOK, NEW r \in Requests, NEW values, NEW next, NEW review,
           Advance(r, values, next, review)
    PROVE  /\ ~run'[r].resume
           /\ \A q \in Requests : q # r => pc'[q] = pc[q] /\ run'[q] = run[q]
<1>1. CASE next = "end"
  BY <1>1 DEF Advance, Return, Goto, NoRun, TypeOK
<1>2. CASE next # "end"
  <2>1. /\ run' = [run EXCEPT ![r] = [values |-> values, next |-> next,
                                      review |-> review, resume |-> FALSE]]
        /\ pc' = pc
    BY <1>2 DEF Advance
  <2> QED
    BY <2>1 DEF TypeOK
<1> QED
  BY <1>1, <1>2

\* What a superstep that decides nothing does to the runs and the checkpoint.
LEMMA AdvanceReview ==
    ASSUME TypeOK, ReviewInv, NEW r \in Requests, NEW values, NEW next, NEW review,
           Advance(r, values, next, review),
           UNCHANGED decisions, reviews' \in {reviews, reviews + 1},
           next = "human_ack" => review \in 1 .. reviews' /\ review \notin DecidedReviews,
           pc[r] = "run"
    PROVE  ReviewInv'
<1>1. ckpt' = [values |-> values, next |-> next, review |-> review]
  BY DEF Advance
<1>3. /\ ~run'[r].resume
      /\ \A q \in Requests : q # r => pc'[q] = pc[q] /\ run'[q] = run[q]
  BY AdvanceRuns
<1>5. reviews \in Nat
  BY DEF TypeOK
<1>6. 1 .. reviews \subseteq 1 .. reviews'
  BY <1>5
<1>7. DecidedReviews' = DecidedReviews
  BY DecidedUnchanged
<1>8. (ckpt.next = "human_ack" => OpenReview(ckpt))'
  BY <1>1, <1>7 DEF OpenReview
<1> QED
  BY <1>3, <1>6, <1>7, <1>8 DEF ReviewInv, OpenReview

LEMMA SuperstepReview ==
    ASSUME TypeOK, ReviewInv, NEW r \in Requests, Superstep(r)
    PROVE  ReviewInv'
<1>1. CASE ValidateNode(r)
  BY <1>1, AdvanceReview DEF ValidateNode, At, RouteAfterValidation
<1>2. CASE WeatherNode(r)
  BY <1>2, AdvanceReview DEF WeatherNode, At
<1>3. CASE CalculationsNode(r)
  BY <1>3, AdvanceReview DEF CalculationsNode, At
<1>4. CASE CiteLimitsNode(r)
  <2>1. reviews + 1 \in 1 .. reviews' /\ reviews + 1 \notin DecidedReviews
    BY <1>4 DEF CiteLimitsNode, TypeOK, ReviewInv
  <2> QED
    BY <1>4, <2>1, AdvanceReview DEF CiteLimitsNode, At
<1>5. CASE HumanAckAtLimit(r)
  BY <1>5, AdvanceReview DEF HumanAckAtLimit, At, RouteAfterAck
<1>6. CASE HumanAckInterrupt(r)
  <2>1. /\ UNCHANGED <<ckpt, decisions, reviews>>
        /\ pc' = [pc EXCEPT ![r] = IF r \in Plans THEN "done" ELSE "sign"]
        /\ run' = [run EXCEPT ![r] = NoRun]
    BY <1>6 DEF HumanAckInterrupt, Return, Goto
  <2>2. ~run'[r].resume
    BY <2>1 DEF NoRun, TypeOK
  <2>3. \A q \in Requests : q # r => pc'[q] = pc[q] /\ run'[q] = run[q]
    BY <2>1 DEF TypeOK
  <2> QED
    BY <2>1, <2>2, <2>3, DecidedUnchanged DEF ReviewInv, OpenReview
<1>7. CASE ReportNode(r)
  BY <1>7, AdvanceReview DEF ReportNode, At
<1> QED
  BY <1>1, <1>2, <1>3, <1>4, <1>5, <1>6, <1>7 DEF Superstep

\* Nobody else is in the critical section when an acknowledgement decides, so no
\* other run and no checkpoint is left with the review it took.
LEMMA HumanAckResponseReview ==
    ASSUME Serialised, TypeOK, LockInv, ReviewInv, NEW a \in Acks, HumanAckResponse(a)
    PROVE  /\ ReviewInv'
           /\ OpenReview(run[a])
<1> DEFINE s == TakeResponse(run[a].values, ack[a].body.action, ack[a].body.edits)
           d == [review |-> run[a].review, action |-> ack[a].body.action,
                 edits |-> ack[a].body.edits, of |-> run[a].values.assessment,
                 hash |-> ack[a].body.inputs_hash, replaced |-> a \in replaced]
<1>1. pc[a] = "run" /\ run[a].next = "human_ack" /\ run[a].resume
  BY DEF HumanAckResponse, At
<1>2. OpenReview(run[a])
  BY <1>1, AcksAreRequests DEF ReviewInv
<1>3. DecidedReviews' = DecidedReviews \cup {run[a].review}
  <2>1. decisions' = Append(decisions, d) /\ d.review = run[a].review
    BY DEF HumanAckResponse
  <2> QED
    BY <2>1, DecidedAppend
<1>4. Advance(a, s, RouteAfterAck(s), 0) /\ reviews' = reviews
  BY DEF HumanAckResponse
<1>5. ckpt'.next # "human_ack"
  BY <1>4 DEF Advance, RouteAfterAck
<1>7. ~run'[a].resume
  BY <1>4, AdvanceRuns, AcksAreRequests
<1>8. \A q \in Requests : q # a => run'[q] = run[q] /\ ~run[q].resume
  <2>1. \A q \in Acks : pc[q] = "run" => q = a
    BY <1>1, MutualExclusion DEF Critical
  <2> QED
    BY <1>4, <2>1, AdvanceRuns, AcksAreRequests DEF ReviewInv
<1> QED
  BY <1>2, <1>3, <1>4, <1>5, <1>7, <1>8 DEF ReviewInv, OpenReview

LEMMA ReviewStep ==
    ASSUME Serialised, TypeOK, LockInv, ReviewInv, [Next]_vars
    PROVE  ReviewInv'
<1> USE AcksAreRequests
<1>1. CASE UNCHANGED vars \/ GetThread
  BY <1>1, DecidedUnchanged DEF vars, history, GetThread, ReviewInv, OpenReview
<1>2. ASSUME NEW r \in Requests, NEW label,
             Goto(r, label), ~run[r].resume, UNCHANGED <<ckpt, run, reviews, decisions>>
      PROVE  ReviewInv'
  <2>1. \A q \in Requests : q # r => pc'[q] = pc[q]
    BY <1>2 DEF Goto, TypeOK
  <2> QED
    BY <1>2, <2>1, DecidedUnchanged DEF ReviewInv, OpenReview
<1>3. \A r \in Requests : pc[r] # "run" => ~run[r].resume
  BY DEF ReviewInv
<1>4. ASSUME NEW p \in Plans, PlanRecord(p) \/ PlanStep(p) PROVE ReviewInv'
  <2>1. CASE PlanRecord(p)
    BY <1>2, <1>3, <2>1 DEF PlanRecord, history
  <2>3. CASE PlanInsert(p)
    BY <1>2, <1>3, <2>3 DEF PlanInsert, history
  <2>2. CASE PlanInvoke(p)
    <3>1. ckpt'.next = "validate"
      BY <2>2 DEF PlanInvoke
    <3>2. PICK request \in PlanRequests :
              run' = [run EXCEPT ![p] = [values |-> WithInput(ckpt.values, request),
                                         next |-> "validate", review |-> 0, resume |-> FALSE]]
      BY <2>2 DEF PlanInvoke
    <3>3. ~run'[p].resume
      BY <3>2 DEF TypeOK
    <3>4. \A q \in Requests : q # p => pc'[q] = pc[q] /\ run'[q] = run[q]
      BY <2>2, <3>2 DEF PlanInvoke, Goto, TypeOK
    <3>5. DecidedReviews' = DecidedReviews /\ reviews' = reviews
      BY <2>2, DecidedUnchanged DEF PlanInvoke
    <3> QED
      BY <3>1, <3>3, <3>4, <3>5 DEF ReviewInv, OpenReview
  <2> QED
    BY <1>4, <2>1, <2>2, <2>3, SuperstepReview DEF PlanStep
<1>5. ASSUME NEW a \in Acks, AckArrive(a) \/ AckTurnedAway(a) \/ AckStep(a) PROVE ReviewInv'
  <2>1. CASE AckResume(a)
    <3>1. CASE Pending(ckpt)
      <4>1. run'[a] = [values |-> ckpt.values, next |-> ckpt.next,
                       review |-> ckpt.review, resume |-> TRUE] /\ pc'[a] = "run"
        BY <2>1, <3>1 DEF AckResume, Goto, TypeOK
      <4>2. \A q \in Requests : q # a => pc'[q] = pc[q] /\ run'[q] = run[q]
        BY <2>1, <3>1 DEF AckResume, Goto, TypeOK
      <4>3. UNCHANGED <<ckpt, reviews>> /\ DecidedReviews' = DecidedReviews
        BY <2>1, DecidedUnchanged DEF AckResume, history
      <4> QED
        BY <4>1, <4>2, <4>3 DEF ReviewInv, OpenReview
    <3>2. CASE ~Pending(ckpt)
      BY <1>2, <1>3, <2>1, <3>2 DEF AckResume, history
    <3> QED
      BY <3>1, <3>2
  <2>2. CASE AckSign(a)
    BY <1>2, <1>3, <2>2 DEF AckSign
  <2>3. CASE \/ AckArrive(a) \/ AckTurnedAway(a) \/ AckEnterMutex(a)
            \/ AckLockRow(a) \/ AckRefuse(a)
    BY <1>2, <1>3, <2>3
       DEF AckArrive, AckTurnedAway, AckEnterMutex, AckLockRow, AckRefuse, history
  <2>4. CASE AckCheck(a)
    BY <1>2, <1>3, <2>4 DEF AckCheck
  <2> QED
    BY <1>5, <2>1, <2>2, <2>3, <2>4, SuperstepReview, HumanAckResponseReview DEF AckStep
<1>6. ASSUME NEW r \in Requests, Fail(r) PROVE ReviewInv'
  <2>1. run'[r] = NoRun /\ \A q \in Requests : q # r => pc'[q] = pc[q] /\ run'[q] = run[q]
    BY <1>6 DEF Fail, Goto, TypeOK
  <2>2. UNCHANGED <<ckpt, reviews>> /\ DecidedReviews' = DecidedReviews
    BY <1>6, DecidedUnchanged DEF Fail
  <2> QED
    BY <2>1, <2>2 DEF ReviewInv, OpenReview, NoRun
<1> QED
  BY <1>1, <1>4, <1>5, <1>6 DEF Next, Terminated

(***************************************************************************)
(* The service implements the ledger of reviews.                           *)
(***************************************************************************)

LInv == TypeOK /\ LockInv /\ (Serialised => ReviewInv)

LEMMA InitLInv == Init => LInv
BY InitType, AcksAreRequests
   DEF LInv, Init, LockInv, Inside, Critical, ReviewInv, DecidedReviews, OpenReview,
       NoCheckpoint, NoRun, NoAck

LEMMA StepLInv == LInv /\ [Next]_vars => LInv'
BY TypeStep, LockStep, ReviewStep DEF LInv, Serialised, OneWorker

LEMMA LedgerInit == Init => Ledger!Init
BY DEF Init, Ledger!Init

\* A step that leaves the decisions alone, and opens at most one review.
LEMMA LedgerOpen ==
    ASSUME UNCHANGED decisions, reviews' = reviews \/ reviews' = reviews + 1
    PROVE  [Ledger!Next]_(Ledger!vars)
BY DEF Ledger!Next, Ledger!Open, Ledger!vars

LEMMA LedgerDecide ==
    ASSUME Serialised, TypeOK, LockInv, ReviewInv, NEW a \in Acks, HumanAckResponse(a)
    PROVE  Ledger!Next
<1> DEFINE d == [review |-> run[a].review, action |-> ack[a].body.action,
                 edits |-> ack[a].body.edits, of |-> run[a].values.assessment,
                 hash |-> ack[a].body.inputs_hash, replaced |-> a \in replaced]
           old == [k \in DOMAIN decisions |-> decisions[k].review]
           new == [k \in DOMAIN decisions' |-> decisions'[k].review]
<1>1. PICK taken \in 1 .. reviews : taken = run[a].review /\ taken \notin DecidedReviews
  BY HumanAckResponseReview DEF OpenReview
<1>2. decisions \in Seq(Decisions) /\ decisions' = Append(decisions, d) /\ d.review = taken
  BY <1>1 DEF HumanAckResponse, TypeOK
<1> HIDE DEF d
<1>3. old \in Seq(Nat) /\ Len(old) = Len(decisions)
  <2>1. DOMAIN decisions = 1 .. Len(decisions) /\ Len(decisions) \in Nat
    BY <1>2
  <2>2. \A k \in 1 .. Len(decisions) : decisions[k].review \in Nat
    <3>1. \A k \in 1 .. Len(decisions) : decisions[k] \in Decisions
      BY <1>2
    <3> QED
      BY <3>1 DEF Decisions
  <2> QED
    BY <2>1, <2>2
<1>4. /\ DOMAIN decisions' = 1 .. Len(decisions) + 1
      /\ decisions'[Len(decisions) + 1] = d
      /\ \A k \in 1 .. Len(decisions) : decisions'[k] = decisions[k]
  BY <1>2
<1>5. new = Append(old, taken)
  <2>1. new = [k \in 1 .. Len(decisions) + 1 |->
                  IF k = Len(decisions) + 1 THEN taken ELSE decisions[k].review]
    BY <1>2, <1>4
  <2>2. Append(old, taken) = [k \in 1 .. Len(decisions) + 1 |->
                  IF k = Len(decisions) + 1 THEN taken ELSE decisions[k].review]
    BY <1>1, <1>2, <1>3
  <2> QED
    BY <2>1, <2>2
<1>6. ~ \E k \in DOMAIN old : old[k] = taken
  BY <1>1 DEF DecidedReviews
<1>7. reviews' = reviews
  BY DEF HumanAckResponse
<1>8. Ledger!Decide(taken)
  BY <1>5, <1>6, <1>7 DEF Ledger!Decide, Ledger!Decided
<1> QED
  BY <1>1, <1>8 DEF Ledger!Next

LEMMA LedgerStep ==
    ASSUME Serialised, LInv, [Next]_vars
    PROVE  [Ledger!Next]_(Ledger!vars)
<1>1. CASE UNCHANGED vars \/ GetThread
  BY <1>1, LedgerOpen DEF vars, history, GetThread
<1>2. ASSUME NEW r \in Requests, Superstep(r) PROVE [Ledger!Next]_(Ledger!vars)
  BY <1>2, LedgerOpen
     DEF Superstep, ValidateNode, WeatherNode, CalculationsNode, CiteLimitsNode,
         HumanAckAtLimit, HumanAckInterrupt, ReportNode, history
<1>3. ASSUME NEW p \in Plans, PlanRecord(p) \/ PlanStep(p)
      PROVE  [Ledger!Next]_(Ledger!vars)
  BY <1>2, <1>3, LedgerOpen, AcksAreRequests DEF PlanRecord, PlanStep, PlanInsert, PlanInvoke, history
<1>4. ASSUME NEW a \in Acks, AckArrive(a) \/ AckTurnedAway(a) \/ AckStep(a) PROVE [Ledger!Next]_(Ledger!vars)
  <2>1. CASE HumanAckResponse(a)
    BY <2>1, LedgerDecide DEF LInv
  <2>2. CASE Superstep(a)
    BY <2>2, <1>2, AcksAreRequests
  <2> QED
    BY <1>4, <2>1, <2>2, LedgerOpen
       DEF AckArrive, AckTurnedAway, AckStep, AckEnterMutex, AckLockRow, AckCheck, AckRefuse,
           AckResume, AckSign, history
<1>5. ASSUME NEW r \in Requests, Fail(r) PROVE [Ledger!Next]_(Ledger!vars)
  BY <1>5, LedgerOpen DEF Fail, history
<1> QED
  BY <1>1, <1>3, <1>4, <1>5 DEF Next, Terminated

\* One interrupt is resumed once: whatever acknowledgements arrive, with a key needed
\* on however many workers and without one on a single worker, and whatever fails,
\* each review takes at most one decision.
THEOREM OneInterruptIsResumedOnce ==
    ASSUME Serialised
    PROVE  Spec => OneDecisionPerReview
<1>1. Spec => []LInv
  BY InitLInv, StepLInv, PTL DEF Spec
<1> QED
  <2>1. LInv /\ [Next]_vars => [Ledger!Next]_(Ledger!vars)
    BY LedgerStep
  <2> QED
    BY <1>1, <2>1, LedgerInit, PTL DEF Spec, OneDecisionPerReview, Ledger!Spec

(***************************************************************************)
(* What is about to be decided was checked against the hash it came with,  *)
(* unless a plan has replaced the checkpoint since. And while no plan is   *)
(* under way together with an acknowledgement, the decisions taken are the *)
(* rounds every copy of the state has counted.                             *)
(***************************************************************************)

HashFits(a) ==
    LET hash == ack[a].body.inputs_hash
    IN  a \notin replaced =>
            /\ pc[a] = "resume" => hash \in {None, ckpt.values.assessment}
            /\ pc[a] = "run" /\ run[a].resume => hash \in {None, run[a].values.assessment}

DecisionsFit ==
    \A k \in DOMAIN decisions :
        decisions[k].replaced \/ decisions[k].hash \in {None, decisions[k].of}

SeenInv == (\A a \in Acks : HashFits(a)) /\ DecisionsFit

QuietInv ==
    /\ ~(AckInFlight /\ PlanInFlight)
    /\ \A r \in Requests :
          pc[r] = "run" => run[r].values.ack_rounds = ckpt.values.ack_rounds
    /\ Len(decisions) = ckpt.values.ack_rounds

QInv == LInv /\ (Serialised => SeenInv /\ (~overlapped => QuietInv))

\* Only the response of an operator counts as a round.
LEMMA RoundsKept ==
    ASSUME NEW s \in MissionState
    PROVE  /\ \A request : WithInput(s, request).ack_rounds = s.ack_rounds
           /\ ValidateInputs(s).ack_rounds = s.ack_rounds
           /\ \A reading : FetchWeather(s, reading).ack_rounds = s.ack_rounds
           /\ Calculate(s).ack_rounds = s.ack_rounds
           /\ ProceedAtLimit(s).ack_rounds = s.ack_rounds
           /\ GenerateReport(s).ack_rounds = s.ack_rounds
<1>1. GenerateReport(s).ack_rounds = s.ack_rounds
  BY DEF GenerateReport, MissionState, AsksModel
<1> QED
  BY <1>1 DEF WithInput, ValidateInputs, FetchWeather, Calculate, ProceedAtLimit, MissionState

LEMMA RoundsCounted ==
    ASSUME NEW s \in MissionState, NEW action \in Actions, NEW edits
    PROVE  TakeResponse(s, action, edits).ack_rounds = s.ack_rounds + 1
<1>1. CASE action = "confirm"
  BY <1>1 DEF TakeResponse, MissionState
<1>2. CASE action = "edit"
  BY <1>2 DEF TakeResponse, ApplyEdits, MissionState
<1>3. CASE action = "abort"
  BY <1>3 DEF TakeResponse, MissionState
<1> QED
  BY <1>1, <1>2, <1>3 DEF Actions

\* The whole effect of the end of a superstep.
LEMMA AdvanceEffect ==
    ASSUME TypeOK, NEW r \in Requests, NEW values, NEW next, NEW review,
           Advance(r, values, next, review)
    PROVE  /\ ckpt' = [values |-> values, next |-> next, review |-> review]
           /\ \A q \in Requests : q # r => pc'[q] = pc[q] /\ run'[q] = run[q]
           /\ next = "end" => /\ run'[r] = NoRun
                              /\ pc'[r] = IF r \in Plans THEN "done" ELSE "sign"
           /\ next # "end" => /\ run'[r] = [values |-> values, next |-> next,
                                            review |-> review, resume |-> FALSE]
                              /\ pc'[r] = pc[r]
           /\ ack' = ack /\ row' = row /\ failures' = failures
<1>1. CASE next = "end"
  BY <1>1 DEF Advance, Return, Goto, TypeOK
<1>2. CASE next # "end"
  BY <1>2 DEF Advance, TypeOK
<1> QED
  BY <1>1, <1>2 DEF Advance

LEMMA AdvanceOfRun ==
    ASSUME TypeOK, NEW r \in Requests, pc[r] = "run", NEW values, NEW next, NEW review,
           Advance(r, values, next, review)
    PROVE  /\ ckpt'.values = values /\ ckpt'.next = next
           /\ \A q \in Requests : q # r => pc'[q] = pc[q] /\ run'[q] = run[q]
           /\ pc'[r] = "run" => /\ run'[r].values = values /\ run'[r].next = next
                                /\ ~run'[r].resume
                                /\ next # "end"
           /\ pc'[r] # "run" => next = "end"
           /\ r \in Plans => pc'[r] \in {"run", "done"}
           /\ r \notin Plans => pc'[r] \in {"run", "sign"}
           /\ ack' = ack /\ row' = row /\ failures' = failures
<1>0. /\ ckpt'.values = values /\ ckpt'.next = next
      /\ \A q \in Requests : q # r => pc'[q] = pc[q] /\ run'[q] = run[q]
      /\ ack' = ack /\ row' = row /\ failures' = failures
  <2>1. ckpt' = [values |-> values, next |-> next, review |-> review]
    BY DEF Advance
  <2>2. \A q \in Requests : q # r => pc'[q] = pc[q] /\ run'[q] = run[q]
    BY AdvanceRuns
  <2>3. ack' = ack /\ row' = row /\ failures' = failures
    BY DEF Advance
  <2> QED
    BY <2>1, <2>2, <2>3
<1>1. CASE next = "end"
  <2>1. pc'[r] = IF r \in Plans THEN "done" ELSE "sign"
    BY <1>1, AdvanceEffect
  <2>2. pc'[r] # "run"
    BY <2>1
  <2>3. /\ r \in Plans => pc'[r] \in {"run", "done"}
        /\ r \notin Plans => pc'[r] \in {"run", "sign"}
    BY <2>1
  <2> QED
    BY <1>0, <1>1, <2>2, <2>3
<1>2. CASE next # "end"
  <2>1. pc'[r] = "run" /\ run'[r] = [values |-> values, next |-> next,
                                     review |-> review, resume |-> FALSE]
    BY <1>2, AdvanceEffect
  <2> QED
    BY <1>0, <1>2, <2>1
<1> QED
  BY <1>1, <1>2

\* Neither kind of request gets under way by a step that only moves r on.
LEMMA InFlightKept ==
    ASSUME NEW r \in Requests, pc[r] = "run",
           \A q \in Requests : q # r => pc'[q] = pc[q],
           ~(AckInFlight /\ PlanInFlight),
           r \in Plans => pc'[r] \in {"run", "done"},
           r \notin Plans => pc'[r] \in {"run", "sign"}
    PROVE  ~(AckInFlight /\ PlanInFlight)'
<1>1. PlanInFlight' => PlanInFlight
  BY ServiceAssumption DEF PlanInFlight, Requests
<1>2. AckInFlight' => AckInFlight
  BY ServiceAssumption DEF AckInFlight, Requests
<1> QED
  BY <1>1, <1>2

\* A checkpoint written between the check of an acknowledgement and its resume is
\* written by a plan, and the acknowledgement is marked.
LEMMA AdvanceSeen ==
    ASSUME Serialised, TypeOK, LockInv, NEW r \in Requests, pc[r] = "run",
           NEW values, NEW next, NEW review, Advance(r, values, next, review),
           \A a \in Acks : HashFits(a)
    PROVE  \A a \in Acks : HashFits(a)'
<1> SUFFICES ASSUME NEW a \in Acks, a \notin replaced' PROVE HashFits(a)'
  BY DEF HashFits
<1>1. /\ \A q \in Requests : q # r => pc'[q] = pc[q] /\ run'[q] = run[q]
      /\ pc'[r] = "run" => ~run'[r].resume
      /\ r \in Plans => pc'[r] \in {"run", "done"}
      /\ r \notin Plans => pc'[r] \in {"run", "sign"}
      /\ ack' = ack
  BY AdvanceOfRun
<1>2. replaced' = IF r \in Plans THEN replaced \cup Checked ELSE replaced
  BY DEF Advance
<1>3. pc'[a] # "resume"
  <2>1. CASE r \in Plans
    <3>1. a # r /\ pc[a] # "resume"
      BY <1>2, <2>1, ServiceAssumption DEF Checked
    <3> QED
      BY <1>1, <3>1, AcksAreRequests
  <2>2. CASE r \in Acks
    <3>1. pc[a] = "resume" => a = r
      BY <2>2, MutualExclusion DEF Critical
    <3> QED
      BY <1>1, <3>1, AcksAreRequests
  <2> QED
    BY <2>1, <2>2 DEF Requests
<1>4. a \notin replaced
  BY <1>2
<1> QED
  BY <1>1, <1>3, <1>4, AcksAreRequests DEF HashFits

LEMMA SuperstepSeen ==
    ASSUME Serialised, TypeOK, LockInv, SeenInv, NEW r \in Requests, Superstep(r)
    PROVE  SeenInv'
<1>1. CASE HumanAckInterrupt(r)
  <2>1. /\ \A q \in Requests : q # r => pc'[q] = pc[q] /\ run'[q] = run[q]
        /\ pc'[r] = IF r \in Plans THEN "done" ELSE "sign"
        /\ UNCHANGED <<ckpt, ack, decisions, replaced>>
    BY <1>1 DEF HumanAckInterrupt, Return, Goto, TypeOK
  <2> QED
    BY <2>1, AcksAreRequests DEF SeenInv, HashFits, DecisionsFit
<1>2. CASE ~HumanAckInterrupt(r)
  <2>1. /\ pc[r] = "run" /\ decisions' = decisions
        /\ \E values, next, review : Advance(r, values, next, review)
    BY <1>2 DEF Superstep, ValidateNode, WeatherNode, CalculationsNode, CiteLimitsNode,
                HumanAckAtLimit, ReportNode, At
  <2> QED
    BY <2>1, AdvanceSeen DEF SeenInv, DecisionsFit
<1> QED
  BY <1>1, <1>2

LEMMA HumanAckResponseSeen ==
    ASSUME Serialised, TypeOK, LockInv, SeenInv, NEW a \in Acks, HumanAckResponse(a)
    PROVE  SeenInv'
<1> DEFINE body == ack[a].body
           s == TakeResponse(run[a].values, body.action, body.edits)
           d == [review |-> run[a].review, action |-> body.action, edits |-> body.edits,
                 of |-> run[a].values.assessment, hash |-> body.inputs_hash,
                 replaced |-> a \in replaced]
<1>1. /\ pc[a] = "run" /\ run[a].resume
      /\ Advance(a, s, RouteAfterAck(s), 0)
      /\ decisions' = Append(decisions, d)
  BY DEF HumanAckResponse, At
<1>2. d.replaced \/ d.hash \in {None, d.of}
  BY <1>1 DEF SeenInv, HashFits
<1>3. decisions \in Seq(Decisions)
  BY DEF TypeOK
<1> HIDE DEF d, s
<1>4. DecisionsFit'
  BY <1>1, <1>2, <1>3 DEF SeenInv, DecisionsFit
<1> QED
  BY <1>1, <1>4, AdvanceSeen, AcksAreRequests DEF SeenInv

LEMMA SeenStep ==
    ASSUME Serialised, TypeOK, LockInv, SeenInv, [Next]_vars
    PROVE  SeenInv'
<1> USE AcksAreRequests
<1>1. CASE UNCHANGED vars \/ GetThread
  <2>1. UNCHANGED <<ckpt, pc, run, ack, decisions, replaced>>
    BY <1>1 DEF vars, history, GetThread
  <2> QED
    BY <2>1 DEF SeenInv, HashFits, DecisionsFit
\* Requests that neither wait to resume nor run after the step.
<1>2. ASSUME NEW r \in Requests, NEW label,
             Goto(r, label), label \notin {"resume", "run"}, UNCHANGED <<ckpt, decisions>>,
             \A q \in Requests : q # r => run'[q] = run[q],
             \A b \in Acks : b # r => /\ ack'[b].body = ack[b].body
                                      /\ b \in replaced' <=> b \in replaced
      PROVE  SeenInv'
  <2>1. /\ \A q \in Requests : q # r => pc'[q] = pc[q]
        /\ pc'[r] = label
    BY <1>2 DEF Goto, TypeOK
  <2> QED
    BY <1>2, <2>1 DEF SeenInv, HashFits, DecisionsFit
<1>3. ASSUME NEW p \in Plans, PlanRecord(p) \/ PlanStep(p) PROVE SeenInv'
  <2>1. CASE PlanRecord(p) \/ PlanInsert(p)
    BY <1>2, <2>1 DEF PlanRecord, PlanInsert, history
  <2>2. CASE PlanInvoke(p)
    <3>1. /\ replaced' = replaced \cup Checked /\ UNCHANGED <<ack, decisions>>
          /\ \A q \in Requests : q # p => pc'[q] = pc[q] /\ run'[q] = run[q]
      BY <2>2 DEF PlanInvoke, Goto, TypeOK
    <3>2. p \notin Acks
      BY ServiceAssumption
    <3>3. \A b \in Acks : b \notin replaced' => b \notin replaced /\ pc'[b] # "resume"
      BY <3>1, <3>2 DEF Checked
    <3>4. \A b \in Acks : pc'[b] = pc[b] /\ run'[b] = run[b]
      BY <3>1, <3>2
    <3> QED
      BY <3>1, <3>3, <3>4 DEF SeenInv, HashFits, DecisionsFit
  <2> QED
    BY <1>3, <2>1, <2>2, SuperstepSeen DEF PlanStep
<1>4. ASSUME NEW a \in Acks, AckArrive(a) \/ AckTurnedAway(a) \/ AckStep(a) PROVE SeenInv'
  <2>1. CASE AckArrive(a) \/ AckTurnedAway(a) \/ AckEnterMutex(a)
    BY <1>2, <2>1 DEF AckArrive, AckTurnedAway, AckEnterMutex, history
  <2>2. CASE AckLockRow(a) \/ AckRefuse(a)
    <3>1. \A b \in Acks : b # a => ack'[b] = ack[b]
      BY <2>2 DEF AckLockRow, AckRefuse, TypeOK
    <3> QED
      BY <1>2, <2>2, <3>1 DEF AckLockRow, AckRefuse, history
  <2>3. CASE AckCheck(a)
    <3>1. PICK body \in OperatorBodies :
              /\ Acceptable(body)
              /\ ack' = [ack EXCEPT ![a] = [@ EXCEPT !.body = body, !.read = ckpt.values.assessment]]
      BY <2>3 DEF AckCheck
    <3>2. /\ ack'[a].body = body /\ body.inputs_hash \in {None, ckpt.values.assessment}
          /\ \A b \in Acks : b # a => ack'[b] = ack[b]
      BY <3>1 DEF Acceptable, TypeOK, Acknowledgements
    <3>3. /\ UNCHANGED <<ckpt, run, decisions, replaced>>
          /\ pc'[a] = "resume" /\ \A q \in Requests : q # a => pc'[q] = pc[q]
      BY <2>3 DEF AckCheck, Goto, TypeOK
    <3> QED
      BY <3>2, <3>3 DEF SeenInv, HashFits, DecisionsFit
  <2>4. CASE AckResume(a)
    <3>1. CASE Pending(ckpt)
      <4>1. /\ pc'[a] = "run" /\ run'[a].values = ckpt.values
            /\ \A q \in Requests : q # a => pc'[q] = pc[q] /\ run'[q] = run[q]
            /\ UNCHANGED <<ckpt, ack, decisions, replaced>>
        BY <2>4, <3>1 DEF AckResume, Goto, TypeOK, history
      <4>2. pc[a] = "resume"
        BY <2>4 DEF AckResume
      <4> QED
        BY <4>1, <4>2 DEF SeenInv, HashFits, DecisionsFit
    <3>2. CASE ~Pending(ckpt)
      BY <1>2, <2>4, <3>2 DEF AckResume, history
    <3> QED
      BY <3>1, <3>2
  <2>5. CASE AckSign(a)
    <3>1. \A b \in Acks : b # a => ack'[b] = ack[b] /\ (b \in replaced' <=> b \in replaced)
      BY <2>5 DEF AckSign, TypeOK
    <3> QED
      BY <1>2, <2>5, <3>1 DEF AckSign
  <2>6. CASE HumanAckResponse(a)
    BY <2>6, HumanAckResponseSeen
  <2> QED
    BY <1>4, <2>1, <2>2, <2>3, <2>4, <2>5, <2>6, SuperstepSeen DEF AckStep
<1>5. ASSUME NEW r \in Requests, Fail(r) PROVE SeenInv'
  <2>1. /\ \A q \in Requests : q # r => run'[q] = run[q]
        /\ \A b \in Acks : b # r => ack'[b] = ack[b] /\ (b \in replaced' <=> b \in replaced)
    BY <1>5 DEF Fail, TypeOK
  <2> QED
    BY <1>2, <1>5, <2>1 DEF Fail
<1> QED
  BY <1>1, <1>3, <1>4, <1>5 DEF Next, Terminated

LEMMA AdvanceQuiet ==
    ASSUME TypeOK, QuietInv, NEW r \in Requests, pc[r] = "run",
           NEW values, NEW next, NEW review, Advance(r, values, next, review),
           values.ack_rounds = run[r].values.ack_rounds, UNCHANGED decisions
    PROVE  QuietInv'
<1>1. /\ ckpt'.values = values
      /\ \A q \in Requests : q # r => pc'[q] = pc[q] /\ run'[q] = run[q]
      /\ pc'[r] = "run" => run'[r].values = values /\ ~run'[r].resume
      /\ r \in Plans => pc'[r] \in {"run", "done"}
      /\ r \notin Plans => pc'[r] \in {"run", "sign"}
      /\ ack' = ack
  BY AdvanceOfRun
<1>2. ~(AckInFlight /\ PlanInFlight)'
  BY <1>1, InFlightKept DEF QuietInv
<1>3. \A q \in Requests : pc'[q] = "run" => run'[q].values.ack_rounds = ckpt'.values.ack_rounds
  BY <1>1 DEF QuietInv
<1>4. Len(decisions') = ckpt'.values.ack_rounds
  BY <1>1 DEF QuietInv
<1> QED
  BY <1>2, <1>3, <1>4 DEF QuietInv

LEMMA SuperstepQuiet ==
    ASSUME TypeOK, QuietInv, NEW r \in Requests, Superstep(r)
    PROVE  QuietInv'
<1>0. run[r].values \in MissionState
  BY RunType
<1>1. CASE ValidateNode(r)
  BY <1>0, <1>1, AdvanceQuiet, RoundsKept DEF ValidateNode, At
<1>2. CASE WeatherNode(r)
  BY <1>0, <1>2, AdvanceQuiet, RoundsKept DEF WeatherNode, At
<1>3. CASE CalculationsNode(r)
  BY <1>0, <1>3, AdvanceQuiet, RoundsKept DEF CalculationsNode, At
<1>4. CASE CiteLimitsNode(r)
  BY <1>4, AdvanceQuiet DEF CiteLimitsNode, CiteLimits, At
<1>5. CASE HumanAckAtLimit(r)
  BY <1>0, <1>5, AdvanceQuiet, RoundsKept DEF HumanAckAtLimit, At
<1>6. CASE HumanAckInterrupt(r)
  <2>1. /\ pc[r] = "run" /\ UNCHANGED <<ckpt, ack, decisions>>
        /\ pc' = [pc EXCEPT ![r] = IF r \in Plans THEN "done" ELSE "sign"]
        /\ run' = [run EXCEPT ![r] = NoRun]
    BY <1>6 DEF HumanAckInterrupt, Return, Goto, At
  <2>2. /\ \A q \in Requests : q # r => pc'[q] = pc[q] /\ run'[q] = run[q]
        /\ pc'[r] = IF r \in Plans THEN "done" ELSE "sign"
    BY <2>1 DEF TypeOK
  <2>3. ~(AckInFlight /\ PlanInFlight)'
    BY <2>1, <2>2, InFlightKept DEF QuietInv
  <2> QED
    BY <2>1, <2>2, <2>3 DEF QuietInv
<1>7. CASE ReportNode(r)
  BY <1>0, <1>7, AdvanceQuiet, RoundsKept DEF ReportNode, At
<1> QED
  BY <1>1, <1>2, <1>3, <1>4, <1>5, <1>6, <1>7 DEF Superstep

LEMMA HumanAckResponseQuiet ==
    ASSUME Serialised, TypeOK, LockInv, QuietInv, NEW a \in Acks, HumanAckResponse(a)
    PROVE  QuietInv'
<1> USE AcksAreRequests
<1> DEFINE body == ack[a].body
           s == TakeResponse(run[a].values, body.action, body.edits)
           d == [review |-> run[a].review, action |-> body.action, edits |-> body.edits,
                 of |-> run[a].values.assessment, hash |-> body.inputs_hash,
                 replaced |-> a \in replaced]
<1>1. /\ pc[a] = "run" /\ run[a].resume
      /\ Advance(a, s, RouteAfterAck(s), 0)
      /\ decisions' = Append(decisions, d)
  BY DEF HumanAckResponse, At
<1>2. s.ack_rounds = ckpt.values.ack_rounds + 1
  <2>1. body.action \in Actions /\ run[a].values \in MissionState
    BY RunType DEF TypeOK, Acknowledgements, Bodies
  <2> QED
    BY <1>1, <2>1, RoundsCounted DEF QuietInv
<1>3. decisions \in Seq(Decisions)
  BY DEF TypeOK
<1> HIDE DEF d, s
<1>5. Len(decisions') = Len(decisions) + 1
  BY <1>1, <1>3
<1>6. /\ ckpt'.values = s
      /\ \A q \in Requests : q # a => pc'[q] = pc[q] /\ run'[q] = run[q]
      /\ pc'[a] = "run" => run'[a].values = s /\ ~run'[a].resume
      /\ pc'[a] \in {"run", "sign"}
      /\ ack' = ack
  BY <1>1, AdvanceOfRun, ServiceAssumption
<1>7. ~(AckInFlight /\ PlanInFlight)'
  BY <1>1, <1>6, InFlightKept, ServiceAssumption DEF QuietInv
<1>8. \A q \in Requests : q # a => pc[q] # "run"
  <2>1. AckInFlight
    BY <1>1 DEF AckInFlight
  <2>2. \A q \in Acks : pc[q] = "run" => q = a
    BY <1>1, MutualExclusion DEF Critical
  <2> QED
    BY <2>1, <2>2 DEF QuietInv, PlanInFlight, Requests
<1> QED
  BY <1>2, <1>5, <1>6, <1>7, <1>8 DEF QuietInv

LEMMA QuietStep ==
    ASSUME Serialised, TypeOK, LockInv, ~overlapped => QuietInv, [Next]_vars, ~overlapped'
    PROVE  QuietInv'
<1> USE AcksAreRequests
<1>1. CASE UNCHANGED vars \/ GetThread
  <2>1. UNCHANGED <<ckpt, pc, run, ack, decisions, overlapped>>
    BY <1>1 DEF vars, history, GetThread
  <2> QED
    BY <2>1 DEF QuietInv, AckInFlight, PlanInFlight
\* Requests that are not under way before or after the step.
<1>2. ASSUME NEW r \in Requests, NEW label,
             Goto(r, label), label \notin {"resume", "run"}, UNCHANGED <<ckpt, decisions>>,
             label = "sign" => r \in Acks /\ pc[r] = "resume",
             \A q \in Requests : q # r => run'[q] = run[q],
             ~overlapped
      PROVE  QuietInv'
  <2>1. /\ \A q \in Requests : q # r => pc'[q] = pc[q]
        /\ pc'[r] = label
    BY <1>2 DEF Goto, TypeOK
  <2>2. PlanInFlight' => PlanInFlight
    BY <1>2, <2>1 DEF PlanInFlight
  <2>3. AckInFlight' => AckInFlight
    BY <1>2, <2>1 DEF AckInFlight
  <2>4. \A q \in Requests : pc'[q] = "run" => q # r /\ pc[q] = "run"
    BY <1>2, <2>1
  <2> QED
    BY <1>2, <2>2, <2>3, <2>4 DEF QuietInv
<1>3. ASSUME NEW r \in Requests, Superstep(r) PROVE QuietInv'
  <2>1. ~overlapped
    BY <1>3 DEF Superstep, ValidateNode, WeatherNode, CalculationsNode, CiteLimitsNode,
                HumanAckAtLimit, HumanAckInterrupt, ReportNode, history
  <2> QED
    BY <1>3, <2>1, SuperstepQuiet
<1>4. ASSUME NEW p \in Plans, PlanRecord(p) \/ PlanStep(p) PROVE QuietInv'
  <2>1. CASE PlanRecord(p) \/ PlanInsert(p)
    BY <1>2, <2>1 DEF PlanRecord, PlanInsert, history
  <2>2. CASE PlanInvoke(p)
    <3>1. ~overlapped /\ ~AckInFlight /\ UNCHANGED decisions
      BY <2>2 DEF PlanInvoke
    <3>2. PICK request \in PlanRequests :
              /\ run' = [run EXCEPT ![p] = [values |-> WithInput(ckpt.values, request),
                                            next |-> "validate", review |-> 0, resume |-> FALSE]]
              /\ ckpt' = [values |-> WithInput(ckpt.values, request), next |-> "validate", review |-> 0]
      BY <2>2 DEF PlanInvoke
    <3>3. /\ \A q \in Requests : q # p => pc'[q] = pc[q] /\ run'[q] = run[q]
          /\ pc'[p] = "run" /\ run'[p].values = ckpt'.values
      BY <2>2, <3>2 DEF PlanInvoke, Goto, TypeOK
    <3>4. ckpt'.values.ack_rounds = ckpt.values.ack_rounds
      BY <3>2, RoundsKept, CkptType
    <3>5. \A a \in Acks : pc'[a] \notin {"resume", "run", "sign"}
      BY <3>1, <3>3, ServiceAssumption DEF AckInFlight
    <3>6. \A q \in Requests : pc'[q] = "run" => run'[q].values.ack_rounds = ckpt'.values.ack_rounds
      BY <3>1, <3>3, <3>4 DEF QuietInv
    <3> QED
      BY <3>1, <3>2, <3>4, <3>5, <3>6 DEF QuietInv, AckInFlight
  <2> QED
    BY <1>3, <1>4, <2>1, <2>2 DEF PlanStep
<1>5. ASSUME NEW a \in Acks, AckArrive(a) \/ AckTurnedAway(a) \/ AckStep(a) PROVE QuietInv'
  <2>1. CASE \/ AckArrive(a) \/ AckTurnedAway(a) \/ AckEnterMutex(a)
            \/ AckLockRow(a) \/ AckRefuse(a)
    BY <1>2, <2>1
       DEF AckArrive, AckTurnedAway, AckEnterMutex, AckLockRow, AckRefuse, history
  <2>2. CASE AckCheck(a)
    <3>1. /\ ~overlapped /\ ~PlanInFlight /\ UNCHANGED <<ckpt, run, decisions>>
          /\ pc'[a] = "resume" /\ \A q \in Requests : q # a => pc'[q] = pc[q]
      BY <2>2 DEF AckCheck, Goto, TypeOK
    <3>2. ~PlanInFlight'
      BY <3>1 DEF PlanInFlight
    <3>3. \A q \in Requests : pc'[q] = "run" => pc[q] = "run"
      BY <3>1
    <3> QED
      BY <3>1, <3>2, <3>3 DEF QuietInv
  <2>3. CASE AckResume(a)
    <3>1. CASE Pending(ckpt)
      <4>1. /\ pc'[a] = "run" /\ run'[a].values = ckpt.values
            /\ \A q \in Requests : q # a => pc'[q] = pc[q] /\ run'[q] = run[q]
            /\ UNCHANGED <<ckpt, decisions, overlapped>>
        BY <2>3, <3>1 DEF AckResume, Goto, TypeOK, history
      <4>2. pc[a] = "resume" /\ AckInFlight
        BY <2>3 DEF AckResume, AckInFlight
      <4>3. ~PlanInFlight'
        BY <4>1, <4>2, ServiceAssumption DEF QuietInv, PlanInFlight
      <4> QED
        BY <4>1, <4>3 DEF QuietInv
    <3>2. CASE ~Pending(ckpt)
      BY <1>2, <2>3, <3>2 DEF AckResume, history
    <3> QED
      BY <3>1, <3>2
  <2>4. CASE AckSign(a)
    BY <1>2, <2>4 DEF AckSign
  <2>5. CASE HumanAckResponse(a)
    <3>1. ~overlapped
      BY <2>5 DEF HumanAckResponse
    <3> QED
      BY <2>5, <3>1, HumanAckResponseQuiet
  <2> QED
    BY <1>3, <1>5, <2>1, <2>2, <2>3, <2>4, <2>5 DEF AckStep
<1>6. ASSUME NEW r \in Requests, Fail(r) PROVE QuietInv'
  <2>1. \A q \in Requests : q # r => run'[q] = run[q]
    BY <1>6 DEF Fail, TypeOK
  <2> QED
    BY <1>2, <1>6, <2>1 DEF Fail
<1> QED
  BY <1>1, <1>4, <1>5, <1>6 DEF Next, Terminated

LEMMA InitQInv == Init => QInv
<1> SUFFICES ASSUME Init PROVE SeenInv /\ QuietInv
  BY InitLInv DEF QInv
<1> QED
  BY AcksAreRequests
     DEF Init, SeenInv, QuietInv, AckInFlight, PlanInFlight, HashFits, DecisionsFit,
         NoCheckpoint, NoValues

LEMMA StepQInv == QInv /\ [Next]_vars => QInv'
BY StepLInv, SeenStep, QuietStep DEF QInv, LInv, Serialised, OneWorker

\* What an operator's response is applied to is what the hash it came with named,
\* whatever plans, acknowledgements and deaths there were before, in between and at
\* the same time, unless a plan wrote a checkpoint between the check under the locks
\* and the resume. (Acknowledgements that share no lock are not spoken of.)
THEOREM AppliedToWhatWasSeen == Spec => []NeverAppliedToChangedNumbers
<1>1. Spec => []QInv
  BY InitQInv, StepQInv, PTL DEF Spec
<1>2. QInv => NeverAppliedToChangedNumbers
  BY DEF QInv, SeenInv, DecisionsFit, NeverAppliedToChangedNumbers
<1> QED
  BY <1>1, <1>2, PTL

\* No number of acknowledgements, workers, failures or plans gets an operator more
\* reviews than the round limit, which a new plan on the thread does not reset, as
\* long as acknowledgements share a lock and no plan is under way next to one.
THEOREM RoundsStayBounded == Spec => []ReviewRoundsAreBounded
<1>1. Spec => []QInv
  BY InitQInv, StepQInv, PTL DEF Spec
<1>2. QInv => ReviewRoundsAreBounded
  <2>1. TypeOK => ckpt.values.ack_rounds <= MaxAckRounds
    BY ConstantsAssumption DEF TypeOK, Checkpoints, MissionState
  <2> QED
    BY <2>1 DEF QInv, LInv, QuietInv, ReviewRoundsAreBounded
<1> QED
  BY <1>1, <1>2, PTL

(***************************************************************************)
(* The signature in the row and the brief in the checkpoint, with a key    *)
(* needed, when one plan was made, none ran next to an acknowledgement and *)
(* no run died that had not come to a review. Then one request at a time   *)
(* drives the thread; the signature is absent until the thread has ended,  *)
(* and the acknowledgement that records it has read the assessment its own *)
(* run described. A run that dies leaves the thread in front of human_ack  *)
(* or of report; what is said of failures = 0 is said until the first one. *)
(***************************************************************************)

OnePlan == \A p, q \in Plans : pc[p] # "idle" /\ pc[q] # "idle" => p = q
Calm == AuthOn /\ OnePlan /\ ~overlapped /\ ~cutShort

Driving(r) == pc[r] = "run" \/ (r \in Acks /\ pc[r] \in {"resume", "sign"})
Confirming(a) == ack[a].body.action = "confirm"

\* A plan that has not invoked the graph.
NotInvoked == {"idle", "insert", "invoke"}

\* What the nodes leave of the state v of a thread that goes on at next.
WellFormed(v, next) ==
    /\ next \notin {"report", "end"} => v.report = NoReport
    /\ next = "report" => v.report \in {NoReport, Text("invalid_aircraft")}
    /\ next \in {"weather", "calculations"} => v.aircraft # None
    /\ next \in {"cite_limits", "human_ack"} \/ (next = "report" /\ v.report = NoReport) =>
           v.aircraft # None /\ v.calculations = v.assessment

\* What an acknowledgement has checked, and resumes.
Resumable(a, v, next) ==
    /\ next \in {"human_ack", "report"}
    /\ ack[a].read = v.assessment
    /\ failures = 0 => next = "human_ack"

\* What a request in its run has in front of it; let_pass are the waived assessments.
Driven(r, v, next, resume, let_pass) ==
    /\ r \in Acks =>
           /\ next \notin {"validate", "weather"}
           /\ resume => Resumable(r, v, next)
           /\ ~resume /\ Confirming(r) => next = "report"
           /\ next = "report" => v.report = NoReport /\ (Confirming(r) => ack[r].read = v.assessment)
    /\ failures = 0 /\ next = "report" /\ v.report = NoReport =>
           v.assessment \in let_pass \/ (r \in Acks /\ Confirming(r))

\* The report that the run of r ended with.
Ended(r, v, let_pass) ==
    IF r \in Acks /\ Confirming(r)
    THEN /\ ack[r].read # None => v.report = [by |-> "model", of |-> ack[r].read]
         /\ v.report.by = "model" => v.report.of = ack[r].read
    ELSE failures = 0 /\ v.report.by = "model" => v.report.of \in let_pass

Agree ==
    row # None =>
        LET signed == row.ack_inputs_hash
            report == ckpt.values.report
        IN  /\ signed # None => report = [by |-> "model", of |-> signed]
            /\ failures = 0 /\ report.by = "model" /\ report.of \notin waived => signed = report.of

\* Where a thread waits that nobody drives.
AtRest(v, next) ==
    /\ next \in {"human_ack", "report", "end"}
    /\ next = "report" => v.report = NoReport
    /\ failures = 0 => next # "report"

CalmInv ==
    /\ \A q, r \in Requests : Driving(q) /\ Driving(r) => q = r
    /\ (\A p \in Plans : pc[p] \in NotInvoked) => ckpt = NoCheckpoint
    /\ \A r \in Requests : pc[r] = "run" =>
           run[r].values = ckpt.values /\ run[r].next = ckpt.next /\ ckpt.next # "end"
    /\ (\A r \in Requests : pc[r] # "run") => AtRest(ckpt.values, ckpt.next)
    /\ WellFormed(ckpt.values, ckpt.next)
    /\ row # None /\ ckpt.next # "end" => row.ack_inputs_hash = None
    /\ \A a \in Acks : pc[a] = "resume" => Resumable(a, ckpt.values, ckpt.next)
    /\ \A r \in Requests : pc[r] = "run" =>
           Driven(r, ckpt.values, ckpt.next, run[r].resume, waived)
    /\ \A a \in Acks : pc[a] = "sign" /\ Confirming(a) =>
           /\ ckpt.next = "end"
           /\ row # None => row.ack_inputs_hash = None
           /\ Ended(a, ckpt.values, waived)
    /\ (\A a \in Acks : pc[a] = "sign" => ~Confirming(a)) => Agree

PlannedFinite == IsFiniteSet({p \in Plans : pc[p] # "idle"})

SInv == LInv /\ PlannedFinite /\ (cutShort => failures # 0) /\ (Calm => CalmInv)

\* Before the thread has ended no report is a model's, and nothing is signed.
LEMMA AgreeBeforeEnd ==
    ASSUME WellFormed(ckpt.values, ckpt.next), ckpt.next # "end",
           row # None => row.ack_inputs_hash = None
    PROVE  Agree
BY DEF WellFormed, Agree, NoReport, Text

\* One plan is one element at most of a finite set.
LEMMA PlannedOnceIsOnePlan ==
    ASSUME PlannedFinite, PlannedOnce
    PROVE  OnePlan
<1> DEFINE planned == {p \in Plans : pc[p] # "idle"}
<1> SUFFICES ASSUME NEW p \in planned, NEW q \in planned, p # q PROVE FALSE
  BY DEF OnePlan
<1> HIDE DEF planned
<1>1. IsFiniteSet(planned) /\ Cardinality(planned) <= 1 /\ Cardinality(planned) \in Nat
  BY FS_CardinalityType DEF PlannedFinite, PlannedOnce, planned
<1>2. IsFiniteSet(planned \ {p}) /\ Cardinality(planned \ {p}) = Cardinality(planned) - 1
  BY <1>1, FS_RemoveElement
<1>3. Cardinality(planned \ {p}) = 0
  BY <1>1, <1>2, FS_CardinalityType
<1>4. planned \ {p} = {}
  BY <1>2, <1>3, FS_EmptySet
<1> QED
  BY <1>4

\* The end of a superstep of the only request under way.
LEMMA AdvanceCalm ==
    ASSUME TypeOK, CalmInv, NEW r \in Requests, pc[r] = "run",
           NEW values, NEW next, NEW review, Advance(r, values, next, review),
           waived \subseteq waived',
           WellFormed(values, next),
           next # "end" => Driven(r, values, next, FALSE, waived'),
           next = "end" => Ended(r, values, waived')
    PROVE  CalmInv'
<1>1. /\ ckpt'.values = values /\ ckpt'.next = next
      /\ \A q \in Requests : q # r => pc'[q] = pc[q] /\ run'[q] = run[q]
      /\ pc'[r] = "run" => /\ run'[r].values = values /\ run'[r].next = next
                           /\ ~run'[r].resume
                           /\ next # "end"
      /\ pc'[r] # "run" => next = "end"
      /\ r \in Plans => pc'[r] \in {"run", "done"}
      /\ r \notin Plans => pc'[r] \in {"run", "sign"}
      /\ ack' = ack /\ row' = row /\ failures' = failures
  BY AdvanceOfRun
<1>2. \A q \in Requests : Driving(q) => q = r
  BY DEF CalmInv, Driving
<1>3. \A q \in Requests : Driving(q)' => q = r
  BY <1>1, <1>2 DEF Driving
<1>4. \A q \in Requests : pc'[q] = "run" => q = r
  BY <1>3 DEF Driving
<1>5. row # None => row.ack_inputs_hash = None
  BY DEF CalmInv
<1>6. ~ \A p \in Plans : pc'[p] \in NotInvoked
  <2>1. ckpt.next # "end"
    BY DEF CalmInv
  <2>2. PICK p \in Plans : pc[p] \notin NotInvoked
    BY <2>1 DEF CalmInv, NoCheckpoint
  <2>3. p = r => pc'[p] \in {"run", "done"}
    BY <1>1, <2>2
  <2> QED
    BY <1>1, <2>2, <2>3, AcksAreRequests DEF NotInvoked
<1>7. \A a \in Acks : pc'[a] # "resume" /\ (pc'[a] = "sign" => a = r /\ next = "end")
  BY <1>1, <1>3, ServiceAssumption, AcksAreRequests DEF Driving
<1>8. \A a \in Acks : Confirming(a)' <=> Confirming(a)
  BY <1>1 DEF Confirming
<1>9. next = "end" /\ ~(r \in Acks /\ Confirming(r)) => Agree'
  BY <1>1, <1>5 DEF Agree, Ended
<1>10. next # "end" => Agree'
  BY <1>1, <1>5 DEF Agree, WellFormed, NoReport, Text
<1>11. (\A a \in Acks : pc'[a] = "sign" => ~Confirming(a)') => Agree'
  <2>1. next = "end" /\ r \in Acks => pc'[r] = "sign"
    BY <1>1, ServiceAssumption
  <2> QED
    BY <1>8, <1>9, <1>10, <2>1
<1>12. \A q \in Requests : pc'[q] = "run" => Driven(q, ckpt.values, ckpt.next, run[q].resume, waived)'
  BY <1>1, <1>4 DEF Driven, Resumable, Confirming
<1>13. \A a \in Acks : pc'[a] = "sign" /\ Confirming(a)' => Ended(a, ckpt.values, waived)'
  BY <1>1, <1>7, <1>8 DEF Ended, Confirming
<1>14. WellFormed(ckpt.values, ckpt.next)'
  BY <1>1 DEF WellFormed
<1>15. \A q \in Requests : pc'[q] = "run" =>
           run'[q].values = ckpt'.values /\ run'[q].next = ckpt'.next /\ ckpt'.next # "end"
  BY <1>1, <1>4
<1>16. (\A q \in Requests : pc'[q] # "run") => AtRest(ckpt.values, ckpt.next)'
  BY <1>1 DEF AtRest
<1> QED
  BY <1>1, <1>3, <1>5, <1>6, <1>7, <1>11, <1>12, <1>13, <1>14, <1>15, <1>16 DEF CalmInv

\* Away from review and report, an acknowledgement's run is that of an edit.
LEMMA DrivenOnward ==
    ASSUME NEW r \in Requests, NEW v, NEW next, NEW resume \in BOOLEAN, NEW let_pass,
           Driven(r, v, next, resume, let_pass), next \notin {"human_ack", "report"},
           NEW w, NEW onward, NEW let_pass_next,
           onward = "report" => r \notin Acks /\ w.report # NoReport,
           onward \in {"validate", "weather"} => r \notin Acks
    PROVE  Driven(r, w, onward, FALSE, let_pass_next)
<1>1. r \in Acks => ~Confirming(r)
  BY DEF Driven, Resumable
<1> QED
  BY <1>1 DEF Driven

LEMMA TextIsNoBrief ==
    /\ Text("invalid_aircraft") # NoReport
    /\ Text("invalid_aircraft").by # "model"
    /\ Text("operator_abort").by # "model"
    /\ NoReport.by # "model"
BY DEF Text, NoReport

LEMMA KnownAircraftIsSome == None \notin KnownAircraft
BY ConstantsAssumption

LEMMA ValidateInputsForm ==
    ASSUME NEW v \in MissionState, WellFormed(v, "validate")
    PROVE  LET t == ValidateInputs(v)
           IN  /\ WellFormed(t, RouteAfterValidation(t))
               /\ RouteAfterValidation(t) \in {"weather", "report"}
               /\ RouteAfterValidation(t) = "report" => t.report # NoReport
<1> DEFINE t == ValidateInputs(v)
<1>1. CASE v.aircraft_id \notin KnownAircraft
  <2>1. ~t.is_viable /\ t.report = Text("invalid_aircraft")
    BY <1>1 DEF ValidateInputs, MissionState
  <2> HIDE DEF t
  <2> QED
    BY <2>1, TextIsNoBrief DEF WellFormed, RouteAfterValidation, t
<1>2. CASE v.aircraft_id \in KnownAircraft
  <2>1. t.is_viable /\ t.report = v.report /\ t.aircraft = v.aircraft_id
    BY <1>2 DEF ValidateInputs, MissionState
  <2>2. t.report = NoReport /\ t.aircraft # None
    BY <1>2, <2>1, KnownAircraftIsSome DEF WellFormed
  <2> HIDE DEF t
  <2> QED
    BY <2>1, <2>2 DEF WellFormed, RouteAfterValidation, t
<1> QED
  BY <1>1, <1>2

LEMMA FetchWeatherForm ==
    ASSUME NEW v \in MissionState, WellFormed(v, "weather"), NEW reading
    PROVE  WellFormed(FetchWeather(v, reading), "calculations")
BY DEF FetchWeather, MissionState, WellFormed

LEMMA CalculateForm ==
    ASSUME NEW v \in MissionState, WellFormed(v, "calculations")
    PROVE  WellFormed(Calculate(v), "cite_limits")
<1> DEFINE t == Calculate(v)
<1>1. /\ t.report = v.report
      /\ t.aircraft = v.aircraft
      /\ t.calculations = t.assessment
  BY DEF Calculate, MissionState
<1> HIDE DEF t
<1> QED
  BY <1>1 DEF WellFormed, t

LEMMA ProceedAtLimitForm ==
    ASSUME NEW v \in MissionState, WellFormed(v, "human_ack")
    PROVE  LET t == ProceedAtLimit(v)
           IN  /\ WellFormed(t, "report")
               /\ t.assessment = v.assessment
               /\ RouteAfterAck(t) = "report"
BY DEF ProceedAtLimit, MissionState, WellFormed, RouteAfterAck

LEMMA TakeResponseForm ==
    ASSUME NEW v \in MissionState, WellFormed(v, "human_ack"),
           NEW action \in Actions, NEW edits
    PROVE  LET t == TakeResponse(v, action, edits)
           IN  /\ WellFormed(t, RouteAfterAck(t))
               /\ t.assessment = v.assessment
               /\ action = "confirm" => RouteAfterAck(t) = "report" /\ t.report = NoReport
               /\ action = "edit" => RouteAfterAck(t) = "calculations"
               /\ action = "abort" => RouteAfterAck(t) = "end" /\ t.report = Text("operator_abort")
<1> DEFINE t == TakeResponse(v, action, edits)
<1>0. v.report = NoReport /\ v.aircraft # None /\ v.calculations = v.assessment
  BY DEF WellFormed
<1>1. CASE action = "confirm"
  <2>1. /\ t.report = v.report /\ t.aircraft = v.aircraft /\ t.calculations = v.calculations
        /\ t.assessment = v.assessment /\ t.ack_action = "confirm"
    BY <1>1 DEF TakeResponse, MissionState
  <2> HIDE DEF t
  <2> QED
    BY <1>0, <1>1, <2>1 DEF WellFormed, RouteAfterAck, t
<1>2. CASE action = "edit"
  <2>1. /\ t.report = v.report /\ t.aircraft = v.aircraft
        /\ t.assessment = v.assessment /\ t.ack_action = "edit"
    BY <1>2 DEF TakeResponse, ApplyEdits, MissionState
  <2> HIDE DEF t
  <2> QED
    BY <1>0, <1>2, <2>1 DEF WellFormed, RouteAfterAck, t
<1>3. CASE action = "abort"
  <2>1. /\ t.report = Text("operator_abort")
        /\ t.assessment = v.assessment /\ t.ack_action = "abort"
    BY <1>3 DEF TakeResponse, MissionState
  <2> HIDE DEF t
  <2> QED
    BY <1>3, <2>1 DEF WellFormed, RouteAfterAck, t
<1> QED
  BY <1>1, <1>2, <1>3 DEF Actions

LEMMA GenerateReportEnded ==
    ASSUME NEW r \in Requests, NEW v \in MissionState, WellFormed(v, "report"),
           NEW let_pass, Driven(r, v, "report", FALSE, let_pass)
    PROVE  Ended(r, GenerateReport(v), let_pass)
<1> DEFINE t == GenerateReport(v)
<1>1. CASE v.report = Text("invalid_aircraft")
  <2>1. t.report = v.report
    BY <1>1, TextIsNoBrief DEF GenerateReport, HasReport, AsksModel
  <2> HIDE DEF t
  <2> QED
    BY <1>1, <2>1, TextIsNoBrief DEF Ended, Driven, t
<1>2. CASE v.report = NoReport /\ v.calculations = None
  <2>1. t.report = Text("validation_failed")
    BY <1>2 DEF GenerateReport, HasReport, NothingToAssess, AsksModel, MissionState
  <2>2. v.assessment = None
    BY <1>2 DEF WellFormed
  <2> HIDE DEF t
  <2> QED
    BY <1>2, <2>1, <2>2 DEF Ended, Driven, t, Text
<1>3. CASE v.report = NoReport /\ v.calculations # None
  <2>1. t.report = [by |-> "model", of |-> v.assessment]
    BY <1>3 DEF GenerateReport, HasReport, NothingToAssess, AsksModel, MissionState, WellFormed
  <2> HIDE DEF t
  <2> QED
    BY <1>3, <2>1 DEF Ended, Driven, t
<1> QED
  BY <1>1, <1>2, <1>3 DEF WellFormed

LEMMA SuperstepCalm ==
    ASSUME TypeOK, CalmInv, NEW r \in Requests, Superstep(r)
    PROVE  CalmInv'
<1> DEFINE v == run[r].values
           n == run[r].next
<1>0. /\ v \in MissionState /\ pc[r] = "run" /\ WellFormed(v, n)
      /\ Driven(r, v, n, run[r].resume, waived) /\ run[r].resume \in BOOLEAN
  BY RunType DEF CalmInv, Superstep, ValidateNode, WeatherNode, CalculationsNode,
                 CiteLimitsNode, HumanAckAtLimit, HumanAckInterrupt, ReportNode, At
<1> HIDE DEF v
<1>1. CASE ValidateNode(r)
  <2> DEFINE t == ValidateInputs(v)
  <2>1. n = "validate" /\ Advance(r, t, RouteAfterValidation(t), 0) /\ waived' = waived
    BY <1>1 DEF ValidateNode, At, v
  <2>2. /\ WellFormed(t, RouteAfterValidation(t))
        /\ RouteAfterValidation(t) \in {"weather", "report"}
        /\ RouteAfterValidation(t) = "report" => t.report # NoReport
    BY <1>0, <2>1, ValidateInputsForm
  <2> HIDE DEF t
  <2>3. r \notin Acks
    BY <1>0, <2>1 DEF Driven
  <2>4. Driven(r, t, RouteAfterValidation(t), FALSE, waived')
    BY <1>0, <2>1, <2>2, <2>3, DrivenOnward
  <2> QED
    BY <1>0, <2>1, <2>2, <2>4, AdvanceCalm
<1>2. CASE WeatherNode(r)
  <2>1. PICK reading \in Weathers : Advance(r, FetchWeather(v, reading), "calculations", 0)
    BY <1>2 DEF WeatherNode, v
  <2>2. n = "weather" /\ waived' = waived
    BY <1>2 DEF WeatherNode, At
  <2>3. WellFormed(FetchWeather(v, reading), "calculations")
    BY <1>0, <2>2, FetchWeatherForm
  <2>4. Driven(r, FetchWeather(v, reading), "calculations", FALSE, waived')
    BY <1>0, <2>2, DrivenOnward
  <2> QED
    BY <1>0, <2>1, <2>2, <2>3, <2>4, AdvanceCalm
<1>3. CASE CalculationsNode(r)
  <2>1. n = "calculations" /\ Advance(r, Calculate(v), "cite_limits", 0) /\ waived' = waived
    BY <1>3 DEF CalculationsNode, At, v
  <2>2. WellFormed(Calculate(v), "cite_limits")
    BY <1>0, <2>1, CalculateForm
  <2>3. Driven(r, Calculate(v), "cite_limits", FALSE, waived')
    BY <1>0, <2>1, DrivenOnward
  <2> QED
    BY <1>0, <2>1, <2>2, <2>3, AdvanceCalm
<1>4. CASE CiteLimitsNode(r)
  <2>1. n = "cite_limits" /\ Advance(r, v, "human_ack", reviews + 1) /\ waived' = waived
    BY <1>4 DEF CiteLimitsNode, CiteLimits, At, v
  <2>2. WellFormed(v, "human_ack")
    BY <1>0, <2>1 DEF WellFormed
  <2>3. Driven(r, v, "human_ack", FALSE, waived')
    BY <1>0, <2>1, DrivenOnward
  <2> QED
    BY <1>0, <2>1, <2>2, <2>3, AdvanceCalm
<1>5. CASE HumanAckAtLimit(r)
  <2> DEFINE t == ProceedAtLimit(v)
  <2>1. /\ n = "human_ack" /\ AtRoundLimit(v) /\ Advance(r, t, RouteAfterAck(t), 0)
        /\ waived' = waived \cup {v.assessment}
    BY <1>5 DEF HumanAckAtLimit, At, v
  <2>2. WellFormed(t, "report") /\ t.assessment = v.assessment /\ RouteAfterAck(t) = "report"
    BY <1>0, <2>1, ProceedAtLimitForm
  <2> HIDE DEF t
  <2>3. v.report = NoReport /\ t.report = NoReport
    BY <1>0, <2>1 DEF WellFormed, ProceedAtLimit, MissionState, t
  <2>4. r \in Acks /\ Confirming(r) => ack[r].read = v.assessment
    BY <1>0, <2>1 DEF Driven, Resumable
  <2>5. Driven(r, t, "report", FALSE, waived')
    BY <2>1, <2>2, <2>3, <2>4 DEF Driven
  <2> QED
    BY <1>0, <2>1, <2>2, <2>5, AdvanceCalm
<1>6. CASE ReportNode(r)
  <2>1. n = "report" /\ Advance(r, GenerateReport(v), "end", 0) /\ waived' = waived
    BY <1>6 DEF ReportNode, At, v
  <2>2. Driven(r, v, "report", FALSE, waived')
    BY <1>0, <2>1 DEF Driven
  <2>3. Ended(r, GenerateReport(v), waived')
    BY <1>0, <2>1, <2>2, GenerateReportEnded
  <2>4. WellFormed(GenerateReport(v), "end")
    BY DEF WellFormed
  <2> QED
    BY <1>0, <2>1, <2>3, <2>4, AdvanceCalm
<1>7. CASE HumanAckInterrupt(r)
  <2>1. /\ n = "human_ack" /\ ~run[r].resume /\ ~AtRoundLimit(v)
        /\ UNCHANGED <<ckpt, row, ack, failures, waived>>
        /\ pc' = [pc EXCEPT ![r] = IF r \in Plans THEN "done" ELSE "sign"]
        /\ run' = [run EXCEPT ![r] = NoRun]
    BY <1>7 DEF HumanAckInterrupt, Return, Goto, At, v
  <2>2. /\ \A q \in Requests : q # r => pc'[q] = pc[q] /\ run'[q] = run[q]
        /\ pc'[r] = IF r \in Plans THEN "done" ELSE "sign"
    BY <2>1 DEF TypeOK
  <2>3. \A q \in Requests : Driving(q) => q = r
    BY <1>0 DEF CalmInv, Driving
  <2>4. \A q \in Requests : Driving(q)' => q = r
    BY <2>2, <2>3 DEF Driving
  <2>5. ckpt.next = "human_ack" /\ ckpt.values = v
    BY <1>0, <2>1 DEF CalmInv, v
  <2>6. r \in Acks => ~Confirming(r)
    BY <1>0, <2>1 DEF Driven
  <2>7. ~ \A p \in Plans : pc'[p] \in NotInvoked
    <3>1. PICK p \in Plans : pc[p] \notin NotInvoked
      BY <2>5 DEF CalmInv, NoCheckpoint
    <3>2. pc'[p] \notin NotInvoked
      BY <2>2, <3>1, AcksAreRequests DEF NotInvoked
    <3> QED
      BY <3>2
  <2>8. \A q \in Requests : pc'[q] # "run"
    <3>1. pc'[r] # "run"
      BY <2>2
    <3> QED
      BY <2>4, <3>1 DEF Driving
  <2>9. \A a \in Acks : pc'[a] # "resume" /\ (pc'[a] = "sign" => ~Confirming(a)')
    <3>1. \A a \in Acks : pc'[a] \in {"resume", "sign"} => a = r
      BY <2>4, AcksAreRequests DEF Driving
    <3>2. r \in Acks => pc'[r] = "sign"
      BY <2>2, ServiceAssumption
    <3> QED
      BY <2>1, <2>6, <3>1, <3>2 DEF Confirming
  <2>10. row # None => row.ack_inputs_hash = None
    BY <2>5 DEF CalmInv
  <2>11. Agree'
    <3>1. Agree
      BY <1>0, <2>5, <2>10, AgreeBeforeEnd DEF CalmInv
    <3> QED
      BY <2>1, <3>1 DEF Agree
  <2>12. WellFormed(ckpt.values, ckpt.next)'
    BY <2>1 DEF CalmInv, WellFormed
  <2>13. AtRest(ckpt.values, ckpt.next)'
    BY <2>1, <2>5 DEF AtRest
  <2> QED
    BY <2>1, <2>4, <2>5, <2>7, <2>8, <2>9, <2>10, <2>11, <2>12, <2>13 DEF CalmInv
<1> QED
  BY <1>1, <1>2, <1>3, <1>4, <1>5, <1>6, <1>7 DEF Superstep

LEMMA HumanAckResponseCalm ==
    ASSUME TypeOK, CalmInv, NEW a \in Acks, HumanAckResponse(a)
    PROVE  CalmInv'
<1> DEFINE v == run[a].values
           action == ack[a].body.action
           t == TakeResponse(v, action, ack[a].body.edits)
<1>1. /\ pc[a] = "run" /\ run[a].resume /\ run[a].next = "human_ack"
      /\ Advance(a, t, RouteAfterAck(t), 0) /\ waived' = waived
  BY DEF HumanAckResponse, At
<1>2. /\ v \in MissionState /\ action \in Actions
      /\ WellFormed(v, "human_ack")
      /\ Driven(a, v, "human_ack", TRUE, waived)
  <2>1. run[a].resume = TRUE
    BY <1>1, RunType, AcksAreRequests
  <2> QED
    BY <1>1, <2>1, RunType, AcksAreRequests DEF CalmInv, TypeOK, Acknowledgements, Bodies
<1> HIDE DEF v
<1>3. /\ WellFormed(t, RouteAfterAck(t))
      /\ t.assessment = v.assessment
      /\ action = "confirm" => RouteAfterAck(t) = "report" /\ t.report = NoReport
      /\ action = "edit" => RouteAfterAck(t) = "calculations"
      /\ action = "abort" => RouteAfterAck(t) = "end" /\ t.report = Text("operator_abort")
  BY <1>2, TakeResponseForm
<1>4. ack[a].read = v.assessment
  BY <1>2 DEF Driven, Resumable
<1> HIDE DEF t
<1>5. RouteAfterAck(t) # "end" => Driven(a, t, RouteAfterAck(t), FALSE, waived')
  <2>1. CASE action = "confirm"
    BY <1>3, <1>4, <2>1 DEF Driven, Confirming
  <2>2. CASE action = "edit"
    BY <1>3, <2>2 DEF Driven, Confirming
  <2>3. CASE action = "abort"
    BY <1>3, <2>3
  <2> QED
    BY <1>2, <2>1, <2>2, <2>3 DEF Actions
<1>6. RouteAfterAck(t) = "end" => Ended(a, t, waived')
  <2>1. RouteAfterAck(t) = "end" => action = "abort"
    BY <1>2, <1>3 DEF Actions
  <2> QED
    BY <1>3, <2>1, TextIsNoBrief DEF Ended, Confirming
<1> QED
  BY <1>1, <1>3, <1>5, <1>6, AdvanceCalm, AcksAreRequests

\* A step of a request that is not under way before or after it.
LEMMA AsideCalm ==
    ASSUME TypeOK, CalmInv, NEW r \in Requests, NEW label,
           ~Driving(r), r \in Plans /\ label \in NotInvoked => pc[r] \in NotInvoked,
           label \notin {"run", "resume", "sign"}, Goto(r, label),
           UNCHANGED <<ckpt, run, waived, failures>>,
           row' = row \/ (row = None /\ row'.ack_inputs_hash = None),
           row' # row => ckpt = NoCheckpoint,
           \A a \in Acks : a # r => ack'[a] = ack[a]
    PROVE  CalmInv'
<1>1. pc'[r] = label /\ \A q \in Requests : q # r => pc'[q] = pc[q]
  BY DEF Goto, TypeOK
<1>2. \A q \in Requests : Driving(q)' <=> Driving(q)
  BY <1>1 DEF Driving
<1>3. \A q \in Requests : pc'[q] = "run" <=> pc[q] = "run"
  BY <1>1 DEF Driving
<1>4. \A a \in Acks : /\ pc'[a] = "sign" <=> pc[a] = "sign"
                      /\ pc'[a] = "resume" <=> pc[a] = "resume"
  BY <1>1, AcksAreRequests DEF Driving
<1>5. (\A p \in Plans : pc'[p] \in NotInvoked) => \A p \in Plans : pc[p] \in NotInvoked
  BY <1>1, AcksAreRequests
<1>6. Agree => Agree'
  BY DEF Agree, NoCheckpoint, NoValues, NoReport, Text
<1>7. WellFormed(ckpt.values, ckpt.next)' /\ (AtRest(ckpt.values, ckpt.next) => AtRest(ckpt.values, ckpt.next)')
  BY DEF CalmInv, WellFormed, AtRest
<1>8. \A a \in Acks : pc'[a] \in {"run", "resume", "sign"} => ack'[a] = ack[a]
  BY <1>1, AcksAreRequests
<1>9. \A q \in Requests : pc'[q] = "run" => Driven(q, ckpt.values, ckpt.next, run[q].resume, waived)'
  <2> SUFFICES ASSUME NEW q \in Requests, pc'[q] = "run"
               PROVE  Driven(q, ckpt.values, ckpt.next, run[q].resume, waived)'
    OBVIOUS
  <2>1. Driven(q, ckpt.values, ckpt.next, run[q].resume, waived)
    BY <1>3 DEF CalmInv
  <2>2. q \in Acks => ack'[q] = ack[q]
    BY <1>8
  <2> QED
    BY <2>1, <2>2 DEF Driven, Resumable, Confirming
<1>10. \A a \in Acks : pc'[a] = "sign" /\ Confirming(a)' =>
           /\ ckpt'.next = "end"
           /\ row' # None => row'.ack_inputs_hash = None
           /\ Ended(a, ckpt.values, waived)'
  <2> SUFFICES ASSUME NEW a \in Acks, pc'[a] = "sign", Confirming(a)'
               PROVE  /\ ckpt'.next = "end"
                      /\ row' # None => row'.ack_inputs_hash = None
                      /\ Ended(a, ckpt.values, waived)'
    OBVIOUS
  <2>1. ack'[a] = ack[a] /\ Confirming(a) /\ pc[a] = "sign"
    BY <1>4, <1>8 DEF Confirming
  <2> QED
    BY <2>1 DEF CalmInv, Ended, Confirming
<1>11. \A q1, q2 \in Requests : Driving(q1)' /\ Driving(q2)' => q1 = q2
  BY <1>2 DEF CalmInv
<1>12. (\A a \in Acks : pc'[a] = "sign" => ~Confirming(a)') => Agree'
  <2>1. \A a \in Acks : pc[a] = "sign" /\ Confirming(a) => Confirming(a)'
    BY <1>4, <1>8 DEF Confirming
  <2> QED
    BY <1>4, <1>6, <2>1 DEF CalmInv
<1>13. \A a \in Acks : pc'[a] = "resume" => Resumable(a, ckpt.values, ckpt.next)'
  BY <1>4, <1>8 DEF CalmInv, Resumable
<1>14. row' # None /\ ckpt'.next # "end" => row'.ack_inputs_hash = None
  BY DEF CalmInv
<1> QED
  BY <1>3, <1>5, <1>7, <1>9, <1>10, <1>11, <1>12, <1>13, <1>14 DEF CalmInv

LEMMA PlanRecordCalm ==
    ASSUME TypeOK, CalmInv, NEW p \in Plans, PlanRecord(p)
    PROVE  CalmInv'
<1>1. /\ pc[p] = "idle" /\ UNCHANGED <<ckpt, row, run, ack, waived, failures>>
      /\ \E label \in {"insert", "invoke"} : Goto(p, label)
  BY DEF PlanRecord, history
<1>2. ~Driving(p) /\ p \in Requests
  BY <1>1, ServiceAssumption, AcksAreRequests DEF Driving
<1> QED
  BY <1>1, <1>2, AsideCalm DEF NotInvoked

LEMMA PlanInsertCalm ==
    ASSUME TypeOK, CalmInv, NEW p \in Plans, PlanInsert(p), OnePlan
    PROVE  CalmInv'
<1>1. /\ pc[p] = "insert" /\ UNCHANGED <<ckpt, run, ack, waived, failures>>
      /\ \/ row = None /\ row' = [ack_inputs_hash |-> None] /\ Goto(p, "invoke")
         \/ row # None /\ UNCHANGED row /\ Goto(p, "failed")
  BY DEF PlanInsert, history
<1>2. ~Driving(p) /\ p \in Requests
  BY <1>1, ServiceAssumption, AcksAreRequests DEF Driving
<1>3. ckpt = NoCheckpoint
  <2>1. \A q \in Plans : q # p => pc[q] = "idle"
    BY <1>1 DEF OnePlan
  <2> QED
    BY <1>1, <2>1 DEF CalmInv, NotInvoked
<1> QED
  BY <1>1, <1>2, <1>3, AsideCalm DEF NotInvoked

LEMMA PlanInvokeCalm ==
    ASSUME TypeOK, CalmInv, NEW p \in Plans, PlanInvoke(p), OnePlan, ~overlapped'
    PROVE  CalmInv'
<1>1. /\ pc[p] = "invoke" /\ Goto(p, "run") /\ ~AckInFlight
      /\ UNCHANGED <<row, ack, waived, failures>>
  BY DEF PlanInvoke
<1>2. PICK request \in PlanRequests :
          /\ run' = [run EXCEPT ![p] = [values |-> WithInput(ckpt.values, request),
                                        next |-> "validate", review |-> 0, resume |-> FALSE]]
          /\ ckpt' = [values |-> WithInput(ckpt.values, request), next |-> "validate", review |-> 0]
  BY DEF PlanInvoke
<1>3. \A q \in Plans : q # p => pc[q] = "idle"
  BY <1>1 DEF OnePlan
<1>4. ckpt = NoCheckpoint
  BY <1>1, <1>3 DEF CalmInv, NotInvoked
<1>5. \A a \in Acks : pc[a] \notin {"resume", "run", "sign"}
  BY <1>1 DEF AckInFlight
<1>6. /\ pc'[p] = "run" /\ p \in Requests
      /\ run'[p].values = ckpt'.values /\ run'[p].next = "validate" /\ ~run'[p].resume
      /\ \A q \in Requests : q # p => pc'[q] = pc[q] /\ run'[q] = run[q]
  BY <1>1, <1>2, AcksAreRequests DEF Goto, TypeOK
<1>7. \A q \in Requests : Driving(q)' => q = p
  <2>1. \A q \in Requests : ~Driving(q)
    BY <1>1, <1>3, <1>5, ServiceAssumption DEF Driving, Requests
  <2> QED
    BY <1>6, <2>1 DEF Driving
<1>8. ckpt'.next = "validate" /\ ckpt'.values.report = NoReport
  <2>1. WithInput(ckpt.values, request).report = ckpt.values.report
    BY CkptType, WithInputFacts
  <2> QED
    BY <1>2, <1>4, <2>1 DEF NoCheckpoint, NoValues
<1>9. row # None => row.ack_inputs_hash = None
  <2>1. Agree
    BY <1>5 DEF CalmInv
  <2> QED
    BY <1>4, <2>1 DEF Agree, NoCheckpoint, NoValues, NoReport, Text
<1>10. WellFormed(ckpt.values, ckpt.next)'
  BY <1>8 DEF WellFormed
<1>11. Agree'
  BY <1>1, <1>8, <1>9, TextIsNoBrief DEF Agree
<1>12. p \notin Acks
  BY ServiceAssumption
<1>13. \A q \in Requests : pc'[q] = "run" => q = p
  BY <1>7 DEF Driving
<1>14. Driven(p, ckpt.values, ckpt.next, run[p].resume, waived)'
  BY <1>8, <1>12 DEF Driven
<1>15. \A q \in Requests : pc'[q] = "run" => Driven(q, ckpt.values, ckpt.next, run[q].resume, waived)'
  BY <1>13, <1>14
<1>16. \A a \in Acks : pc'[a] \notin {"resume", "sign"}
  BY <1>5, <1>6, <1>12, AcksAreRequests
<1>17. pc'[p] \notin NotInvoked
  BY <1>6 DEF NotInvoked
<1> QED
  BY <1>1, <1>6, <1>7, <1>8, <1>9, <1>10, <1>11, <1>13, <1>15, <1>16, <1>17 DEF CalmInv

LEMMA AckCheckCalm ==
    ASSUME Serialised, TypeOK, LockInv, CalmInv, NEW a \in Acks, AckCheck(a), ~overlapped'
    PROVE  CalmInv'
<1> USE AcksAreRequests
<1>1. PICK body \in OperatorBodies :
          /\ Acceptable(body)
          /\ ack' = [ack EXCEPT ![a] = [@ EXCEPT !.body = body, !.read = ckpt.values.assessment]]
  BY DEF AckCheck
<1>2. /\ pc[a] = "check" /\ ~PlanInFlight
      /\ UNCHANGED <<ckpt, row, run, waived, failures>>
      /\ pc'[a] = "resume" /\ \A q \in Requests : q # a => pc'[q] = pc[q]
  BY DEF AckCheck, Goto, TypeOK
<1>3. \A q \in Requests : ~Driving(q)
  <2>1. \A q \in Acks : pc[q] \in {"resume", "run", "sign"} => q = a
    BY <1>2, MutualExclusion DEF Critical
  <2> QED
    BY <1>2, <2>1, ServiceAssumption DEF Driving, PlanInFlight, Requests
<1>4. \A q \in Requests : pc[q] # "run" /\ pc'[q] # "run"
  BY <1>2, <1>3 DEF Driving
<1>5. AtRest(ckpt.values, ckpt.next) /\ ckpt.next # "end"
  BY <1>1, <1>4 DEF CalmInv, Acceptable, Pending
<1>6. ack'[a].read = ckpt.values.assessment
  BY <1>1 DEF TypeOK, Acknowledgements
<1>7. \A b \in Acks : pc'[b] # "sign" /\ (pc'[b] = "resume" => b = a)
  BY <1>2, <1>3 DEF Driving
<1>8. \A q \in Requests : Driving(q)' => q = a
  BY <1>2, <1>3 DEF Driving
<1>9. (\A p \in Plans : pc'[p] \in NotInvoked) => \A p \in Plans : pc[p] \in NotInvoked
  BY <1>2, ServiceAssumption
<1>10. WellFormed(ckpt.values, ckpt.next)' /\ AtRest(ckpt.values, ckpt.next)'
  BY <1>2, <1>5 DEF CalmInv, WellFormed, AtRest
<1>11. Agree'
  <2>1. Agree
    BY <1>3 DEF CalmInv, Driving
  <2> QED
    BY <1>2, <2>1 DEF Agree
<1>12. Resumable(a, ckpt.values, ckpt.next)'
  BY <1>2, <1>5, <1>6 DEF Resumable, AtRest
<1> QED
  BY <1>2, <1>4, <1>7, <1>8, <1>9, <1>10, <1>11, <1>12 DEF CalmInv

LEMMA AckResumeCalm ==
    ASSUME TypeOK, CalmInv, NEW a \in Acks, AckResume(a)
    PROVE  CalmInv'
<1> USE AcksAreRequests
<1>1. pc[a] = "resume" /\ Resumable(a, ckpt.values, ckpt.next)
  BY DEF AckResume, CalmInv
<1>2. /\ pc'[a] = "run"
      /\ run'[a] = [values |-> ckpt.values, next |-> ckpt.next,
                    review |-> ckpt.review, resume |-> TRUE]
      /\ \A q \in Requests : q # a => pc'[q] = pc[q] /\ run'[q] = run[q]
      /\ UNCHANGED <<ckpt, row, ack, waived, failures>>
  <2>1. Pending(ckpt)
    BY <1>1 DEF Resumable, Pending
  <2> QED
    BY <2>1 DEF AckResume, Goto, TypeOK, history
<1>3. \A q \in Requests : Driving(q) => q = a
  BY <1>1 DEF CalmInv, Driving
<1>4. \A q \in Requests : Driving(q)' => q = a
  BY <1>2, <1>3 DEF Driving
<1>5. \A q \in Requests : pc'[q] = "run" => q = a
  BY <1>4 DEF Driving
<1>6. \A q \in Requests : pc[q] # "run"
  BY <1>1, <1>3 DEF Driving
<1>7. AtRest(ckpt.values, ckpt.next) /\ ckpt.next # "end"
  BY <1>1, <1>6 DEF CalmInv, Resumable
<1>8. \A b \in Acks : pc'[b] \notin {"resume", "sign"}
  BY <1>2, <1>4 DEF Driving
<1>9. Driven(a, ckpt.values, ckpt.next, run[a].resume, waived)'
  <2>1. run'[a].resume = TRUE
    BY <1>2
  <2> QED
    BY <1>1, <1>2, <1>7, <2>1 DEF Driven, Resumable, AtRest, Confirming
<1>10. \A q \in Requests : pc'[q] = "run" => Driven(q, ckpt.values, ckpt.next, run[q].resume, waived)'
  BY <1>5, <1>9
<1>11. \A q \in Requests : pc'[q] = "run" =>
           run'[q].values = ckpt'.values /\ run'[q].next = ckpt'.next /\ ckpt'.next # "end"
  BY <1>2, <1>5, <1>7
<1>12. (\A p \in Plans : pc'[p] \in NotInvoked) => \A p \in Plans : pc[p] \in NotInvoked
  BY <1>2, ServiceAssumption
<1>13. row # None => row.ack_inputs_hash = None
  BY <1>7 DEF CalmInv
<1>14. WellFormed(ckpt.values, ckpt.next)' /\ Agree'
  <2>1. Agree
    BY <1>7, <1>13, AgreeBeforeEnd DEF CalmInv
  <2> QED
    BY <1>2, <2>1 DEF CalmInv, WellFormed, Agree
<1> QED
  BY <1>2, <1>4, <1>8, <1>10, <1>11, <1>12, <1>13, <1>14 DEF CalmInv

LEMMA AckSignCalm ==
    ASSUME AuthOn, TypeOK, LockInv, CalmInv, NEW a \in Acks, AckSign(a)
    PROVE  CalmInv'
<1> USE AcksAreRequests
<1>1. /\ pc[a] = "sign" /\ pc'[a] = "done" /\ \A q \in Requests : q # a => pc'[q] = pc[q]
      /\ row' = IF Confirming(a) /\ ack[a].locked /\ ack[a].read # None
                THEN [ack_inputs_hash |-> ack[a].read]
                ELSE row
      /\ UNCHANGED <<ckpt, run, waived, failures>>
  BY DEF AckSign, Goto, Confirming, TypeOK
<1>2. \A q \in Requests : Driving(q) => q = a
  BY <1>1 DEF CalmInv, Driving
<1>3. \A q \in Requests : ~Driving(q)'
  BY <1>1, <1>2 DEF Driving
<1>4. \A b \in Acks : pc'[b] \notin {"resume", "run", "sign"}
  BY <1>3 DEF Driving
<1>5. \A q \in Requests : pc'[q] # "run"
  BY <1>3 DEF Driving
<1>6. \A q \in Requests : pc[q] # "run"
  BY <1>1, <1>2 DEF Driving
<1>7. (\A p \in Plans : pc'[p] \in NotInvoked) => \A p \in Plans : pc[p] \in NotInvoked
  BY <1>1, ServiceAssumption
<1>8. Agree' /\ (row' # None /\ ckpt.next # "end" => row'.ack_inputs_hash = None)
  <2>1. CASE ~Confirming(a)
    <3>1. Agree
      BY <1>1, <1>2, <2>1 DEF CalmInv, Driving
    <3> QED
      BY <1>1, <2>1, <3>1 DEF Agree, CalmInv
  <2>2. CASE Confirming(a)
    <3>1. /\ ckpt.next = "end"
          /\ row # None => row.ack_inputs_hash = None
          /\ Ended(a, ckpt.values, waived)
      BY <1>1, <2>2 DEF CalmInv
    <3>2. /\ ack[a].read # None => ckpt.values.report = [by |-> "model", of |-> ack[a].read]
          /\ ckpt.values.report.by = "model" => ckpt.values.report.of = ack[a].read
      BY <2>2, <3>1 DEF Ended
    <3>3. ack[a].locked
      BY <1>1 DEF LockInv, Critical
    <3>4. CASE ack[a].read # None
      <4>1. row'.ack_inputs_hash = ack[a].read
        BY <1>1, <2>2, <3>3, <3>4
      <4>2. ckpt'.values.report = [by |-> "model", of |-> ack[a].read]
        BY <1>1, <3>2, <3>4
      <4> QED
        BY <3>1, <4>1, <4>2 DEF Agree
    <3>5. CASE ack[a].read = None
      <4>1. row' = row
        BY <1>1, <3>5
      <4>2. ckpt.values.report.by = "model" => ckpt.values.report.of = None
        BY <3>2, <3>5
      <4> QED
        BY <1>1, <3>1, <4>1, <4>2 DEF Agree
    <3> QED
      BY <3>4, <3>5
  <2> QED
    BY <2>1, <2>2
<1>9. WellFormed(ckpt.values, ckpt.next)' /\ AtRest(ckpt.values, ckpt.next)'
  BY <1>1, <1>6 DEF CalmInv, WellFormed, AtRest
<1> QED
  BY <1>1, <1>3, <1>4, <1>5, <1>6, <1>7, <1>8, <1>9 DEF CalmInv

\* A run that dies at the latest review, or behind it, leaves the thread in front
\* of human_ack or of report.
LEMMA FailCalm ==
    ASSUME TypeOK, CalmInv, NEW r \in Requests, Fail(r), ~cutShort'
    PROVE  CalmInv'
<1> USE AcksAreRequests
<1>1. /\ failures' # 0 /\ UNCHANGED <<ckpt, row, waived>>
      /\ pc'[r] = "failed" /\ pc[r] \notin Finished /\ pc[r] # "idle"
      /\ \A q \in Requests : q # r => pc'[q] = pc[q] /\ run'[q] = run[q]
      /\ \A a \in Acks : a # r => ack'[a] = ack[a]
      /\ pc[r] = "run" => ~NotReviewed(run[r])
  <2>1. failures' # 0 /\ UNCHANGED <<ckpt, row, waived>>
    BY DEF Fail, TypeOK
  <2>2. pc' = [pc EXCEPT ![r] = "failed"] /\ pc[r] \notin Finished \cup {"idle"}
    BY DEF Fail, Goto
  <2>3. run' = [run EXCEPT ![r] = NoRun]
    BY DEF Fail
  <2>4. \A a \in Acks : a # r => ack'[a] = ack[a]
    BY DEF Fail, TypeOK
  <2>5. pc[r] = "run" => ~NotReviewed(run[r])
    BY DEF Fail
  <2> QED
    BY <2>1, <2>2, <2>3, <2>4, <2>5 DEF TypeOK
<1>2. \A q \in Requests : Driving(q)' => q # r /\ Driving(q)
  BY <1>1 DEF Driving
<1>3. (\A p \in Plans : pc'[p] \in NotInvoked) => \A p \in Plans : pc[p] \in NotInvoked
  BY <1>1 DEF NotInvoked
<1>4. \A q \in Requests : pc'[q] = "run" => q # r /\ pc[q] = "run" /\ run'[q] = run[q]
  BY <1>1
<1>5. (\A q \in Requests : pc'[q] # "run") => AtRest(ckpt.values, ckpt.next)'
  <2>1. CASE pc[r] = "run"
    <3>1. ckpt.next \in Targets /\ ckpt.next # "end" /\ ~NotReviewed(ckpt)
      BY <1>1, <2>1 DEF CalmInv, TypeOK, Checkpoints, NotReviewed
    <3> QED
      BY <1>1, <3>1 DEF AtRest, NotReviewed, HasReport, Targets, Nodes
  <2>2. CASE pc[r] # "run"
    BY <1>1, <2>2 DEF CalmInv, AtRest
  <2> QED
    BY <2>1, <2>2
<1>6. WellFormed(ckpt.values, ckpt.next)'
  BY <1>1 DEF CalmInv, WellFormed
<1>7. \A a \in Acks : pc'[a] = "resume" => Resumable(a, ckpt.values, ckpt.next)'
  BY <1>1 DEF CalmInv, Resumable
<1>8. \A q \in Requests : pc'[q] = "run" => Driven(q, ckpt.values, ckpt.next, run[q].resume, waived)'
  <2> SUFFICES ASSUME NEW q \in Requests, pc'[q] = "run"
               PROVE  Driven(q, ckpt.values, ckpt.next, run[q].resume, waived)'
    OBVIOUS
  <2>1. Driven(q, ckpt.values, ckpt.next, run[q].resume, waived) /\ run'[q] = run[q]
    BY <1>4 DEF CalmInv
  <2>2. q \in Acks => ack'[q] = ack[q]
    BY <1>1, <1>4
  <2> QED
    BY <1>1, <2>1, <2>2 DEF Driven, Resumable, Confirming
<1>9. \A a \in Acks : pc'[a] = "sign" /\ Confirming(a)' =>
          /\ ckpt'.next = "end"
          /\ row' # None => row'.ack_inputs_hash = None
          /\ Ended(a, ckpt.values, waived)'
  <2> SUFFICES ASSUME NEW a \in Acks, pc'[a] = "sign", Confirming(a)'
               PROVE  /\ ckpt'.next = "end"
                      /\ row' # None => row'.ack_inputs_hash = None
                      /\ Ended(a, ckpt.values, waived)'
    OBVIOUS
  <2>1. ack'[a] = ack[a] /\ Confirming(a) /\ pc[a] = "sign"
    BY <1>1 DEF Confirming
  <2> QED
    BY <1>1, <2>1 DEF CalmInv, Ended, Confirming
<1>10. (\A a \in Acks : pc'[a] = "sign" => ~Confirming(a)') => Agree'
  <2> SUFFICES ASSUME \A a \in Acks : pc'[a] = "sign" => ~Confirming(a)'
               PROVE  Agree'
    OBVIOUS
  <2>1. CASE r \in Acks /\ pc[r] = "sign" /\ Confirming(r)
    BY <1>1, <2>1 DEF CalmInv, Agree
  <2>2. CASE ~(r \in Acks /\ pc[r] = "sign" /\ Confirming(r))
    <3>1. \A a \in Acks : pc[a] = "sign" => ~Confirming(a)
      BY <1>1, <2>2 DEF Confirming
    <3> QED
      BY <1>1, <3>1 DEF CalmInv, Agree
  <2> QED
    BY <2>1, <2>2
<1>11. \A q \in Requests : pc'[q] = "run" =>
           run'[q].values = ckpt'.values /\ run'[q].next = ckpt'.next /\ ckpt'.next # "end"
  BY <1>1, <1>4 DEF CalmInv
<1>12. \A q1, q2 \in Requests : Driving(q1)' /\ Driving(q2)' => q1 = q2
  BY <1>2 DEF CalmInv
<1>13. row' # None /\ ckpt'.next # "end" => row'.ack_inputs_hash = None
  BY <1>1 DEF CalmInv
<1> QED
  BY <1>1, <1>3, <1>5, <1>6, <1>7, <1>8, <1>9, <1>10, <1>11, <1>12, <1>13 DEF CalmInv

LEMMA CalmStep ==
    ASSUME TypeOK, LockInv, Calm => CalmInv, [Next]_vars, Calm'
    PROVE  CalmInv'
<1> USE AcksAreRequests
\* A thread that is calm after a step was calm before it.
<1>1. ASSUME pc' = pc \/ \E r \in Requests : \E label : Goto(r, label) /\ label # "idle",
             overlapped => overlapped', cutShort => cutShort'
      PROVE  Calm
  <2>1. \A p \in Plans : pc[p] # "idle" => pc'[p] # "idle"
    BY <1>1 DEF Goto, TypeOK
  <2> QED
    BY <1>1, <2>1 DEF Calm, OnePlan
<1>2. CASE UNCHANGED vars \/ GetThread
  <2>1. UNCHANGED <<ckpt, row, pc, run, ack, failures, waived, overlapped, cutShort>>
    BY <1>2 DEF vars, history, GetThread
  <2>2. CalmInv
    BY <1>1, <2>1
  <2>3. WellFormed(ckpt.values, ckpt.next)' /\ (Agree => Agree')
        /\ (AtRest(ckpt.values, ckpt.next) => AtRest(ckpt.values, ckpt.next)')
    BY <2>1, <2>2 DEF CalmInv, WellFormed, Agree, AtRest
  <2>4. \A q \in Requests : /\ Driving(q)' <=> Driving(q)
                            /\ Confirming(q)' <=> Confirming(q)
    BY <2>1 DEF Driving, Confirming
  <2>5. \A q \in Requests : pc'[q] = "run" => Driven(q, ckpt.values, ckpt.next, run[q].resume, waived)'
    BY <2>1, <2>2 DEF CalmInv, Driven, Resumable, Confirming
  <2>6. \A a \in Acks : pc'[a] = "sign" /\ Confirming(a)' => Ended(a, ckpt.values, waived)'
    BY <2>1, <2>2 DEF CalmInv, Ended, Confirming
  <2>7. \A a \in Acks : pc'[a] = "resume" => Resumable(a, ckpt.values, ckpt.next)'
    BY <2>1, <2>2 DEF CalmInv, Resumable
  <2> QED
    BY <2>1, <2>2, <2>3, <2>4, <2>5, <2>6, <2>7 DEF CalmInv
<1>3. ASSUME NEW r \in Requests, Superstep(r) PROVE CalmInv'
  <2>1. /\ pc' = pc \/ \E q \in Requests : \E label : Goto(q, label) /\ label # "idle"
        /\ overlapped' = overlapped /\ cutShort' = cutShort
    <3>1. ASSUME NEW values, NEW next, NEW review, Advance(r, values, next, review)
          PROVE  /\ pc' = pc \/ \E q \in Requests : \E label : Goto(q, label) /\ label # "idle"
                 /\ cutShort' = cutShort
      BY <3>1 DEF Advance, Return
    <3> QED
      BY <1>3, <3>1 DEF Superstep, ValidateNode, WeatherNode, CalculationsNode, CiteLimitsNode,
                        HumanAckAtLimit, HumanAckInterrupt, ReportNode, Return
  <2>2. CalmInv
    BY <1>1, <2>1
  <2> QED
    BY <1>3, <2>2, SuperstepCalm
<1>4. ASSUME NEW p \in Plans, PlanRecord(p) \/ PlanStep(p) PROVE CalmInv'
  <2>0. p \in Requests
    BY DEF Requests
  <2>1. CASE PlanRecord(p)
    <3>1. Calm
      <4>1. UNCHANGED <<overlapped, cutShort>> /\ \E label \in {"insert", "invoke"} : Goto(p, label)
        BY <2>1 DEF PlanRecord, history
      <4> QED
        BY <1>1, <2>0, <4>1
    <3> QED
      BY <2>1, <3>1, PlanRecordCalm
  <2>2. CASE PlanInsert(p)
    <3>1. Calm
      <4>1. UNCHANGED <<overlapped, cutShort>> /\ \E label \in {"failed", "invoke"} : Goto(p, label)
        BY <2>2 DEF PlanInsert, history
      <4> QED
        BY <1>1, <2>0, <4>1
    <3> QED
      BY <2>2, <3>1, PlanInsertCalm DEF Calm
  <2>3. CASE PlanInvoke(p)
    <3>1. Calm
      <4>1. (overlapped => overlapped') /\ Goto(p, "run") /\ cutShort' = cutShort
        BY <2>3 DEF PlanInvoke
      <4> QED
        BY <1>1, <2>0, <4>1
    <3> QED
      BY <2>3, <3>1, PlanInvokeCalm DEF Calm
  <2> QED
    BY <1>3, <1>4, <2>0, <2>1, <2>2, <2>3 DEF PlanStep
<1>5. ASSUME NEW a \in Acks, AckArrive(a) \/ AckTurnedAway(a) \/ AckStep(a) PROVE CalmInv'
  <2>1. CASE AckArrive(a) \/ AckTurnedAway(a) \/ AckEnterMutex(a) \/ AckLockRow(a) \/ AckRefuse(a)
    <3>1. PICK label \in {"mutex", "row", "check", "refused"} :
              /\ Goto(a, label) /\ pc[a] \in {"idle", "mutex", "row", "check"}
              /\ UNCHANGED <<ckpt, row, run, failures, waived, overlapped, cutShort>>
              /\ \A b \in Acks : b # a => ack'[b] = ack[b]
      BY <2>1 DEF AckArrive, AckTurnedAway, AckEnterMutex, AckLockRow, AckRefuse, history, TypeOK
    <3>2. Calm
      BY <1>1, <3>1
    <3>3. ~Driving(a) /\ a \notin Plans
      BY <3>1, ServiceAssumption DEF Driving
    <3> QED
      BY <3>1, <3>2, <3>3, AsideCalm
  <2>2. CASE AckCheck(a)
    <3>1. Calm
      <4>1. (overlapped => overlapped') /\ Goto(a, "resume") /\ cutShort' = cutShort
        BY <2>2 DEF AckCheck
      <4> QED
        BY <1>1, <4>1
    <3> QED
      BY <2>2, <3>1, AckCheckCalm DEF Calm, Serialised
  <2>3. CASE AckResume(a)
    <3>1. Calm
      <4>1. UNCHANGED <<overlapped, cutShort>> /\ \E label \in {"run", "sign"} : Goto(a, label)
        BY <2>3 DEF AckResume, history
      <4> QED
        BY <1>1, <4>1
    <3> QED
      BY <2>3, <3>1, AckResumeCalm
  <2>4. CASE AckSign(a)
    <3>1. Calm
      BY <1>1, <2>4 DEF AckSign
    <3> QED
      BY <2>4, <3>1, AckSignCalm DEF Calm
  <2>5. CASE HumanAckResponse(a)
    <3>1. Calm
      BY <1>1, <2>5 DEF HumanAckResponse, Advance, Return
    <3> QED
      BY <2>5, <3>1, HumanAckResponseCalm
  <2> QED
    BY <1>3, <1>5, <2>1, <2>2, <2>3, <2>4, <2>5 DEF AckStep
<1>6. ASSUME NEW r \in Requests, Fail(r) PROVE CalmInv'
  <2>1. Calm
    <3>1. overlapped' = overlapped /\ (cutShort => cutShort') /\ Goto(r, "failed")
      BY <1>6, Zenon DEF Fail
    <3> QED
      BY <1>1, <3>1
  <2> QED
    BY <1>6, <2>1, FailCalm DEF Calm
<1> QED
  BY <1>2, <1>4, <1>5, <1>6 DEF Next, Terminated

LEMMA PlannedFiniteStep ==
    ASSUME TypeOK, PlannedFinite, [Next]_vars
    PROVE  PlannedFinite'
<1> DEFINE planned == {p \in Plans : pc[p] # "idle"}
           planned_next == {p \in Plans : pc'[p] # "idle"}
<1>1. PICK r : \A p \in Plans : p # r => pc'[p] = pc[p]
  <2>1. ASSUME NEW q, NEW label, Goto(q, label)
        PROVE  \A p \in Plans : p # q => pc'[p] = pc[p]
    BY <2>1, AcksAreRequests DEF Goto, TypeOK
  <2>2. ASSUME NEW q, Superstep(q) \/ HumanAckResponse(q)
        PROVE  \A p \in Plans : p # q => pc'[p] = pc[p]
    <3>1. ASSUME NEW values, NEW next, NEW review, Advance(q, values, next, review)
          PROVE  \A p \in Plans : p # q => pc'[p] = pc[p]
      BY <2>1, <3>1 DEF Advance, Return
    <3> QED
      BY <2>1, <2>2, <3>1
         DEF Superstep, ValidateNode, WeatherNode, CalculationsNode, CiteLimitsNode,
             HumanAckAtLimit, HumanAckInterrupt, ReportNode, HumanAckResponse, Return
  <2>3. CASE UNCHANGED vars \/ GetThread
    BY <2>3 DEF vars, GetThread
  <2>4. ASSUME NEW p \in Plans, PlanRecord(p) \/ PlanStep(p)
        PROVE  \E q : \A o \in Plans : o # q => pc'[o] = pc[o]
    BY <2>1, <2>2, <2>4 DEF PlanRecord, PlanStep, PlanInsert, PlanInvoke
  <2>5. ASSUME NEW a \in Acks, AckArrive(a) \/ AckTurnedAway(a) \/ AckStep(a)
        PROVE  \E q : \A o \in Plans : o # q => pc'[o] = pc[o]
    BY <2>1, <2>2, <2>5
       DEF AckArrive, AckTurnedAway, AckStep, AckEnterMutex, AckLockRow, AckCheck, AckRefuse, AckResume, AckSign
  <2>6. ASSUME NEW q \in Requests, Fail(q)
        PROVE  \E o : \A p \in Plans : p # o => pc'[p] = pc[p]
    BY <2>1, <2>6 DEF Fail
  <2> QED
    BY <2>3, <2>4, <2>5, <2>6 DEF Next, Terminated
<1>2. planned_next \subseteq planned \cup {r}
  BY <1>1
<1>3. IsFiniteSet(planned)
  BY DEF PlannedFinite
<1> HIDE DEF planned, planned_next
<1>4. IsFiniteSet(planned_next)
  BY <1>2, <1>3, FS_AddElement, FS_Subset
<1> QED
  BY <1>4 DEF PlannedFinite, planned_next

LEMMA InitSInv == Init => SInv
<1> SUFFICES ASSUME Init PROVE PlannedFinite /\ ~cutShort /\ CalmInv
  BY InitLInv DEF SInv
<1>1. PlannedFinite
  <2>1. {p \in Plans : pc[p] # "idle"} = {}
    BY AcksAreRequests DEF Init
  <2> QED
    BY <2>1, FS_EmptySet DEF PlannedFinite
<1>2. \A r \in Requests : pc[r] = "idle" /\ ~Driving(r)
  BY DEF Init, Driving
<1>3. /\ ckpt = NoCheckpoint /\ ckpt.next = "end" /\ row = None
      /\ WellFormed(ckpt.values, ckpt.next) /\ Agree /\ AtRest(ckpt.values, ckpt.next)
  BY DEF Init, NoCheckpoint, WellFormed, Agree, AtRest
<1> QED
  BY <1>1, <1>2, <1>3, AcksAreRequests DEF CalmInv, Init

LEMMA CutShortByFailure ==
    ASSUME TypeOK, cutShort => failures # 0, [Next]_vars
    PROVE  cutShort' => failures' # 0
<1>1. ASSUME NEW r \in Requests, Fail(r) PROVE failures' # 0
  BY <1>1 DEF Fail, TypeOK
<1>2. ASSUME NEW r, Superstep(r) \/ HumanAckResponse(r) PROVE UNCHANGED <<failures, cutShort>>
  BY <1>2 DEF Superstep, ValidateNode, WeatherNode, CalculationsNode, CiteLimitsNode,
              HumanAckAtLimit, HumanAckInterrupt, ReportNode, HumanAckResponse, Advance
<1>3. ASSUME NEW p \in Plans, PlanRecord(p) \/ PlanStep(p) PROVE UNCHANGED <<failures, cutShort>>
  BY <1>2, <1>3 DEF PlanRecord, PlanStep, PlanInsert, PlanInvoke, history
<1>4. ASSUME NEW a \in Acks, AckArrive(a) \/ AckTurnedAway(a) \/ AckStep(a)
      PROVE  UNCHANGED <<failures, cutShort>>
  BY <1>2, <1>4 DEF AckArrive, AckTurnedAway, AckStep, AckEnterMutex, AckLockRow, AckCheck,
                    AckRefuse, AckResume, AckSign, history
<1> QED
  BY <1>1, <1>3, <1>4 DEF Next, Terminated, GetThread, vars, history

LEMMA StepSInv == SInv /\ [Next]_vars => SInv'
BY StepLInv, PlannedFiniteStep, CutShortByFailure, CalmStep DEF SInv, LInv

\* On a thread planned once, with no plan next to an acknowledgement and a key
\* needed, whenever no acknowledgement is under way: a signature in the row is never
\* without the brief of the assessment signed, although brief and signature are
\* committed one after the other and a handler may die anywhere between them, and
\* anywhere else but in a run that has not come to a review; and as long as none has
\* died at all, a brief is never without its signature, except for one that the
\* round limit let through.
THEOREM SignatureMatchesBrief == Spec => []SignatureAndBriefAgree
<1>1. Spec => []SInv
  BY InitSInv, StepSInv, PTL DEF Spec
<1>2. SInv => SignatureAndBriefAgree
  <2> SUFFICES ASSUME SInv, AuthOn, Undisturbed, ~AckInFlight, row # None
               PROVE  LET signed == row.ack_inputs_hash
                          report == ckpt.values.report
                      IN  /\ ~cutShort /\ signed # None => report = [by |-> "model", of |-> signed]
                          /\ failures = 0 /\ report.by = "model" /\ report.of \notin waived =>
                                 signed = report.of
    BY DEF SignatureAndBriefAgree
  <2>1. ~cutShort => Agree
    <3>1. Calm <=> ~cutShort
      BY PlannedOnceIsOnePlan DEF SInv, Calm, Undisturbed
    <3>2. \A a \in Acks : pc[a] # "sign"
      BY DEF AckInFlight
    <3> QED
      BY <3>1, <3>2 DEF SInv, CalmInv
  <2>2. failures = 0 => ~cutShort
    BY DEF SInv
  <2> QED
    BY <2>1, <2>2 DEF Agree
<1> QED
  BY <1>1, <1>2, PTL
================================================================================
