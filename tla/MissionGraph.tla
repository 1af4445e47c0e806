---------------------------- MODULE MissionGraph ----------------------------
(***************************************************************************)
(* The planning graph of graph/workflow.py: the values its nodes write     *)
(* and the edges between them, as operators on one MissionState.           *)
(*                                                                         *)
(*   validate -> weather -> calculations -> cite_limits -> human_ack       *)
(*      |                        ^                          |  |           *)
(*      +------> report          +---------- edit ----------+  +-> report  *)
(*                                                                         *)
(* Numbers and prose are abstracted to what they were computed from: an    *)
(* assessment is the record of its inputs, which is also its inputs_hash,  *)
(* and a report is who wrote it and the assessment it describes.           *)
(***************************************************************************)
EXTENDS Naturals

CONSTANTS
    None,              \* Python's None, and a key absent from MissionState
    AircraftIds,       \* ids a request may name
    KnownAircraft,     \* those with a row in the aircraft table
    PayloadIds,
    KnownPayloads,
    NoPayload,         \* the bundled payload row with id "None"
    MissionParams,     \* mission geometry together with the requested mode
    Weathers,          \* readings the weather service may return
    FlyableWeathers,   \* those in which the mission is viable
    MaxAckRounds       \* MAX_ACK_ROUNDS

ASSUME ConstantsAssumption ==
    /\ KnownAircraft \subseteq AircraftIds
    /\ KnownPayloads \subseteq PayloadIds
    /\ FlyableWeathers \subseteq Weathers
    /\ MaxAckRounds \in Nat
    /\ None \notin AircraftIds \cup PayloadIds \cup {NoPayload}
                     \cup MissionParams \cup Weathers

Nodes == {"validate", "weather", "calculations", "cite_limits", "human_ack", "report"}

\* Where a checkpoint says the run goes next; "end" is an empty snapshot.next.
Targets == Nodes \cup {"end"}

Actions == {"confirm", "edit", "abort"}

-----------------------------------------------------------------------------
(* Values *)

Maybe(S) == S \cup {None}

Assessments ==
    [decision : {"assessed", "insufficient_data"},
     aircraft : Maybe(AircraftIds),
     payload : Maybe(PayloadIds \cup {NoPayload}),
     mission_params : Maybe(MissionParams),
     weather : Maybe(Weathers)]

Reports ==
    [by : {"none", "invalid_aircraft", "validation_failed", "operator_abort", "model"},
     of : Maybe(Assessments)]

Text(by) == [by |-> by, of |-> None]
NoReport == Text("none")

MissionState ==
    [aircraft_id : Maybe(AircraftIds),
     payload_id : Maybe(PayloadIds),
     mission_params : Maybe(MissionParams),
     aircraft : Maybe(AircraftIds),
     payload : Maybe(PayloadIds \cup {NoPayload}),
     weather : Maybe(Weathers),
     calculations : Maybe(Assessments),
     assessment : Maybe(Assessments),
     ack_action : Maybe(Actions),
     ack_rounds : 0 .. MaxAckRounds,
     aborted : BOOLEAN,
     is_viable : BOOLEAN,
     report : Reports]

\* The channels of a thread nobody has planned on.
NoValues ==
    [aircraft_id |-> None, payload_id |-> None, mission_params |-> None,
     aircraft |-> None, payload |-> None, weather |-> None,
     calculations |-> None, assessment |-> None,
     ack_action |-> None, ack_rounds |-> 0, aborted |-> FALSE,
     is_viable |-> FALSE, report |-> NoReport]

MissionRequests ==
    [aircraft_id : AircraftIds, payload_id : PayloadIds, mission_params : MissionParams]

\* What a review offers to change: altitude and hover time, and the payload id.
MissionEdits ==
    [mission_params : Maybe(MissionParams), payload_id : Maybe(PayloadIds)]

NoEdits == [mission_params |-> None, payload_id |-> None]

-----------------------------------------------------------------------------
(* Nodes *)

\* Mutant: a new plan clears the report and nothing else.
WithInputClearsReport(s, request) ==
    [s EXCEPT !.aircraft_id = request.aircraft_id,
              !.payload_id = request.payload_id,
              !.mission_params = request.mission_params,
              !.is_viable = TRUE,
              !.report = NoReport]

\* The input plan_mission hands to the graph overwrites the channels it names;
\* LangGraph keeps every other channel of an existing thread.
WithInput(s, request) ==
    [s EXCEPT !.aircraft_id = request.aircraft_id,
              !.payload_id = request.payload_id,
              !.mission_params = request.mission_params,
              !.is_viable = TRUE]

\* insufficient_data_assessment over the ids that could not be resolved.
InsufficientData(s) ==
    [decision |-> "insufficient_data", aircraft |-> s.aircraft_id,
     payload |-> s.payload_id, mission_params |-> s.mission_params, weather |-> None]

ResolvePayload(id) == IF id \in KnownPayloads THEN id ELSE NoPayload

ValidateInputs(s) ==
    IF s.aircraft_id \notin KnownAircraft
    THEN [s EXCEPT !.assessment = InsufficientData(s),
                   !.is_viable = FALSE,
                   !.report = Text("invalid_aircraft")]
    ELSE [s EXCEPT !.aircraft = s.aircraft_id,
                   !.payload = ResolvePayload(s.payload_id),
                   !.is_viable = TRUE]

FetchWeather(s, reading) == [s EXCEPT !.weather = reading]

\* build_assessment over the inputs whose hash it seals. The payload is the
\* resolved one in the state, not the one payload_id names.
Assess(s) ==
    [decision |-> "assessed", aircraft |-> s.aircraft, payload |-> s.payload,
     mission_params |-> s.mission_params, weather |-> s.weather]

Calculate(s) ==
    [s EXCEPT !.calculations = Assess(s),
              !.assessment = Assess(s),
              !.is_viable = s.weather \in FlyableWeathers]

\* Writes citations and citation_status only, which no edge reads.
CiteLimits(s) == s

ApplyEdits(s, edits) ==
    [s EXCEPT !.mission_params = IF edits.mission_params = None THEN @ ELSE edits.mission_params,
              !.payload_id = IF edits.payload_id = None THEN @ ELSE edits.payload_id]

AtRoundLimit(s) == s.ack_rounds >= MaxAckRounds

\* human_ack past the round limit: it confirms by itself.
ProceedAtLimit(s) == [s EXCEPT !.ack_action = "confirm"]

\* Mutant: an edit that starts counting again.
TakeResponseFreeEdits(s, action, edits) ==
    LET reviewed == [s EXCEPT !.ack_action = action, !.ack_rounds = 0]
    IN  CASE action = "confirm" -> reviewed
          [] action = "edit"    -> ApplyEdits(reviewed, edits)
          [] action = "abort"   -> [reviewed EXCEPT !.aborted = TRUE,
                                                    !.report = Text("operator_abort")]

\* human_ack when interrupt() returned the operator's response.
TakeResponse(s, action, edits) ==
    LET reviewed == [s EXCEPT !.ack_action = action, !.ack_rounds = @ + 1]
    IN  CASE action = "confirm" -> reviewed
          [] action = "edit"    -> ApplyEdits(reviewed, edits)
          [] action = "abort"   -> [reviewed EXCEPT !.aborted = TRUE,
                                                    !.report = Text("operator_abort")]

HasReport(s) == s.report # NoReport
NothingToAssess(s) == s.calculations = None \/ s.aircraft = None

\* The report node asks the language model exactly here. A brief it fails to
\* write, or that the vetting replaces, is a text about the same assessment.
AsksModel(s) == ~HasReport(s) /\ ~NothingToAssess(s)

GenerateReport(s) ==
    CASE HasReport(s)                          -> s
      [] ~HasReport(s) /\ NothingToAssess(s)   -> [s EXCEPT !.report = Text("validation_failed")]
      [] AsksModel(s)                          -> [s EXCEPT !.report = [by |-> "model", of |-> s.assessment]]

-----------------------------------------------------------------------------
(* Edges *)

RouteAfterValidation(s) == IF s.is_viable THEN "weather" ELSE "report"

\* Mutant: an edit goes straight to the report.
RouteAfterAckEditToReport(s) ==
    IF s.ack_action = "abort" THEN "end" ELSE "report"

RouteAfterAck(s) ==
    CASE s.ack_action = "edit"  -> "calculations"
      [] s.ack_action = "abort" -> "end"
      [] OTHER                  -> "report"
=============================================================================
