------------------------------- MODULE Sortie --------------------------------
(***************************************************************************)
(* The numbers an operator flies by, from the log that measured them to    *)
(* the advice given in the air: a file is recorded and uploaded with       *)
(* apply=true, one mission is planned, edited at its review and flown, and *)
(* the aircraft reports snapshots while it is.                             *)
(*                                                                         *)
(* Who may do which of these when, and on which thread, is the subject of  *)
(* PlanService, MissionThreads and ReferenceData; here the steps follow    *)
(* one another and what matters is what is computed.  A briefed mission is *)
(* [aircraft, payload, params, weather, assessment], where aircraft and    *)
(* payload carry their provenance.                                         *)
(***************************************************************************)
EXTENDS ReplanEvaluation, FlightLogEstimate

CONSTANTS
    RecordedRows,       \* what a recorder may write: [after, rise, power, speed, phase]
    MaxRows,            \* bound: rows of a file
    MinApplySamples,    \* MIN_APPLY_SAMPLES
    Bundled,            \* the aircraft as seeded
    Payloads,
    Missions,           \* params that may be asked for
    Altitudes,          \* values an edit may give
    HoverTimes,
    Conditions,         \* weather readings
    Snapshots

ASSUME SortieAssumption ==
    /\ RecordedRows \subseteq [after : Nat, rise : Int, power : Nat \cup {NoValue},
                               speed : Nat \cup {NoValue}, phase : Phases]
    /\ MinApplySamples \in Nat /\ MinApplySamples >= 3
    /\ MaxRows \in Nat
    /\ None \notin Payloads \cup Missions \cup Conditions \cup Snapshots
    /\ "provenance" \in DOMAIN Bundled
    /\ \A record \in {Bundled} \cup Payloads : WellSourced(record.provenance)

\* What the schemas let through: bounds of the fields that are reckoned with.
ASSUME SchemaAssumption ==
    /\ {"weight", "battery", "cruise_speed", "hover_power", "cruise_power",
        "max_payload", "max_wind"} \subseteq DOMAIN Bundled
    /\ {Bundled.weight, Bundled.battery, Bundled.cruise_speed,
        Bundled.hover_power, Bundled.cruise_power} \subseteq Nat \ {0}
    /\ {Bundled.max_payload, Bundled.max_wind} \subseteq Nat
    /\ \A payload \in Payloads : payload.weight \in Nat /\ payload.power \in Nat
    /\ Missions \subseteq [distance : Nat, hover_time : Nat, altitude : Nat, elevation : Int]
    /\ Altitudes \subseteq Nat /\ HoverTimes \subseteq Nat
    /\ Conditions \subseteq [temp : Int, wind : Nat, gust : Nat, live : BOOLEAN, degraded : BOOLEAN]
    /\ Snapshots \subseteq [soc : 0..100, leg : Nat, hover : Nat, oat : Int, wind : Nat \cup {None},
                            payload_attached : BOOLEAN, age : Int]

\* The density altitudes that a mission of this instance is computed at.
Flown ==
    {DensityAltitude(params.elevation, weather.temp, altitude) :
        params \in Missions, weather \in Conditions,
        altitude \in Altitudes \cup {mission.altitude : mission \in Missions}}

MassRatio(payload) == RoundDiv(1000 * (Bundled.weight + payload.weight), Bundled.weight)

\* What is assumed of the curves is assumed wherever they are evaluated.
ASSUME RangeAssumption ==
    /\ Flown \subseteq Heights
    /\ \A h \in Heights : AirDensityRatio(h) \in Ratios
    /\ \A payload \in Payloads : MassRatio(payload) \in Ratios

VARIABLES
    log,            \* the file that is being recorded, or was uploaded last
    aircraft,       \* the row of the airframe
    briefed,        \* the mission of the thread, or None
    flown,          \* the last snapshot that was replanned on, or None
    replan          \* what its answer was

vars == <<log, aircraft, briefed, flown, replan>>

-----------------------------------------------------------------------------
(* The log *)

\* The recorder (external) writes rows in the order of its clock.
NextRow(recorded) ==
    LET last == CHOOSE s \in log : s.row = Cardinality(log)
    IN  [row |-> Cardinality(log) + 1,
         t |-> IF log = {} THEN 0 ELSE last.t + recorded.after,
         alt |-> (IF log = {} THEN 0 ELSE last.alt) + recorded.rise,
         power |-> recorded.power, speed |-> recorded.speed, phase |-> recorded.phase]

RecordRow ==
    /\ briefed = None /\ aircraft = Bundled /\ Cardinality(log) < MaxRows
    /\ \E recorded \in RecordedRows : log' = log \cup {NextRow(recorded)}
    /\ UNCHANGED <<aircraft, briefed, flown, replan>>

Usable(estimate) == estimate.samples >= MinApplySamples

\* A power figure of the row, and its record, from an estimate that is good enough.
\* Medians are kept to the watt.
Applied(row, figure, path, estimate) ==
    IF ~Usable(estimate)
    THEN row
    ELSE [row EXCEPT ![figure] = RoundDiv(estimate.twice_w, 2),
                     !.provenance = [f \in DOMAIN @ \cup {path} |->
                         IF f = path
                         THEN [source |-> "flight_log", confidence |-> estimate.confidence]
                         ELSE @[f]]]

\* A file no row of which parses is refused, which leaves the aircraft alone as well.
UploadLog ==
    /\ briefed = None /\ aircraft = Bundled /\ log # {}
    /\ aircraft' = Applied(Applied(aircraft, "hover_power", "aircraft.hover_power_w",
                                   EstimateHoverPower(log)),
                           "cruise_power", "aircraft.cruise_power_w",
                           EstimateCruisePower(log))
    /\ log' = {}
    /\ UNCHANGED <<briefed, flown, replan>>

-----------------------------------------------------------------------------
(* The mission *)

Provenance(row, payload) ==
    [f \in DOMAIN row.provenance \cup DOMAIN payload.provenance |->
        IF f \in DOMAIN row.provenance THEN row.provenance[f] ELSE payload.provenance[f]]

Briefed(row, payload, params, weather) ==
    [aircraft |-> row, payload |-> payload, params |-> params, weather |-> weather,
     assessment |-> BuildAssessment(row, payload, params, weather,
                                    Provenance(row, payload), "operational")]

\* A thread of its own, of which nothing has been flown.  A file in the making has
\* no part in it, and is uploaded first to bound the states.
Plan ==
    /\ briefed = None /\ log = {}
    /\ \E payload \in Payloads, params \in Missions, weather \in Conditions :
          briefed' = Briefed(aircraft, payload, params, weather)
    /\ flown' = None /\ replan' = None
    /\ UNCHANGED <<log, aircraft>>

\* An edit of altitude or hover time goes back to the calculation; the aircraft,
\* the payload and the weather are those in the state.
Edit ==
    /\ briefed # None
    /\ \E altitude \in Altitudes, hover_time \in HoverTimes :
          briefed' = Briefed(briefed.aircraft, briefed.payload,
                             [briefed.params EXCEPT !.altitude = altitude,
                                                    !.hover_time = hover_time],
                             briefed.weather)
    /\ UNCHANGED <<log, aircraft, flown, replan>>

\* A replan is answered whatever became of the review.
Replan ==
    /\ briefed # None
    /\ \E snapshot \in Snapshots :
          /\ flown' = Normalised(snapshot)
          /\ replan' = Replanned(briefed.aircraft, briefed.payload, snapshot)
    /\ UNCHANGED <<log, aircraft, briefed>>

Init ==
    /\ log = {}
    /\ aircraft = Bundled
    /\ briefed = None
    /\ flown = None
    /\ replan = None

Next == RecordRow \/ UploadLog \/ Plan \/ Edit \/ Replan

Spec == Init /\ [][Next]_vars

-----------------------------------------------------------------------------
(* Properties *)

\* Nothing about this mission asks for less than that one did.
AsksForMore(later, earlier) ==
    /\ [later EXCEPT !.params = earlier.params, !.assessment = earlier.assessment] = earlier
    /\ later.params.distance = earlier.params.distance
    /\ later.params.elevation = earlier.params.elevation
    /\ later.params.altitude >= earlier.params.altitude
    /\ later.params.hover_time >= earlier.params.hover_time

\* Nothing about this snapshot is better than it was in that one.  Charge counts in
\* each temperature by itself, because the reserve shrinks in the cold as well.
AtLeastAsBad(later, earlier) ==
    /\ later.soc <= earlier.soc /\ later.leg >= earlier.leg /\ later.hover >= earlier.hover
    /\ later.oat = earlier.oat
    /\ later.wind # None /\ earlier.wind # None /\ later.wind >= earlier.wind
    /\ later.payload_attached = earlier.payload_attached
    /\ later.age >= earlier.age

\* Asking for more never turns a NO_GO into a GO, although an edit changes the air the
\* whole mission is flown in, and an aircraft that reports nothing better than before
\* is never given milder advice, although the reserve, the need and the charge are
\* three figures that are rounded apart (calculate node, evaluate_replan).
NeverMilder ==
    [][/\ (/\ briefed # None /\ AsksForMore(briefed', briefed)
           /\ briefed.assessment.decision = "NO_GO")
              => briefed'.assessment.decision = "NO_GO"
       /\ (briefed # None /\ flown # None /\ briefed' = briefed /\ AtLeastAsBad(flown', flown))
              => /\ RankIn(ActionOrder, replan'.recommended_action)
                        >= RankIn(ActionOrder, replan.recommended_action)
                 /\ RankIn(SeverityOrder, replan'.severity)
                        >= RankIn(SeverityOrder, replan.severity)]_vars

\* Matching ranks of the two scales an answer is graded on.
SameRank(answer) ==
    RankIn(SeverityOrder, answer.severity) = RankIn(ActionOrder, answer.recommended_action)

\* What is said of one thing in two places agrees: the severity and the action of a
\* replan, which are maxima taken apart; being operational and having no alert
\* outstanding; the decision that is sealed and the viability that is reported, which
\* read different lists of flags; and no figure is labelled fit for operation while
\* the gate refuses the powers it was computed from.
OneVoice ==
    /\ replan # None =>
          /\ SameRank(replan)
          /\ replan.operational_ok <=> replan.severity = "info"
    /\ briefed # None =>
          LET assessment == briefed.assessment
              labels == assessment.labels
          IN  /\ assessment.is_viable <=> assessment.decision = "GO"
              /\ (\A figure \in DOMAIN labels : labels[figure].operational_grade)
                    => "POWER_NOT_OPERATIONAL_GRADE" \notin assessment.blockers
              /\ \A figure \in DOMAIN labels :
                    labels[figure].operational_grade
                        <=> labels[figure].source \in OperationalSources

\* The snapshot says of the mission what the brief said of it, with a full battery.
AtLaunch(snapshot, mission) ==
    /\ snapshot.soc = 100
    /\ snapshot.leg = mission.params.distance
    /\ snapshot.hover = mission.params.hover_time
    /\ snapshot.oat = mission.weather.temp
    /\ snapshot.wind = mission.weather.wind
    /\ snapshot.payload_attached = (mission.payload.weight > 0)

\* Two budgets of one flight, made by two functions from different premises, do not
\* contradict each other: an aircraft that was sent off with a GO is not ordered to
\* land by the first snapshot that confirms its brief.  That is so in air no denser
\* than the reference, and but for the hundredths that rounding can cost.
BriefAndReplanAgree ==
    (/\ briefed # None /\ flown # None
     /\ replan = Replanned(briefed.aircraft, briefed.payload, flown)
     /\ briefed.assessment.decision = "GO"
     /\ briefed.assessment.calculations.density <= 1000
     /\ briefed.assessment.calculations.battery.margin >= 3
     /\ AtLaunch(flown, briefed))
        => replan.recommended_action # "land_now"

\* The row with a figure that comes before it in the file.
RowBefore(file, s) ==
    {p \in ParseFlightLog(file) :
        p.row < s.row /\ \A q \in ParseFlightLog(file) : q.row < s.row => q.row <= p.row}

\* The clock moved since the row before it, and the height was held.
Level(file, s) ==
    \E p \in RowBefore(file, s) :
        p.t < s.t /\ s.alt - p.alt \in -5 * (s.t - p.t)..5 * (s.t - p.t)

\* Rows of whose climb nothing is known: the first, and those the clock stood still for.
Untold(file) == {s \in ParseFlightLog(file) : \A p \in RowBefore(file, s) : s.t <= p.t}

\* A power that goes by the name of hover lies between two that were drawn in level
\* flight: labels are not believed where they contradict the altitude, and rows whose
\* climb rate is taken to be zero because it cannot be told, as that of the first is
\* and that of every row with the time of the row before it, do not move the median
\* as long as they are fewer than half of the samples (select_hover_samples and
\* climb_rates_mps).
HoverFigureIsOfHover ==
    LET estimate == EstimateHoverPower(log)
    IN  2 * Cardinality(Untold(log)) < estimate.samples =>
            \E s, r \in ParseFlightLog(log) :
                /\ Level(log, s) /\ Level(log, r)
                /\ 2 * s.power <= estimate.twice_w
                /\ estimate.twice_w <= 2 * r.power
=============================================================================
