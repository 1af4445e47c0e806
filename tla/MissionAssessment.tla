-------------------------- MODULE MissionAssessment --------------------------
(***************************************************************************)
(* calculations/assessment.py, gate.py and number_provenance.py: a mission *)
(* is budgeted, held against the limits of the airframe, decided, graded,  *)
(* and its figures are labelled with where their inputs came from.         *)
(*                                                                         *)
(*   aircraft  [weight, max_payload, battery, max_wind, cruise_speed,      *)
(*              hover_power, cruise_power, max_temp, min_temp, pack_min]   *)
(*   payload   [weight, power]                                             *)
(*   params    [distance, hover_time, altitude, elevation]                 *)
(*   weather   [temp, wind, gust, live, degraded]                          *)
(*                                                                         *)
(* Provenance maps "aircraft.x" and "payload.x" to [source, confidence].   *)
(***************************************************************************)
EXTENDS EnergyBudget, FiniteSets

CONSTANTS
    None,
    Reserve,            \* battery_reserve_percent
    VerticalSpeed,      \* vertical_speed_mps, in tenths
    ClimbEfficiency     \* climb_efficiency, in percent

ASSUME SettingsAssumption ==
    /\ Reserve \in 0..99
    /\ VerticalSpeed \in Nat \ {0}
    /\ ClimbEfficiency \in 1..100

-----------------------------------------------------------------------------
(* assess_mission *)

SafetyFlags(battery_viable, payload_margin, ground_speed, weather, aircraft) ==
    [battery_viable |-> battery_viable,
     payload_within_limits |-> payload_margin >= 0,
     wind_within_limits |-> weather.wind <= aircraft.max_wind,
     gust_within_limits |-> weather.gust <= aircraft.max_wind,
     temperature_within_limits |-> weather.temp \in aircraft.min_temp..aircraft.max_temp,
     pack_temp_within_takeoff_limits |->
         aircraft.pack_min = None \/ weather.temp >= aircraft.pack_min,
     cruise_achievable |-> ground_speed > 0]

EnergyBreakdown(payload, params, hover_power, cruise_power, ground_speed, mass) ==
    LET draw == 100 * payload.power
    IN  [climb |-> ClimbEnergy(params.altitude, mass, hover_power, draw, VerticalSpeed, ClimbEfficiency),
         descent |-> DescentEnergy(params.altitude, hover_power, draw, VerticalSpeed),
         hover |-> EnergyRequired(0, params.hover_time, ground_speed, hover_power, cruise_power, draw),
         cruise |-> EnergyRequired(params.distance, 0, ground_speed, hover_power, cruise_power, draw)]

AssessMission(aircraft, payload, params, weather) ==
    LET altitude == DensityAltitude(params.elevation, weather.temp, params.altitude)
        density == AirDensityRatio(altitude)
        mass == aircraft.weight + payload.weight
        mass_ratio == RoundDiv(1000 * mass, aircraft.weight)
        hover_power == ScalePower(aircraft.hover_power, mass_ratio, density)
        cruise_power == ScalePower(aircraft.cruise_power, mass_ratio, density)
        ground_speed == GroundSpeed(aircraft.cruise_speed, weather.wind)
        payload_margin == RoundDiv(aircraft.max_payload - payload.weight, 10)   \* to 10 g
        e == EnergyBreakdown(payload, params, hover_power, cruise_power, ground_speed, mass)
        required == e.climb + e.cruise + e.hover + e.descent
        battery == CheckBattery(required, aircraft.battery, Reserve, weather.temp)
    IN  [density |-> density,
         required |-> required,
         battery |-> battery,
         flags |-> SafetyFlags(battery.is_viable, payload_margin, ground_speed,
                               weather, aircraft)]

\* Mutant: the flag that was added last is not on the list.
IsMissionViableOldFlags(calculations) ==
    \A name \in DOMAIN calculations.flags \ {"pack_temp_within_takeoff_limits"} :
        calculations.flags[name]

\* The list of flags that the report and the routes go by.
IsMissionViable(calculations) ==
    LET flags == calculations.flags
    IN  /\ flags.battery_viable
        /\ flags.payload_within_limits
        /\ flags.wind_within_limits
        /\ flags.gust_within_limits
        /\ flags.temperature_within_limits
        /\ flags.pack_temp_within_takeoff_limits
        /\ flags.cruise_achievable

\* The decision that is sealed goes by whatever flags there are.
Decide(calculations) ==
    IF \E name \in DOMAIN calculations.flags : ~calculations.flags[name]
    THEN "NO_GO"
    ELSE "GO"

-----------------------------------------------------------------------------
(* The gate *)

OperationalSources == {"datasheet", "flight_log"}

PowerFields ==
    {"aircraft.hover_power_w", "aircraft.cruise_power_w", "aircraft.battery_wh",
     "payload.power_draw_w"}

RequiredProvenance ==
    PowerFields \cup
    {"aircraft.weight_kg", "aircraft.max_payload_kg", "aircraft.max_wind_mps",
     "aircraft.cruise_speed_mps", "aircraft.max_temp_c", "aircraft.min_temp_c",
     "payload.weight_kg"}

ProvenanceIsComplete(provenance) == RequiredProvenance \subseteq DOMAIN provenance

PowerIsOperationalGrade(provenance) ==
    \A f \in PowerFields :
        f \in DOMAIN provenance /\ provenance[f].source \in OperationalSources

\* No Blue List snapshot is stored, so its blocker always stands.
OperationalBlockers(weather, provenance, quarantined) ==
    {b \in {"WEATHER_NOT_LIVE"} : ~weather.live}
    \cup {b \in {"WEATHER_DEGRADED"} : weather.degraded}
    \cup {b \in {"PROVENANCE_INCOMPLETE"} : ~ProvenanceIsComplete(provenance)}
    \cup {b \in {"POWER_NOT_OPERATIONAL_GRADE"} : ~PowerIsOperationalGrade(provenance)}
    \cup {b \in {"CORPUS_QUARANTINED"} : quarantined}
    \cup {"BLUE_LIST_SNAPSHOT_UNAVAILABLE"}

ResolveMode(requested, blockers) ==
    IF requested = "operational" /\ blockers = {} THEN "operational" ELSE "advisory"

-----------------------------------------------------------------------------
(* Labels of the figures *)

HoverInputs == {"aircraft.hover_power_w", "aircraft.weight_kg", "payload.weight_kg"}
PhaseInputs == HoverInputs \cup {"payload.power_draw_w"}
CruiseInputs ==
    {"aircraft.cruise_power_w", "aircraft.cruise_speed_mps", "aircraft.weight_kg",
     "payload.power_draw_w", "payload.weight_kg"}
TotalInputs == PhaseInputs \cup CruiseInputs

FigureInputs ==
    [effective_hover_power |-> HoverInputs, climb |-> PhaseInputs, hover |-> PhaseInputs,
     descent |-> PhaseInputs, cruise |-> CruiseInputs, total |-> TotalInputs,
     usable_capacity |-> {"aircraft.battery_wh"},
     margin |-> TotalInputs \cup {"aircraft.battery_wh"}]

\* Weakest first.
SourceRank == <<"unknown", "estimate", "derived", "secondary", "flight_log", "datasheet">>
ConfidenceRank == <<"low", "medium", "high">>

\* What a record of a source or of a confidence may say.
WellSourced(provenance) ==
    \A path \in DOMAIN provenance :
        /\ \E i \in DOMAIN SourceRank : provenance[path].source = SourceRank[i]
        /\ \E i \in DOMAIN ConfidenceRank : provenance[path].confidence = ConfidenceRank[i]

Weakest(rank, values) ==
    rank[CHOOSE i \in DOMAIN rank :
            rank[i] \in values /\ \A j \in DOMAIN rank : (rank[j] \in values) => (i <= j)]

Record(provenance, path) ==
    IF path \in DOMAIN provenance
    THEN provenance[path]
    ELSE [source |-> "unknown", confidence |-> "low"]

NumberProvenance(provenance) ==
    [figure \in DOMAIN FigureInputs |->
        LET records == {Record(provenance, path) : path \in FigureInputs[figure]}
        IN  [source |-> Weakest(SourceRank, {r.source : r \in records}),
             confidence |-> Weakest(ConfidenceRank, {r.confidence : r \in records}),
             operational_grade |-> \A r \in records : r.source \in OperationalSources]]

\* build_assessment, beside the calculations it was built from.
BuildAssessment(aircraft, payload, params, weather, provenance, requested) ==
    LET calculations == AssessMission(aircraft, payload, params, weather)
        blockers == OperationalBlockers(weather, provenance, FALSE)
    IN  [decision |-> Decide(calculations),
         is_viable |-> IsMissionViable(calculations),
         blockers |-> blockers,
         mode |-> ResolveMode(requested, blockers),
         labels |-> NumberProvenance(provenance),
         calculations |-> calculations]
=============================================================================
