--------------------------- MODULE ReplanEvaluation ---------------------------
(***************************************************************************)
(* calculations/replan.py, schemas/alerts.py and the nodes of              *)
(* graph/replan.py: what an operator is told when an aircraft in the air   *)
(* reports a snapshot                                                      *)
(*                                                                         *)
(*   [soc, leg, hover, oat, wind, payload_attached, age]                   *)
(*                                                                         *)
(* with the state of charge in percent and the age in seconds.             *)
(***************************************************************************)
EXTENDS MissionAssessment

MaxOperationalSnapshotAge == 30

\* Nothing here is scaled for mass, air or wind: reference power at airspeed.
LiveEnergy(aircraft, payload, snapshot) ==
    LET charge == Charge(aircraft.battery, snapshot.oat)
        draw == IF snapshot.payload_attached THEN 100 * payload.power ELSE 0
        required == EnergyRequired(snapshot.leg, snapshot.hover, aircraft.cruise_speed,
                                   100 * aircraft.hover_power, 100 * aircraft.cruise_power, draw)
    IN  [available |-> RoundDiv(charge * snapshot.soc, 1000),
         reserve |-> RoundDiv(charge * Reserve, 1000),
         required |-> required,
         residual |-> RoundDiv(charge * snapshot.soc - 1000 * required, 1000)]

BelowReserve(live) == live.residual < live.reserve

\* NEAR_RESERVE_MULTIPLE is one and a half.
NearReserve(live) == 2 * live.residual < 3 * live.reserve

-----------------------------------------------------------------------------
(* Alerts *)

Alert(severity, code, action) == [severity |-> severity, code |-> code, action |-> action]

EnergyAlert(live) ==
    CASE BelowReserve(live) -> {Alert("abort", "ENERGY_BELOW_RESERVE", "land_now")}
      [] ~BelowReserve(live) /\ NearReserve(live) ->
            {Alert("warning", "ENERGY_NEAR_RESERVE", "land_soon")}
      [] ~BelowReserve(live) /\ ~NearReserve(live) -> {}

WindAlert(aircraft, snapshot) ==
    IF snapshot.wind = None
    THEN {Alert("watch", "WEATHER_DEGRADED", "advisory_only")}
    ELSE IF snapshot.wind > aircraft.max_wind
         THEN {Alert("abort", "WIND_EXCEEDS_LIMIT", "land_now")}
         ELSE {}

StalenessAlert(snapshot) ==
    IF snapshot.age <= MaxOperationalSnapshotAge
    THEN {}
    ELSE {Alert("watch", "SOC_STALE", "advisory_only")}

PayloadAlert(payload, snapshot) ==
    IF (payload.weight > 0) = snapshot.payload_attached
    THEN {}
    ELSE {Alert("watch", "PAYLOAD_MISMATCH", "advisory_only")}

\* Mutant: a stale snapshot is not evaluated any further.
EvaluateFreshOnly(aircraft, payload, snapshot) ==
    IF StalenessAlert(snapshot) # {}
    THEN StalenessAlert(snapshot)
    ELSE EnergyAlert(LiveEnergy(aircraft, payload, snapshot))
         \cup WindAlert(aircraft, snapshot)
         \cup PayloadAlert(payload, snapshot)

EvaluateReplan(aircraft, payload, snapshot) ==
    EnergyAlert(LiveEnergy(aircraft, payload, snapshot))
    \cup WindAlert(aircraft, snapshot)
    \cup StalenessAlert(snapshot)
    \cup PayloadAlert(payload, snapshot)

\* Each list is worst last; the two maxima are taken apart from one another.
SeverityOrder == <<"info", "watch", "warning", "abort">>
ActionOrder == <<"continue", "advisory_only", "land_soon", "land_now">>

RankIn(order, value) == CHOOSE i \in DOMAIN order : order[i] = value

WorstIn(order, values) == order[CHOOSE i \in DOMAIN order :
    /\ i = 1 \/ order[i] \in values
    /\ \A v \in values : RankIn(order, v) <= i]

WorstSeverity(alerts) == WorstIn(SeverityOrder, {a.severity : a \in alerts})

StrongestAction(alerts) == WorstIn(ActionOrder, {a.action : a \in alerts})

\* The age of a snapshot from the future is zero.
Normalised(snapshot) == [snapshot EXCEPT !.age = IF @ < 0 THEN 0 ELSE @]

\* The replan graph, from ingest_telemetry to alert.
Replanned(aircraft, payload, snapshot) ==
    LET alerts == EvaluateReplan(aircraft, payload, Normalised(snapshot))
    IN  [alerts |-> alerts,
         live_energy |-> LiveEnergy(aircraft, payload, Normalised(snapshot)),
         severity |-> WorstSeverity(alerts),
         recommended_action |-> StrongestAction(alerts),
         operational_ok |-> alerts = {}]
=============================================================================
