------------------------------ MODULE MCSortie -------------------------------
(* An instance of Sortie small enough for TLC. *)
EXTENDS Sortie, TLC

\* Air thins by 96 thousandths in a kilometre, which the curve does close to the ground.
MCDensityCurve(altitude) == 1000 - (96 * altitude) \div 1000

\* Newton's root of n, from 1000, close to which it is asked for.
NewtonRoot(n) ==
    LET s1 == (1000 + n \div 1000) \div 2
        s2 == (s1 + n \div s1) \div 2
    IN  (s2 + n \div s2) \div 2

MCMomentumFactor(mass, density) == (mass * NewtonRoot((1000000 \div density) * mass)) \div 1000

MCHeights == {500 * k : k \in -4..6} \cup Flown
MCRatios == {700 + 50 * k : k \in 0..14} \cup {AirDensityRatio(h) : h \in MCHeights}

Row(after, rise, power, speed, phase) ==
    [after |-> after, rise |-> rise, power |-> power, speed |-> speed, phase |-> phase]

\* Level and hovering, with a gust; climbing, labelled and not; in cruise; with a
\* clock that has not moved; and without a figure.
MCRecordedRows ==
    {Row(1, 0, 180, 0, "unknown"), Row(1, 4, 190, NoValue, "hover"),
     Row(1, 30, 240, 0, "unknown"), Row(1, 30, 240, 0, "climb"),
     Row(1, 0, 150, 60, "unknown"),
     Row(0, 30, 240, 0, "hover"), Row(1, 0, NoValue, 0, "unknown")}

Sheet(source) == [source |-> source, confidence |-> "high"]

MCBundled ==
    [weight |-> 1500, max_payload |-> 500, battery |-> 48, max_wind |-> 100,
     cruise_speed |-> 120, hover_power |-> 200, cruise_power |-> 160,
     max_temp |-> 45, min_temp |-> -10, pack_min |-> 10,
     provenance |-> "aircraft.hover_power_w" :> Sheet("estimate")
         @@ "aircraft.cruise_power_w" :> [source |-> "flight_log", confidence |-> "medium"]
         @@ [f \in {"aircraft.weight_kg", "aircraft.max_payload_kg", "aircraft.max_wind_mps",
                    "aircraft.cruise_speed_mps", "aircraft.max_temp_c", "aircraft.min_temp_c",
                    "aircraft.battery_wh"} |-> Sheet("datasheet")]]

Camera(weight, power, source) ==
    [weight |-> weight, power |-> power,
     provenance |-> [f \in {"payload.weight_kg", "payload.power_draw_w"} |-> Sheet(source)]]

MCPayloads == {Camera(0, 0, "datasheet"), Camera(300, 10, "datasheet"), Camera(600, 10, "secondary")}

MCMissions == {[distance |-> d, hover_time |-> 220, altitude |-> 50, elevation |-> 0] : d \in {3000, 6000}}

Reading(temp, wind, gust, live) ==
    [temp |-> temp, wind |-> wind, gust |-> gust, live |-> live, degraded |-> ~live]

MCConditions == {Reading(25, 0, 0, TRUE), Reading(25, 40, 120, TRUE), Reading(5, 20, 40, FALSE),
                 Reading(35, 120, 120, TRUE)}

Report(soc, leg, hover, oat, wind, payload_attached, age) ==
    [soc |-> soc, leg |-> leg, hover |-> hover, oat |-> oat, wind |-> wind,
     payload_attached |-> payload_attached, age |-> age]

\* Reports that confirm a brief, reports from further along and in worse wind, and
\* reports in which something is missing, late, cold or not as briefed.
MCSnapshots ==
    {Report(100, leg, hover, 25, wind, attached, -5) :
        leg \in {3000, 6000}, hover \in {220, 300}, wind \in {0, 40}, attached \in BOOLEAN}
    \cup {Report(soc, leg, 220, 25, wind, TRUE, 0) :
        soc \in {30, 60}, leg \in {3000, 6000}, wind \in {0, 130}}
    \cup {Report(soc, 3000, 220, 25, None, FALSE, 31) : soc \in {30, 60, 100}}
    \cup {Report(soc, 3000, 220, 5, 20, TRUE, age) : soc \in {30, 100}, age \in {0, 31}}
=============================================================================
