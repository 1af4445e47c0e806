---------------------------- MODULE EnergyBudget -----------------------------
(***************************************************************************)
(* calculations/physics.py and calculations/battery.py in whole numbers:   *)
(*                                                                         *)
(*   metres, seconds, grams, degrees C, tenths of m/s; watts as given and  *)
(*   hundredths of a watt once scaled; the Wh of a pack as given and       *)
(*   hundredths of a Wh once computed; ratios in thousandths               *)
(*                                                                         *)
(* The two curves that are not rational, air density over altitude and the *)
(* power law of momentum theory, are constants of which only what the      *)
(* budget rests on is assumed.                                             *)
(***************************************************************************)
EXTENDS Integers

CONSTANTS
    DensityCurve(_),        \* (1 - 2.25577e-5 h)^4.25588, in thousandths
    MomentumFactor(_, _),   \* mass^1.5 / density^0.5, of thousandths
    Heights,                \* altitudes up to the tropopause and
    Ratios                  \* ratios, at which the assumption is evaluated

\* The curve is one of the troposphere, and has run out at 1 / 2.25577e-5 m.
Tropopause == 11000
CurveEnd == 44330

ASSUME CurvesAssumption ==
    /\ \A h \in Heights : h \in Int /\ h <= Tropopause
    /\ \A h \in Heights : DensityCurve(h) \in Nat \ {0}
    /\ \A h, k \in Heights : (h <= k) => (DensityCurve(h) >= DensityCurve(k))
    /\ Ratios \subseteq Int
    /\ \A m, d \in Ratios : MomentumFactor(m, d) \in Nat
    /\ \A m, n, d \in Ratios : (m <= n) => (MomentumFactor(m, d) <= MomentumFactor(n, d))
    /\ \A m, d, e \in Ratios : (d >= e) => (MomentumFactor(m, d) <= MomentumFactor(m, e))
    /\ 1000 \in Ratios
    /\ MomentumFactor(1000, 1000) = 1000

\* Rounding of n / d to a whole number, of halves away from below.
RoundDiv(n, d) == (2 * n + d) \div (2 * d)

-----------------------------------------------------------------------------
(* Physics *)

\* 36.21 m for each degree above the standard temperature of the altitude; the
\* standard lapse to the operating height cancels out of the difference.
DensityAltitude(elevation, temp, agl) ==
    elevation + agl + RoundDiv(3621 * (100 * (temp - 15) + RoundDiv(65 * elevation, 100)), 10000)

\* Well above the tropopause this is less than the hundredth it ends in, and nothing
\* once rounded.
AirDensityRatio(altitude) ==
    IF altitude > CurveEnd THEN 10
    ELSE IF DensityCurve(altitude) > 1500 THEN 1500 ELSE DensityCurve(altitude)

ScalePower(base, mass_ratio, density_ratio) ==
    IF mass_ratio <= 0 \/ density_ratio <= 0
    THEN 100 * base
    ELSE RoundDiv(base * MomentumFactor(mass_ratio, density_ratio), 10)

\* The whole leg is flown into the wind.
GroundSpeed(cruise_speed, wind) == cruise_speed - wind

EnergyRequired(distance, hover_time, ground_speed, hover_power, cruise_power, payload_power) ==
    LET hover == (hover_power + payload_power) * hover_time
        cruise == IF ground_speed > 0
                  THEN (10 * distance * (cruise_power + payload_power)) \div ground_speed
                  ELSE 0
    IN  RoundDiv(hover + cruise, 3600)

ClimbEnergy(height, mass, hover_power, payload_power, vertical_speed, efficiency) ==
    IF height <= 0 \/ vertical_speed <= 0 \/ efficiency <= 0
    THEN 0
    ELSE RoundDiv(RoundDiv(10 * height * (hover_power + payload_power), vertical_speed)
                      + RoundDiv(981 * mass * height, 10 * efficiency), 3600)

DescentEnergy(height, hover_power, payload_power, vertical_speed) ==
    IF height <= 0 \/ vertical_speed <= 0
    THEN 0
    ELSE RoundDiv(RoundDiv(10 * height * (hover_power + payload_power), vertical_speed), 3600)

-----------------------------------------------------------------------------
(* Battery *)

\* 65 % at -10 C and below, all of it from 20 C up, and linear in between.
CapacityFactor(temp) ==
    IF temp >= 20 THEN 1000
    ELSE IF temp <= -10 THEN 650
    ELSE 650 + RoundDiv(350 * (temp + 10), 30)

\* Charge of a pack in hundredths of Wh, times ten: the code rounds it later.
Charge(battery, temp) == battery * CapacityFactor(temp)

\* Mutant: the reserve may be flown as well.
CheckBatteryWithReserve(required, battery, reserve, temp) ==
    LET usable == Charge(battery, temp) * 100
    IN  [usable |-> RoundDiv(usable, 1000),
         margin |-> RoundDiv(usable - 1000 * required, 1000),
         is_viable |-> usable >= 1000 * required]

\* is_viable is decided before anything is rounded.
CheckBattery(required, battery, reserve, temp) ==
    LET usable == Charge(battery, temp) * (100 - reserve)
    IN  [usable |-> RoundDiv(usable, 1000),
         margin |-> RoundDiv(usable - 1000 * required, 1000),
         is_viable |-> usable >= 1000 * required]
=============================================================================
