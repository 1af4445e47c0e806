---------------------------- MODULE MCWeatherCache ----------------------------
(* An instance of WeatherCache small enough for TLC. *)
EXTENDS WeatherCache

CONSTANTS f1, f2

\* Both fetches are of the first cell; a row that cannot be read stands behind it.
MCCellOf == [f \in {f1, f2} |-> 1]
=============================================================================
