-------------------------- MODULE FlightLogEstimate ---------------------------
(***************************************************************************)
(* calculations/from_log.py and flight_log_import.py: the power figure     *)
(* that an uploaded log is worth.  A file is a set of rows                 *)
(*                                                                         *)
(*   [row, t, alt, power, speed, phase]                                    *)
(*                                                                         *)
(* numbered as they stand in it, with t in seconds, alt in tenths of a     *)
(* metre, speed in tenths of m/s or None, and power, which may come from   *)
(* volts and amps, in watts; None where a row has no power figure at all.  *)
(***************************************************************************)
EXTENDS Integers, FiniteSets

CONSTANTS
    NoValue,            \* an empty cell
    HighMinSamples,     \* _HIGH_MIN_SAMPLES
    MediumMinSamples    \* _MEDIUM_MIN_SAMPLES

\* The rest of the phases a label may be read as is "unknown".
Phases == {"hover", "climb", "cruise", "descent", "unknown"}

\* Rows without a usable figure are counted and left out, and the rest sorted by
\* time, which keeps rows of one time in the order of the file.
ParseFlightLog(file) == {s \in file : s.power # NoValue}

Before(a, b) == a.t < b.t \/ (a.t = b.t /\ a.row < b.row)

-----------------------------------------------------------------------------
(* Selection *)

Previous(samples, s) ==
    {p \in samples : Before(p, s) /\ \A q \in samples : Before(q, s) => ~Before(p, q)}

\* The climb rate since the sample before, held against a limit in tenths of m/s;
\* the rate of the first sample, and of one no later than the last, is zero.
ClimbsAtMost(samples, s, limit) ==
    \A p \in Previous(samples, s) :
        \/ s.t <= p.t
        \/ (s.alt - p.alt) \in -limit * (s.t - p.t)..limit * (s.t - p.t)

\* Mutant: the label is believed.
SelectHoverByLabel(samples) ==
    {s \in samples : /\ s.phase \notin {"climb", "descent", "cruise"}
                     /\ s.speed = NoValue \/ s.speed <= 15}

SelectHoverSamples(samples) ==
    {s \in samples : /\ s.phase \notin {"climb", "descent", "cruise"}
                     /\ ClimbsAtMost(samples, s, 5)
                     /\ s.speed = NoValue \/ s.speed <= 15}

SelectCruiseSamples(samples) ==
    {s \in samples : /\ s.phase \notin {"climb", "descent", "hover"}
                     /\ s.speed # NoValue
                     /\ s.speed >= 30
                     /\ ClimbsAtMost(samples, s, 10)}

-----------------------------------------------------------------------------
(* Statistics, of twice the watts so that a mean of two stays whole *)

\* The i-th smallest power.
Ordered(samples, i) ==
    (CHOOSE s \in samples :
        i = Cardinality({r \in samples : r.power < s.power
                            \/ (r.power = s.power /\ r.row <= s.row)})).power

\* Twice the median of the samples ranked first to last.
MedianOf(samples, first, last) ==
    Ordered(samples, (first + last) \div 2) + Ordered(samples, (first + last + 1) \div 2)

InterquartileRange(samples) ==
    LET n == Cardinality(samples)
        half == n \div 2
    IN  IF n < 4 THEN 0 ELSE MedianOf(samples, n - half + 1, n) - MedianOf(samples, 1, half)

\* At most so many hundredths of spread; a centre of nothing has a spread of one.
SpreadAtMost(iqr, centre, hundredths) == centre > 0 /\ 100 * iqr <= hundredths * centre

Confidence(n, iqr, centre) ==
    CASE n >= HighMinSamples /\ SpreadAtMost(iqr, centre, 15) -> "high"
      [] ~(n >= HighMinSamples /\ SpreadAtMost(iqr, centre, 15))
            /\ n >= MediumMinSamples /\ SpreadAtMost(iqr, centre, 30) -> "medium"
      [] OTHER -> "low"

NoEstimate == [twice_w |-> 0, samples |-> 0, confidence |-> "low"]

EstimatePower(samples) ==
    LET n == Cardinality(samples)
        centre == MedianOf(samples, 1, n)
    IN  IF samples = {}
        THEN NoEstimate
        ELSE [twice_w |-> centre, samples |-> n,
              confidence |-> Confidence(n, InterquartileRange(samples), centre)]

EstimateHoverPower(file) == EstimatePower(SelectHoverSamples(ParseFlightLog(file)))

EstimateCruisePower(file) == EstimatePower(SelectCruiseSamples(ParseFlightLog(file)))
=============================================================================
