---------------------------- MODULE SortieProofs -----------------------------
(***************************************************************************)
(* What Sortie promises, for any aircraft, payload, weather, log and       *)
(* snapshot, and whatever the curves are: what is said of one thing in two *)
(* places agrees, a hover figure is one of hover, a brief is not taken     *)
(* back by the snapshot that confirms it, and nothing gets milder.         *)
(***************************************************************************)
EXTENDS Sortie, FunctionTheorems, FiniteSetTheorems, TLAPS

-----------------------------------------------------------------------------
(* The alerts *)

\* Everything an evaluation may raise.  In each the two scales agree.
Alerts ==
    {Alert("abort", "ENERGY_BELOW_RESERVE", "land_now"),
     Alert("warning", "ENERGY_NEAR_RESERVE", "land_soon"),
     Alert("watch", "WEATHER_DEGRADED", "advisory_only"),
     Alert("abort", "WIND_EXCEEDS_LIMIT", "land_now"),
     Alert("watch", "SOC_STALE", "advisory_only"),
     Alert("watch", "PAYLOAD_MISMATCH", "advisory_only")}

LEMMA EvaluationRaisesAlerts ==
    ASSUME NEW craft, NEW payload, NEW snapshot
    PROVE  EvaluateReplan(craft, payload, snapshot) \subseteq Alerts
<1>1. EnergyAlert(LiveEnergy(craft, payload, snapshot)) \subseteq Alerts
  BY DEF EnergyAlert, Alerts
<1>2. WindAlert(craft, snapshot) \subseteq Alerts
  BY DEF WindAlert, Alerts
<1>3. StalenessAlert(snapshot) \subseteq Alerts
  BY DEF StalenessAlert, Alerts
<1>4. PayloadAlert(payload, snapshot) \subseteq Alerts
  BY DEF PayloadAlert, Alerts
<1> QED BY <1>1, <1>2, <1>3, <1>4 DEF EvaluateReplan

\* The rank of a value is its place.
LEMMA Ranks ==
    /\ DOMAIN SeverityOrder = 1..4 /\ DOMAIN ActionOrder = 1..4
    /\ \A i \in 1..4 : RankIn(SeverityOrder, SeverityOrder[i]) = i
    /\ \A i \in 1..4 : RankIn(ActionOrder, ActionOrder[i]) = i
<1>1. DOMAIN SeverityOrder = 1..4 /\ DOMAIN ActionOrder = 1..4
  BY DEF SeverityOrder, ActionOrder
<1>2. \A i, j \in 1..4 : (SeverityOrder[i] = SeverityOrder[j]) => (i = j)
  BY DEF SeverityOrder
<1>3. \A i, j \in 1..4 : (ActionOrder[i] = ActionOrder[j]) => (i = j)
  BY DEF ActionOrder
<1> QED BY <1>1, <1>2, <1>3 DEF RankIn

\* At each rank there is a severity exactly if there is an action.
LEMMA SameRanksRaised ==
    ASSUME NEW alerts \in SUBSET Alerts, NEW i \in 1..4
    PROVE  /\ SeverityOrder[i] \in {a.severity : a \in alerts}
                  <=> ActionOrder[i] \in {a.action : a \in alerts}
           /\ i = 1 => SeverityOrder[i] \notin {a.severity : a \in alerts}
           /\ \A v \in {a.severity : a \in alerts} : \E j \in 2..4 : v = SeverityOrder[j]
           /\ \A v \in {a.action : a \in alerts} : \E j \in 2..4 : v = ActionOrder[j]
<1>1. \A a \in Alerts : \E j \in 2..4 : a.severity = SeverityOrder[j] /\ a.action = ActionOrder[j]
  BY DEF Alerts, Alert, SeverityOrder, ActionOrder
<1>2. \A j, k \in 1..4 : (SeverityOrder[j] = SeverityOrder[k]) => (j = k)
  BY DEF SeverityOrder
<1>3. \A j, k \in 1..4 : (ActionOrder[j] = ActionOrder[k]) => (j = k)
  BY DEF ActionOrder
<1> QED BY <1>1, <1>2, <1>3

\* WorstIn is what stands at the highest rank there is, or at the first.
LEMMA WorstIsHighest ==
    ASSUME NEW order, DOMAIN order = 1..4,
           \A i \in 1..4 : RankIn(order, order[i]) = i,
           NEW values, \A v \in values : \E j \in 2..4 : v = order[j]
    PROVE  \E m \in 1..4 :
              /\ WorstIn(order, values) = order[m]
              /\ m = 1 <=> values = {}
              /\ m # 1 => order[m] \in values
              /\ \A j \in 2..4 : order[j] \in values => j <= m
<1> DEFINE Worst(i) == /\ i = 1 \/ order[i] \in values
                       /\ \A v \in values : RankIn(order, v) <= i
<1>1. \E i \in 1..4 : Worst(i)
  <2>1. CASE order[4] \in values
    BY <2>1
  <2>2. CASE order[4] \notin values /\ order[3] \in values
    <3>1. \A v \in values : \E j \in 2..3 : v = order[j]
      BY <2>2
    <3> QED BY <2>2, <3>1
  <2>3. CASE order[4] \notin values /\ order[3] \notin values /\ order[2] \in values
    <3>1. \A v \in values : v = order[2]
      BY <2>3
    <3> QED BY <2>3, <3>1
  <2>4. CASE order[4] \notin values /\ order[3] \notin values /\ order[2] \notin values
    <3>1. values = {}
      BY <2>4
    <3> QED BY <3>1
  <2> QED BY <2>1, <2>2, <2>3, <2>4
<1> DEFINE m == CHOOSE i \in 1..4 : Worst(i)
<1>2. m \in 1..4 /\ Worst(m)
  BY <1>1
<1>3. WorstIn(order, values) = order[m]
  BY DEF WorstIn
<1> HIDE DEF m
<1>4. \A j \in 2..4 : order[j] \in values => j <= m
  BY <1>2
<1> QED BY <1>2, <1>3, <1>4

\* The two maxima are of one rank, and there is none of either without an alert.
LEMMA MaximaAgree ==
    ASSUME NEW alerts \in SUBSET Alerts
    PROVE  /\ RankIn(SeverityOrder, WorstSeverity(alerts)) = RankIn(ActionOrder, StrongestAction(alerts))
           /\ alerts = {} <=> WorstSeverity(alerts) = "info"
<1> DEFINE severities == {a.severity : a \in alerts}
           actions == {a.action : a \in alerts}
<1>1. /\ \A v \in severities : \E j \in 2..4 : v = SeverityOrder[j]
      /\ \A v \in actions : \E j \in 2..4 : v = ActionOrder[j]
      /\ \A i \in 1..4 : SeverityOrder[i] \in severities <=> ActionOrder[i] \in actions
  BY SameRanksRaised
<1>2. PICK s \in 1..4 :
          /\ WorstSeverity(alerts) = SeverityOrder[s]
          /\ s = 1 <=> severities = {}
          /\ s # 1 => SeverityOrder[s] \in severities
          /\ \A j \in 2..4 : SeverityOrder[j] \in severities => j <= s
  BY <1>1, Ranks, WorstIsHighest DEF WorstSeverity
<1>3. PICK t \in 1..4 :
          /\ StrongestAction(alerts) = ActionOrder[t]
          /\ t = 1 <=> actions = {}
          /\ t # 1 => ActionOrder[t] \in actions
          /\ \A j \in 2..4 : ActionOrder[j] \in actions => j <= t
  BY <1>1, Ranks, WorstIsHighest DEF StrongestAction
<1>4. s = t
  <2>1. severities = {} <=> actions = {}
    OBVIOUS
  <2> HIDE DEF severities, actions
  <2> QED BY <1>1, <1>2, <1>3, <2>1
<1>5. SeverityOrder[s] = "info" <=> s = 1
  BY DEF SeverityOrder
<1> QED BY <1>2, <1>3, <1>4, <1>5, Ranks

-----------------------------------------------------------------------------
(* The decision *)

\* The report's list of flags is the flags there are.
LEMMA ViableIsGo ==
    ASSUME NEW calculations, NEW viable, NEW margin, NEW speed, NEW weather, NEW craft,
           calculations.flags = SafetyFlags(viable, margin, speed, weather, craft)
    PROVE  IsMissionViable(calculations) <=> Decide(calculations) = "GO"
<1>1. DOMAIN calculations.flags =
          {"battery_viable", "payload_within_limits", "wind_within_limits", "gust_within_limits",
           "temperature_within_limits", "pack_temp_within_takeoff_limits", "cruise_achievable"}
  BY DEF SafetyFlags
<1>2. Decide(calculations) = "GO"
          <=> \A name \in DOMAIN calculations.flags : calculations.flags[name]
  BY DEF Decide
<1>3. IsMissionViable(calculations)
          <=> \A name \in {"battery_viable", "payload_within_limits", "wind_within_limits",
                           "gust_within_limits", "temperature_within_limits",
                           "pack_temp_within_takeoff_limits", "cruise_achievable"} :
                  calculations.flags[name]
  BY DEF IsMissionViable
<1> QED BY <1>1, <1>2, <1>3

-----------------------------------------------------------------------------
(* The labels *)

LEMMA Places ==
    /\ DOMAIN SourceRank = 1..6
    /\ SourceRank[1] = "unknown" /\ SourceRank[2] = "estimate" /\ SourceRank[3] = "derived"
    /\ SourceRank[4] = "secondary" /\ SourceRank[5] = "flight_log" /\ SourceRank[6] = "datasheet"
BY DEF SourceRank

\* Of places there is a first, where any is taken.
LEMMA FirstPlace ==
    ASSUME NEW places \in SUBSET (1..6), places # {}
    PROVE  \E i \in places : \A j \in places : i <= j
<1>1. CASE 1 \in places
  BY <1>1
<1>2. CASE 1 \notin places /\ 2 \in places
  BY <1>2
<1>3. CASE 1 \notin places /\ 2 \notin places /\ 3 \in places
  BY <1>3
<1>4. CASE 1 \notin places /\ 2 \notin places /\ 3 \notin places /\ 4 \in places
  BY <1>4
<1>5. CASE /\ 1 \notin places /\ 2 \notin places /\ 3 \notin places /\ 4 \notin places
           /\ 5 \in places
  BY <1>5
<1>6. CASE /\ 1 \notin places /\ 2 \notin places /\ 3 \notin places /\ 4 \notin places
           /\ 5 \notin places
  <2>1. \A j \in places : j = 6
    BY <1>6
  <2>2. PICK j : j \in places
    OBVIOUS
  <2>3. j \in places /\ j = 6
    BY <2>1, <2>2
  <2> QED BY <2>1, <2>3
<1> QED BY <1>1, <1>2, <1>3, <1>4, <1>5, <1>6

\* The weakest source is one of those there are, and no weaker one is among them.
LEMMA WeakestSource ==
    ASSUME NEW values, values # {}, \A v \in values : \E i \in 1..6 : v = SourceRank[i]
    PROVE  \E k \in 1..6 :
              /\ Weakest(SourceRank, values) = SourceRank[k]
              /\ SourceRank[k] \in values
              /\ \A j \in 1..6 : SourceRank[j] \in values => k <= j
<1> DEFINE places == {i \in 1..6 : SourceRank[i] \in values}
           First(i) == SourceRank[i] \in values /\ \A j \in 1..6 : SourceRank[j] \in values => i <= j
           k == CHOOSE i \in 1..6 : First(i)
<1>1. PICK i \in places : \A j \in places : i <= j
  <2>1. places # {} /\ places \subseteq 1..6
    OBVIOUS
  <2> HIDE DEF places
  <2> QED BY <2>1, FirstPlace
<1>2. \E h \in 1..6 : First(h)
  <2>1. i \in 1..6 /\ SourceRank[i] \in values
    OBVIOUS
  <2>2. \A j \in 1..6 : SourceRank[j] \in values => i <= j
    BY <1>1
  <2> QED BY <2>1, <2>2
<1>3. k \in 1..6 /\ First(k)
  BY <1>2
<1>4. Weakest(SourceRank, values) = SourceRank[k]
  BY Places DEF Weakest
<1> HIDE DEF k
<1> QED BY <1>3, <1>4

\* A figure is fit for operation exactly if its label is.
LEMMA LabelIsWeakest ==
    ASSUME NEW sources, sources # {}, \A v \in sources : \E i \in 1..6 : v = SourceRank[i]
    PROVE  (\A v \in sources : v \in OperationalSources)
                <=> Weakest(SourceRank, sources) \in OperationalSources
<1>1. PICK k \in 1..6 :
          /\ Weakest(SourceRank, sources) = SourceRank[k]
          /\ SourceRank[k] \in sources
          /\ \A j \in 1..6 : SourceRank[j] \in sources => k <= j
  BY WeakestSource
<1>2. \A i \in 1..6 : SourceRank[i] \in OperationalSources <=> i >= 5
  BY Places DEF OperationalSources
<1> QED BY <1>1, <1>2

\* A record, that of a missing one included, is of a source there is.
LEMMA RecordsAreSourced ==
    ASSUME NEW provenance, WellSourced(provenance), NEW path
    PROVE  /\ \E i \in 1..6 : Record(provenance, path).source = SourceRank[i]
           /\ Record(provenance, path).source \in OperationalSources =>
                  path \in DOMAIN provenance /\ provenance[path] = Record(provenance, path)
BY Places DEF Record, WellSourced, OperationalSources

LEMMA FiguresHaveInputs ==
    /\ DOMAIN FigureInputs = {"effective_hover_power", "climb", "hover", "descent", "cruise",
                              "total", "usable_capacity", "margin"}
    /\ \A figure \in DOMAIN FigureInputs : FigureInputs[figure] # {}
    /\ \A path \in PowerFields : \E figure \in DOMAIN FigureInputs : path \in FigureInputs[figure]
<1>1. DOMAIN FigureInputs = {"effective_hover_power", "climb", "hover", "descent", "cruise",
                             "total", "usable_capacity", "margin"}
  BY DEF FigureInputs
<1>2. /\ "aircraft.hover_power_w" \in FigureInputs["effective_hover_power"]
      /\ "payload.power_draw_w" \in FigureInputs["climb"]
      /\ "payload.power_draw_w" \in FigureInputs["hover"]
      /\ "payload.power_draw_w" \in FigureInputs["descent"]
      /\ "aircraft.cruise_power_w" \in FigureInputs["cruise"]
      /\ "payload.power_draw_w" \in FigureInputs["total"]
      /\ "aircraft.battery_wh" \in FigureInputs["usable_capacity"]
      /\ "aircraft.battery_wh" \in FigureInputs["margin"]
  BY DEF FigureInputs, HoverInputs, PhaseInputs, CruiseInputs, TotalInputs
<1> QED BY <1>1, <1>2 DEF PowerFields

LEMMA LabelsAgree ==
    ASSUME NEW provenance, WellSourced(provenance)
    PROVE  LET labels == NumberProvenance(provenance)
           IN  /\ (\A figure \in DOMAIN labels : labels[figure].operational_grade)
                      => PowerIsOperationalGrade(provenance)
               /\ \A figure \in DOMAIN labels :
                      labels[figure].operational_grade
                          <=> labels[figure].source \in OperationalSources
<1> DEFINE labels == NumberProvenance(provenance)
           records(figure) == {Record(provenance, path) : path \in FigureInputs[figure]}
<1>1. /\ DOMAIN labels = DOMAIN FigureInputs
      /\ \A figure \in DOMAIN FigureInputs :
            /\ labels[figure].source = Weakest(SourceRank, {r.source : r \in records(figure)})
            /\ labels[figure].operational_grade
                  <=> \A r \in records(figure) : r.source \in OperationalSources
  BY DEF NumberProvenance
<1>2. ASSUME NEW figure \in DOMAIN FigureInputs
      PROVE  (\A r \in records(figure) : r.source \in OperationalSources)
                  <=> Weakest(SourceRank, {r.source : r \in records(figure)}) \in OperationalSources
  <2> DEFINE sources == {r.source : r \in records(figure)}
  <2>1. sources # {}
    <3>1. PICK path : path \in FigureInputs[figure]
      BY FiguresHaveInputs
    <3>2. Record(provenance, path).source \in sources
      BY <3>1
    <3> QED BY <3>2
  <2>2. ASSUME NEW v \in sources PROVE \E i \in 1..6 : v = SourceRank[i]
    <3>1. PICK path \in FigureInputs[figure] : v = Record(provenance, path).source
      OBVIOUS
    <3> QED BY <3>1, RecordsAreSourced
  <2>3. (\A v \in sources : v \in OperationalSources)
            <=> Weakest(SourceRank, sources) \in OperationalSources
    <3> HIDE DEF sources
    <3> QED BY <2>1, <2>2, LabelIsWeakest
  <2> QED BY <2>3
<1>3. ASSUME \A figure \in DOMAIN labels : labels[figure].operational_grade
      PROVE  PowerIsOperationalGrade(provenance)
  <2> SUFFICES ASSUME NEW path \in PowerFields
               PROVE  path \in DOMAIN provenance /\ provenance[path].source \in OperationalSources
    BY DEF PowerIsOperationalGrade
  <2>1. PICK figure \in DOMAIN FigureInputs : path \in FigureInputs[figure]
    BY FiguresHaveInputs
  <2>2. Record(provenance, path).source \in OperationalSources
    BY <1>1, <1>3, <2>1
  <2> QED BY <2>2, RecordsAreSourced
<1> HIDE DEF labels, records
<1> QED BY <1>1, <1>2, <1>3 DEF labels

-----------------------------------------------------------------------------
(* Whole numbers *)

\* A quotient, times the divisor, is short of the dividend by less than the divisor.
LEMMA DivBounds ==
    ASSUME NEW n \in Int, NEW d \in Nat \ {0}
    PROVE  /\ n \div d \in Int
           /\ d * (n \div d) <= n
           /\ n < d * (n \div d) + d
OBVIOUS

LEMMA ProductKeepsOrder ==
    ASSUME NEW m \in Int, NEW n \in Int, NEW k \in Nat, m <= n
    PROVE  k * m <= k * n
OBVIOUS

LEMMA DivKeepsOrder ==
    ASSUME NEW m \in Int, NEW n \in Int, NEW d \in Nat \ {0}, m <= n
    PROVE  m \div d <= n \div d
<1> DEFINE q == m \div d
           r == n \div d
<1>1. q \in Int /\ r \in Int /\ d * q <= m /\ n < d * r + d
  BY DivBounds
<1> SUFFICES ASSUME r < q PROVE FALSE
  BY <1>1
<1> HIDE DEF q, r
<1>2. d * (r + 1) <= d * q
  BY <1>1, ProductKeepsOrder
<1>3. d * (r + 1) = d * r + d
  BY <1>1
<1> QED BY <1>1, <1>2, <1>3

\* Rounding may lose a difference but never turns it round.
LEMMA RoundKeepsOrder ==
    ASSUME NEW m \in Int, NEW n \in Int, NEW d \in Nat \ {0}, m <= n
    PROVE  RoundDiv(m, d) <= RoundDiv(n, d) /\ RoundDiv(m, d) \in Int
<1>1. 2 * m + d \in Int /\ 2 * n + d \in Int /\ 2 * m + d <= 2 * n + d /\ 2 * d \in Nat \ {0}
  OBVIOUS
<1> QED BY <1>1, DivKeepsOrder, DivBounds DEF RoundDiv

LEMMA RoundNat ==
    ASSUME NEW n \in Nat, NEW d \in Nat \ {0}
    PROVE  RoundDiv(n, d) \in Nat
<1>1. RoundDiv(0, d) <= RoundDiv(n, d) /\ RoundDiv(n, d) \in Int
  BY RoundKeepsOrder
<1>2. RoundDiv(0, d) = 0
  <2>1. d \div (2 * d) = 0
    <3> DEFINE q == d \div (2 * d)
    <3>1. q \in Int /\ (2 * d) * q <= d /\ d < (2 * d) * q + 2 * d
      BY DivBounds
    <3> HIDE DEF q
    <3>2. q <= 0
      <4> SUFFICES ASSUME 1 <= q PROVE FALSE
        BY <3>1
      <4>1. (2 * d) * 1 <= (2 * d) * q
        BY <3>1, ProductKeepsOrder
      <4> QED BY <3>1, <4>1
    <3>3. q >= 0
      <4> SUFFICES ASSUME q <= -1 PROVE FALSE
        BY <3>1
      <4>1. (2 * d) * q <= (2 * d) * (-1)
        BY <3>1, ProductKeepsOrder
      <4> QED BY <3>1, <4>1
    <3> QED BY <3>1, <3>2, <3>3 DEF q
  <2> QED BY <2>1 DEF RoundDiv
<1> QED BY <1>1, <1>2

LEMMA ProductNat ==
    ASSUME NEW m \in Nat, NEW n \in Nat
    PROVE  m * n \in Nat
OBVIOUS

LEMMA ProductsKeepOrder ==
    ASSUME NEW m \in Nat, NEW n \in Nat, NEW j \in Nat, NEW k \in Nat, m <= n, j <= k
    PROVE  m * j <= n * k /\ m * j \in Nat /\ n * k \in Nat
<1>1. m * j <= m * k
  BY ProductKeepsOrder
<1>2. k * m <= k * n
  BY ProductKeepsOrder
<1>3. m * j \in Nat /\ n * k \in Nat /\ m * k \in Nat /\ k * m = m * k /\ k * n = n * k
  BY ProductNat
<1> QED BY <1>1, <1>2, <1>3

LEMMA DivNat ==
    ASSUME NEW n \in Nat, NEW d \in Nat \ {0}
    PROVE  n \div d \in Nat
<1>1. 0 \div d <= n \div d /\ n \div d \in Int
  BY DivKeepsOrder, DivBounds
<1>2. 0 \div d = 0
  OBVIOUS
<1> QED BY <1>1, <1>2

\* A sum that is rounded exceeds the rounded parts by one at most.
LEMMA RoundSum ==
    ASSUME NEW m \in Nat, NEW n \in Nat
    PROVE  RoundDiv(m + n, 3600) <= RoundDiv(m, 3600) + RoundDiv(n, 3600) + 1
BY DEF RoundDiv

-----------------------------------------------------------------------------
(* Asking for more takes more *)

LEMMA CapacityNat ==
    ASSUME NEW temp \in Int
    PROVE  CapacityFactor(temp) \in Nat
<1>1. CASE temp < 20 /\ temp > -10
  <2>1. 350 * (temp + 10) \in Nat
    BY <1>1
  <2>2. RoundDiv(350 * (temp + 10), 30) \in Nat
    BY <2>1, RoundNat
  <2> QED BY <1>1, <2>2 DEF CapacityFactor
<1>2. CASE temp >= 20 \/ temp <= -10
  BY <1>2 DEF CapacityFactor
<1> QED BY <1>1, <1>2

LEMMA ChargeNat ==
    ASSUME NEW battery \in Nat, NEW temp \in Int
    PROVE  Charge(battery, temp) \in Nat
BY CapacityNat, ProductNat DEF Charge

LEMMA RequiredKeepsOrder ==
    ASSUME NEW d \in Nat, NEW e \in Nat, d <= e,
           NEW s \in Nat, NEW t \in Nat, s <= t,
           NEW speed \in Int,
           NEW h \in Nat, NEW i \in Nat, h <= i,
           NEW c \in Nat, NEW k \in Nat, c <= k,
           NEW p \in Nat, NEW q \in Nat, p <= q
    PROVE  /\ EnergyRequired(d, s, speed, h, c, p) <= EnergyRequired(e, t, speed, i, k, q)
           /\ EnergyRequired(d, s, speed, h, c, p) \in Nat
           /\ EnergyRequired(e, t, speed, i, k, q) \in Nat
<1> DEFINE hover == (h + p) * s
           hovers == (i + q) * t
           cruise == IF speed > 0 THEN (10 * d * (c + p)) \div speed ELSE 0
           cruises == IF speed > 0 THEN (10 * e * (k + q)) \div speed ELSE 0
<1>1. hover <= hovers /\ hover \in Nat /\ hovers \in Nat
  <2>1. h + p \in Nat /\ i + q \in Nat /\ h + p <= i + q
    OBVIOUS
  <2> QED BY <2>1, ProductsKeepOrder
<1>2. cruise <= cruises /\ cruise \in Nat /\ cruises \in Nat
  <2>1. /\ c + p \in Nat /\ k + q \in Nat /\ c + p <= k + q
        /\ 10 * d \in Nat /\ 10 * e \in Nat /\ 10 * d <= 10 * e
    OBVIOUS
  <2>2. /\ (10 * d) * (c + p) <= (10 * e) * (k + q)
        /\ (10 * d) * (c + p) \in Nat /\ (10 * e) * (k + q) \in Nat
    BY <2>1, ProductsKeepOrder
  <2> QED BY <2>2, DivKeepsOrder, DivNat
<1>3. /\ EnergyRequired(d, s, speed, h, c, p) = RoundDiv(hover + cruise, 3600)
      /\ EnergyRequired(e, t, speed, i, k, q) = RoundDiv(hovers + cruises, 3600)
  BY DEF EnergyRequired
<1> HIDE DEF hover, hovers, cruise, cruises
<1>4. hover + cruise \in Nat /\ hovers + cruises \in Nat /\ hover + cruise <= hovers + cruises
  BY <1>1, <1>2
<1> QED BY <1>3, <1>4, RoundKeepsOrder, RoundNat

LEMMA DescentKeepsOrder ==
    ASSUME NEW a \in Nat, NEW b \in Nat, a <= b,
           NEW h \in Nat, NEW i \in Nat, h <= i, NEW p \in Nat
    PROVE  /\ DescentEnergy(a, h, p, VerticalSpeed) <= DescentEnergy(b, i, p, VerticalSpeed)
           /\ DescentEnergy(a, h, p, VerticalSpeed) \in Nat
           /\ DescentEnergy(b, i, p, VerticalSpeed) \in Nat
<1> DEFINE work(x, y) == 10 * x * (y + p)
           energy(x, y) == RoundDiv(RoundDiv(work(x, y), VerticalSpeed), 3600)
<1>1. work(a, h) <= work(b, i) /\ work(a, h) \in Nat /\ work(b, i) \in Nat
  <2>1. /\ h + p \in Nat /\ i + p \in Nat /\ h + p <= i + p
        /\ 10 * a \in Nat /\ 10 * b \in Nat /\ 10 * a <= 10 * b
    OBVIOUS
  <2> QED BY <2>1, ProductsKeepOrder
<1>2. VerticalSpeed \in Nat \ {0}
  BY SettingsAssumption
<1> HIDE DEF work
<1>3. /\ RoundDiv(work(a, h), VerticalSpeed) <= RoundDiv(work(b, i), VerticalSpeed)
      /\ RoundDiv(work(a, h), VerticalSpeed) \in Nat /\ RoundDiv(work(b, i), VerticalSpeed) \in Nat
  BY <1>1, <1>2, RoundKeepsOrder, RoundNat
<1>4. energy(a, h) <= energy(b, i) /\ energy(a, h) \in Nat /\ energy(b, i) \in Nat
  BY <1>3, RoundKeepsOrder, RoundNat
<1>5. /\ DescentEnergy(a, h, p, VerticalSpeed) = IF a = 0 THEN 0 ELSE energy(a, h)
      /\ DescentEnergy(b, i, p, VerticalSpeed) = IF b = 0 THEN 0 ELSE energy(b, i)
  BY <1>2 DEF DescentEnergy, work
<1> HIDE DEF energy
<1> QED BY <1>4, <1>5

LEMMA ClimbKeepsOrder ==
    ASSUME NEW a \in Nat, NEW b \in Nat, a <= b, NEW mass \in Nat,
           NEW h \in Nat, NEW i \in Nat, h <= i, NEW p \in Nat
    PROVE  /\ ClimbEnergy(a, mass, h, p, VerticalSpeed, ClimbEfficiency)
                  <= ClimbEnergy(b, mass, i, p, VerticalSpeed, ClimbEfficiency)
           /\ ClimbEnergy(a, mass, h, p, VerticalSpeed, ClimbEfficiency) \in Nat
           /\ ClimbEnergy(b, mass, i, p, VerticalSpeed, ClimbEfficiency) \in Nat
<1> DEFINE work(x, y) == 10 * x * (y + p)
           lift(x) == 981 * mass * x
           slope == 10 * ClimbEfficiency
           sum(x, y) == RoundDiv(work(x, y), VerticalSpeed) + RoundDiv(lift(x), slope)
           energy(x, y) == RoundDiv(sum(x, y), 3600)
<1>1. work(a, h) <= work(b, i) /\ work(a, h) \in Nat /\ work(b, i) \in Nat
  <2>1. /\ h + p \in Nat /\ i + p \in Nat /\ h + p <= i + p
        /\ 10 * a \in Nat /\ 10 * b \in Nat /\ 10 * a <= 10 * b
    OBVIOUS
  <2> QED BY <2>1, ProductsKeepOrder
<1>2. lift(a) <= lift(b) /\ lift(a) \in Nat /\ lift(b) \in Nat
  <2>1. 981 * mass \in Nat /\ 981 * mass <= 981 * mass
    OBVIOUS
  <2> QED BY <2>1, ProductsKeepOrder
<1>3. VerticalSpeed \in Nat \ {0} /\ slope \in Nat \ {0} /\ ClimbEfficiency \in Nat \ {0}
  BY SettingsAssumption
<1> HIDE DEF work, lift, slope
<1>4. /\ RoundDiv(work(a, h), VerticalSpeed) <= RoundDiv(work(b, i), VerticalSpeed)
      /\ RoundDiv(work(a, h), VerticalSpeed) \in Nat /\ RoundDiv(work(b, i), VerticalSpeed) \in Nat
  BY <1>1, <1>3, RoundKeepsOrder, RoundNat
<1>5. /\ RoundDiv(lift(a), slope) <= RoundDiv(lift(b), slope)
      /\ RoundDiv(lift(a), slope) \in Nat /\ RoundDiv(lift(b), slope) \in Nat
  BY <1>2, <1>3, RoundKeepsOrder, RoundNat
<1>6. sum(a, h) <= sum(b, i) /\ sum(a, h) \in Nat /\ sum(b, i) \in Nat
  BY <1>4, <1>5
<1> HIDE DEF sum
<1>7. energy(a, h) <= energy(b, i) /\ energy(a, h) \in Nat /\ energy(b, i) \in Nat
  BY <1>6, RoundKeepsOrder, RoundNat
<1>8. /\ ClimbEnergy(a, mass, h, p, VerticalSpeed, ClimbEfficiency) = IF a = 0 THEN 0 ELSE energy(a, h)
      /\ ClimbEnergy(b, mass, i, p, VerticalSpeed, ClimbEfficiency) = IF b = 0 THEN 0 ELSE energy(b, i)
  BY <1>3 DEF ClimbEnergy, sum, work, lift, slope
<1> HIDE DEF energy
<1> QED BY <1>7, <1>8

\* Higher up the air is no denser, as the budget clips it as well.
LEMMA DensityKeepsOrder ==
    ASSUME NEW h \in Heights, NEW k \in Heights, h <= k
    PROVE  /\ AirDensityRatio(h) >= AirDensityRatio(k)
           /\ AirDensityRatio(h) \in Ratios /\ AirDensityRatio(k) \in Ratios
           /\ AirDensityRatio(h) > 0 /\ AirDensityRatio(k) > 0
<1> DEFINE x == DensityCurve(h)
           y == DensityCurve(k)
           clipped(ratio) == IF ratio > 1500 THEN 1500 ELSE ratio
<1>1. x >= y /\ x \in Nat \ {0} /\ y \in Nat \ {0}
  BY CurvesAssumption
<1>2. AirDensityRatio(h) \in Ratios /\ AirDensityRatio(k) \in Ratios
  BY RangeAssumption
<1>3. AirDensityRatio(h) = clipped(x) /\ AirDensityRatio(k) = clipped(y)
  BY CurvesAssumption DEF AirDensityRatio, CurveEnd, Tropopause
<1> HIDE DEF x, y
<1>4. clipped(x) >= clipped(y) /\ clipped(x) > 0 /\ clipped(y) > 0
  <2>1. CASE x > 1500 /\ y > 1500
    BY <2>1
  <2>2. CASE x > 1500 /\ y <= 1500
    BY <1>1, <2>2
  <2>3. CASE x <= 1500 /\ y <= 1500
    BY <1>1, <2>3
  <2> QED BY <1>1, <2>1, <2>2, <2>3
<1> HIDE DEF clipped
<1>5. /\ AirDensityRatio(h) >= AirDensityRatio(k)
      /\ AirDensityRatio(h) > 0 /\ AirDensityRatio(k) > 0
  BY <1>3, <1>4, Zenon
<1> QED BY <1>2, <1>5

\* In thinner air an aircraft of one mass draws no less.
LEMMA ScaleKeepsOrder ==
    ASSUME NEW base \in Nat, NEW m \in Ratios, m > 0,
           NEW d \in Ratios, NEW e \in Ratios, d >= e, e > 0
    PROVE  /\ ScalePower(base, m, d) <= ScalePower(base, m, e)
           /\ ScalePower(base, m, d) \in Nat /\ ScalePower(base, m, e) \in Nat
<1>1. d \in Int /\ e \in Int /\ m \in Int
  BY CurvesAssumption
<1>2. /\ MomentumFactor(m, d) <= MomentumFactor(m, e)
      /\ MomentumFactor(m, d) \in Nat /\ MomentumFactor(m, e) \in Nat
  BY CurvesAssumption
<1>3. /\ base * MomentumFactor(m, d) <= base * MomentumFactor(m, e)
      /\ base * MomentumFactor(m, d) \in Nat /\ base * MomentumFactor(m, e) \in Nat
  BY <1>2, ProductsKeepOrder
<1>4. /\ ScalePower(base, m, d) = RoundDiv(base * MomentumFactor(m, d), 10)
      /\ ScalePower(base, m, e) = RoundDiv(base * MomentumFactor(m, e), 10)
  BY <1>1 DEF ScalePower
<1> QED BY <1>3, <1>4, RoundKeepsOrder, RoundNat

\* No lighter than empty and in air no denser than the reference, it draws no less
\* than the reference power.
LEMMA ScaleAboveReference ==
    ASSUME NEW base \in Nat, NEW m \in Ratios, m >= 1000, NEW d \in Ratios, d <= 1000, d > 0
    PROVE  100 * base <= ScalePower(base, m, d)
<1>1. d \in Int /\ m \in Int /\ 1000 \in Ratios
  BY CurvesAssumption
<1>2. /\ MomentumFactor(m, 1000) <= MomentumFactor(m, d)
      /\ MomentumFactor(1000, 1000) <= MomentumFactor(m, 1000)
      /\ MomentumFactor(1000, 1000) = 1000
      /\ MomentumFactor(m, 1000) \in Nat /\ MomentumFactor(m, d) \in Nat
  BY <1>1, CurvesAssumption
<1>3. base * 1000 <= base * MomentumFactor(m, d) /\ base * MomentumFactor(m, d) \in Nat
  BY <1>2, ProductsKeepOrder
<1>4. RoundDiv(base * 1000, 10) <= RoundDiv(base * MomentumFactor(m, d), 10)
  BY <1>3, RoundKeepsOrder
<1>5. RoundDiv(base * 1000, 10) = 100 * base
  BY DEF RoundDiv
<1>6. ScalePower(base, m, d) = RoundDiv(base * MomentumFactor(m, d), 10)
  BY <1>1 DEF ScalePower
<1> QED BY <1>4, <1>5, <1>6

-----------------------------------------------------------------------------
(* One assessment *)

\* What an airframe has to have for its budget to be reckoned.
Reckonable(row) ==
    /\ row.weight = Bundled.weight /\ row.battery = Bundled.battery
    /\ row.max_payload = Bundled.max_payload /\ row.max_wind = Bundled.max_wind
    /\ row.cruise_speed = Bundled.cruise_speed
    /\ row.hover_power \in Nat /\ row.cruise_power \in Nat

Ratio(w, p) == RoundDiv(1000 * (w + p), w)

\* With something on board it is no lighter than empty.
LEMMA RatioAboveOne ==
    ASSUME NEW w \in Nat \ {0}, NEW p \in Nat
    PROVE  Ratio(w, p) >= 1000 /\ Ratio(w, p) \in Int
<1> DEFINE n == 2 * (1000 * (w + p)) + w
           q == n \div (2 * w)
<1>1. n \in Int /\ n >= (2 * w) * 1000 + w /\ 2 * w \in Nat \ {0}
  OBVIOUS
<1>2. q \in Int /\ n < (2 * w) * q + 2 * w
  <2> HIDE DEF n
  <2> QED BY <1>1, DivBounds
<1> HIDE DEF n, q
<1>3. q >= 1000
  <2> SUFFICES ASSUME q <= 999 PROVE FALSE
    BY <1>2
  <2>1. (2 * w) * q <= (2 * w) * 999
    BY <1>2, ProductKeepsOrder
  <2>2. (2 * w) * q \in Int /\ (2 * w) * 999 + 2 * w = (2 * w) * 1000
    BY <1>2
  <2> QED BY <1>1, <1>2, <2>1, <2>2
<1> QED BY <1>2, <1>3 DEF n, q, RoundDiv, Ratio

LEMMA MassRatios ==
    ASSUME NEW row, Reckonable(row), NEW payload \in Payloads
    PROVE  /\ RoundDiv(1000 * (row.weight + payload.weight), row.weight) \in Ratios
           /\ RoundDiv(1000 * (row.weight + payload.weight), row.weight) \in Int
           /\ RoundDiv(1000 * (row.weight + payload.weight), row.weight) >= 1000
<1>1. row.weight \in Nat \ {0} /\ payload.weight \in Nat /\ row.weight = Bundled.weight
  BY SchemaAssumption DEF Reckonable
<1>2. RoundDiv(1000 * (row.weight + payload.weight), row.weight) \in Ratios
  BY <1>1, RangeAssumption DEF MassRatio
<1>3. row.weight \in Nat \ {0} /\ payload.weight \in Nat
  BY <1>1
<1>4. Ratio(row.weight, payload.weight) >= 1000 /\ Ratio(row.weight, payload.weight) \in Int
  BY <1>3, RatioAboveOne
<1> QED BY <1>2, <1>4 DEF Ratio

\* The powers, the speed and the parts of the energy of one assessment.
Density(params, weather) ==
    AirDensityRatio(DensityAltitude(params.elevation, weather.temp, params.altitude))

Scaled(base, row, payload, params, weather) ==
    ScalePower(base, RoundDiv(1000 * (row.weight + payload.weight), row.weight),
               Density(params, weather))

Parts(row, payload, params, weather) ==
    EnergyBreakdown(payload, params,
                    Scaled(row.hover_power, row, payload, params, weather),
                    Scaled(row.cruise_power, row, payload, params, weather),
                    GroundSpeed(row.cruise_speed, weather.wind),
                    row.weight + payload.weight)

LEMMA AssessmentFields ==
    ASSUME NEW row, NEW payload, NEW params, NEW weather
    PROVE  LET calculations == AssessMission(row, payload, params, weather)
               e == Parts(row, payload, params, weather)
           IN  /\ calculations.density = Density(params, weather)
               /\ calculations.required = e.climb + e.cruise + e.hover + e.descent
               /\ calculations.battery = CheckBattery(calculations.required, row.battery,
                                                      Reserve, weather.temp)
               /\ calculations.flags =
                      SafetyFlags(calculations.battery.is_viable,
                                  RoundDiv(row.max_payload - payload.weight, 10),
                                  GroundSpeed(row.cruise_speed, weather.wind), weather, row)
<1> DEFINE e == Parts(row, payload, params, weather)
           required == e.climb + e.cruise + e.hover + e.descent
           battery == CheckBattery(required, row.battery, Reserve, weather.temp)
<1>1. AssessMission(row, payload, params, weather) =
          [density |-> Density(params, weather),
           required |-> required,
           battery |-> battery,
           flags |-> SafetyFlags(battery.is_viable,
                                 RoundDiv(row.max_payload - payload.weight, 10),
                                 GroundSpeed(row.cruise_speed, weather.wind), weather, row)]
  BY Zenon DEF AssessMission, Parts, Scaled, Density
<1> HIDE DEF e, required, battery
<1> QED BY <1>1 DEF required, battery, e

\* A mission that may be computed here: as asked for, or as edited.
Params == [distance : Nat, hover_time : Nat, altitude : Nat, elevation : Int]

Possible(params, weather) ==
    /\ params \in Params
    /\ weather \in Conditions
    /\ DensityAltitude(params.elevation, weather.temp, params.altitude) \in Heights

LEMMA ConditionFields ==
    ASSUME NEW weather \in Conditions
    PROVE  weather.temp \in Int /\ weather.wind \in Nat
BY SchemaAssumption

LEMMA DensityAltitudeKeepsOrder ==
    ASSUME NEW elevation \in Int, NEW temp \in Int, NEW a \in Int, NEW b \in Int, a <= b
    PROVE  DensityAltitude(elevation, temp, a) <= DensityAltitude(elevation, temp, b)
<1> DEFINE offset == RoundDiv(3621 * (100 * (temp - 15) + RoundDiv(65 * elevation, 100)), 10000)
<1>1. RoundDiv(65 * elevation, 100) \in Int
  BY RoundKeepsOrder
<1>2. 3621 * (100 * (temp - 15) + RoundDiv(65 * elevation, 100)) \in Int
  BY <1>1
<1>3. offset \in Int
  BY <1>2, RoundKeepsOrder
<1> HIDE DEF offset
<1> QED BY <1>3 DEF DensityAltitude, offset

\* Flown higher and hovering longer, every part takes no less.
LEMMA PartsKeepOrder ==
    ASSUME NEW row, Reckonable(row), NEW payload \in Payloads, NEW weather,
           NEW less, Possible(less, weather), NEW more, Possible(more, weather),
           more.distance = less.distance, more.elevation = less.elevation,
           more.altitude >= less.altitude, more.hover_time >= less.hover_time
    PROVE  LET e == Parts(row, payload, less, weather)
               f == Parts(row, payload, more, weather)
           IN  /\ e.climb \in Nat /\ e.cruise \in Nat /\ e.hover \in Nat /\ e.descent \in Nat
               /\ f.climb \in Nat /\ f.cruise \in Nat /\ f.hover \in Nat /\ f.descent \in Nat
               /\ e.climb <= f.climb /\ e.cruise <= f.cruise
               /\ e.hover <= f.hover /\ e.descent <= f.descent
<1> DEFINE m == RoundDiv(1000 * (row.weight + payload.weight), row.weight)
           d == Density(less, weather)
           dd == Density(more, weather)
           h == Scaled(row.hover_power, row, payload, less, weather)
           hh == Scaled(row.hover_power, row, payload, more, weather)
           c == Scaled(row.cruise_power, row, payload, less, weather)
           cc == Scaled(row.cruise_power, row, payload, more, weather)
           speed == GroundSpeed(row.cruise_speed, weather.wind)
           mass == row.weight + payload.weight
           draw == 100 * payload.power
<1>1. /\ less.altitude \in Nat /\ more.altitude \in Nat /\ less.altitude <= more.altitude
      /\ less.hover_time \in Nat /\ more.hover_time \in Nat /\ less.hover_time <= more.hover_time
      /\ less.distance \in Nat /\ more.distance \in Nat /\ less.distance <= more.distance
      /\ less.elevation \in Int /\ more.elevation = less.elevation
  BY DEF Possible, Params
<1>2. d >= dd /\ d \in Ratios /\ dd \in Ratios /\ dd > 0
  <2>1. weather.temp \in Int
    BY ConditionFields DEF Possible
  <2>2. DensityAltitude(less.elevation, weather.temp, less.altitude)
            <= DensityAltitude(more.elevation, weather.temp, more.altitude)
    BY <1>1, <2>1, DensityAltitudeKeepsOrder
  <2> QED BY <2>2, DensityKeepsOrder DEF Possible, Density
<1>3. m \in Ratios /\ m > 0
  <2>1. m \in Ratios /\ m >= 1000 /\ m \in Int
    BY MassRatios
  <2> HIDE DEF m
  <2> QED BY <2>1
<1>4. row.hover_power \in Nat /\ row.cruise_power \in Nat
  BY DEF Reckonable
<1>5. speed \in Int /\ mass \in Nat /\ draw \in Nat
  <2>1. /\ row.cruise_speed \in Nat /\ row.weight \in Nat /\ weather.wind \in Nat
        /\ payload.weight \in Nat /\ payload.power \in Nat
    BY SchemaAssumption, ConditionFields DEF Reckonable, Possible
  <2> QED BY <2>1 DEF GroundSpeed
<1> HIDE DEF m, d, dd
<1>6. h <= hh /\ h \in Nat /\ hh \in Nat
  BY <1>2, <1>3, <1>4, ScaleKeepsOrder DEF Scaled, m, d, dd
<1>7. c <= cc /\ c \in Nat /\ cc \in Nat
  BY <1>2, <1>3, <1>4, ScaleKeepsOrder DEF Scaled, m, d, dd
<1> HIDE DEF h, hh, c, cc, speed, mass, draw
<1>8. 0 \in Nat /\ 0 <= 0 /\ draw <= draw
  BY <1>5
<1>13. /\ Parts(row, payload, less, weather) =
            [climb |-> ClimbEnergy(less.altitude, mass, h, draw, VerticalSpeed, ClimbEfficiency),
             descent |-> DescentEnergy(less.altitude, h, draw, VerticalSpeed),
             hover |-> EnergyRequired(0, less.hover_time, speed, h, c, draw),
             cruise |-> EnergyRequired(less.distance, 0, speed, h, c, draw)]
      /\ Parts(row, payload, more, weather) =
            [climb |-> ClimbEnergy(more.altitude, mass, hh, draw, VerticalSpeed, ClimbEfficiency),
             descent |-> DescentEnergy(more.altitude, hh, draw, VerticalSpeed),
             hover |-> EnergyRequired(0, more.hover_time, speed, hh, cc, draw),
             cruise |-> EnergyRequired(more.distance, 0, speed, hh, cc, draw)]
  BY DEF Parts, EnergyBreakdown, h, hh, c, cc, speed, mass, draw
<1>9. /\ ClimbEnergy(less.altitude, mass, h, draw, VerticalSpeed, ClimbEfficiency)
            <= ClimbEnergy(more.altitude, mass, hh, draw, VerticalSpeed, ClimbEfficiency)
      /\ ClimbEnergy(less.altitude, mass, h, draw, VerticalSpeed, ClimbEfficiency) \in Nat
      /\ ClimbEnergy(more.altitude, mass, hh, draw, VerticalSpeed, ClimbEfficiency) \in Nat
  BY <1>1, <1>5, <1>6, ClimbKeepsOrder
<1>10. /\ DescentEnergy(less.altitude, h, draw, VerticalSpeed)
             <= DescentEnergy(more.altitude, hh, draw, VerticalSpeed)
       /\ DescentEnergy(less.altitude, h, draw, VerticalSpeed) \in Nat
       /\ DescentEnergy(more.altitude, hh, draw, VerticalSpeed) \in Nat
  BY <1>1, <1>5, <1>6, DescentKeepsOrder
<1>11. /\ EnergyRequired(0, less.hover_time, speed, h, c, draw)
             <= EnergyRequired(0, more.hover_time, speed, hh, cc, draw)
       /\ EnergyRequired(0, less.hover_time, speed, h, c, draw) \in Nat
       /\ EnergyRequired(0, more.hover_time, speed, hh, cc, draw) \in Nat
  BY <1>1, <1>5, <1>6, <1>7, <1>8, RequiredKeepsOrder
<1>12. /\ EnergyRequired(less.distance, 0, speed, h, c, draw)
             <= EnergyRequired(more.distance, 0, speed, hh, cc, draw)
       /\ EnergyRequired(less.distance, 0, speed, h, c, draw) \in Nat
       /\ EnergyRequired(more.distance, 0, speed, hh, cc, draw) \in Nat
  BY <1>1, <1>5, <1>6, <1>7, <1>8, RequiredKeepsOrder
<1> QED BY <1>13, <1>9, <1>10, <1>11, <1>12

\* What was not flown for less is not flown for more.
LEMMA AskingForMore ==
    ASSUME NEW row, Reckonable(row), NEW payload \in Payloads, NEW weather,
           NEW less, Possible(less, weather), NEW more, Possible(more, weather),
           more.distance = less.distance, more.elevation = less.elevation,
           more.altitude >= less.altitude, more.hover_time >= less.hover_time,
           Decide(AssessMission(row, payload, less, weather)) = "NO_GO"
    PROVE  Decide(AssessMission(row, payload, more, weather)) = "NO_GO"
<1> DEFINE x == AssessMission(row, payload, less, weather)
           y == AssessMission(row, payload, more, weather)
           e == Parts(row, payload, less, weather)
           f == Parts(row, payload, more, weather)
           margin == RoundDiv(row.max_payload - payload.weight, 10)
           speed == GroundSpeed(row.cruise_speed, weather.wind)
<1>1. /\ x.required = e.climb + e.cruise + e.hover + e.descent
      /\ y.required = f.climb + f.cruise + f.hover + f.descent
      /\ x.battery = CheckBattery(x.required, row.battery, Reserve, weather.temp)
      /\ y.battery = CheckBattery(y.required, row.battery, Reserve, weather.temp)
      /\ x.flags = SafetyFlags(x.battery.is_viable, margin, speed, weather, row)
      /\ y.flags = SafetyFlags(y.battery.is_viable, margin, speed, weather, row)
  BY AssessmentFields
<1>2. /\ e.climb \in Nat /\ e.cruise \in Nat /\ e.hover \in Nat /\ e.descent \in Nat
      /\ f.climb \in Nat /\ f.cruise \in Nat /\ f.hover \in Nat /\ f.descent \in Nat
      /\ e.climb <= f.climb /\ e.cruise <= f.cruise
      /\ e.hover <= f.hover /\ e.descent <= f.descent
  BY PartsKeepOrder
<1> HIDE DEF x, y, e, f, margin, speed
<1>3. x.required <= y.required /\ x.required \in Nat /\ y.required \in Nat
  BY <1>1, <1>2
<1>4. y.battery.is_viable => x.battery.is_viable
  <2> DEFINE usable == Charge(row.battery, weather.temp) * (100 - Reserve)
  <2>1. usable \in Nat
    <3>1. Charge(row.battery, weather.temp) \in Nat
      BY ChargeNat, ConditionFields, SchemaAssumption DEF Reckonable, Possible
    <3>2. 100 - Reserve \in Nat
      BY SettingsAssumption
    <3> QED BY <3>1, <3>2, ProductNat
  <2> DEFINE enough(required) == usable >= 1000 * required
  <2>2. /\ x.battery.is_viable = enough(x.required)
        /\ y.battery.is_viable = enough(y.required)
    BY <1>1 DEF CheckBattery
  <2> HIDE DEF usable
  <2>3. enough(y.required) => enough(x.required)
    BY <1>3, <2>1
  <2> HIDE DEF enough
  <2> QED BY <2>2, <2>3, Zenon
<1>5. DOMAIN x.flags = DOMAIN y.flags
      /\ \A name \in DOMAIN x.flags : y.flags[name] => x.flags[name]
  BY <1>1, <1>4 DEF SafetyFlags
<1>6. \E name \in DOMAIN x.flags : ~x.flags[name]
  BY DEF Decide, x
<1> QED BY <1>5, <1>6 DEF Decide, y

-----------------------------------------------------------------------------
(* The order of the powers *)

UpTo(samples, s) ==
    {r \in samples : r.power < s.power \/ (r.power = s.power /\ r.row <= s.row)}

Rank(samples, s) == Cardinality(UpTo(samples, s))

\* Samples with figures, told apart by where they stand.
Ranked(samples) ==
    /\ IsFiniteSet(samples)
    /\ \A s \in samples : s.power \in Nat /\ s.row \in Nat
    /\ \A s, r \in samples : s.row = r.row => s = r

LEMMA RanksKeepOrder ==
    ASSUME NEW samples, Ranked(samples), NEW s \in samples, NEW r \in samples
    PROVE  /\ Rank(samples, s) \in 1..Cardinality(samples)
           /\ Rank(samples, s) <= Rank(samples, r) => s.power <= r.power
           /\ Rank(samples, s) = Rank(samples, r) => s = r
<1>1. /\ UpTo(samples, s) \subseteq samples /\ UpTo(samples, r) \subseteq samples
      /\ s \in UpTo(samples, s)
  BY DEF UpTo, Ranked
<1>2. /\ IsFiniteSet(UpTo(samples, s)) /\ IsFiniteSet(UpTo(samples, r)) /\ IsFiniteSet(samples)
      /\ Rank(samples, s) <= Cardinality(samples)
      /\ Rank(samples, s) \in Nat /\ Rank(samples, r) \in Nat /\ Cardinality(samples) \in Nat
  BY <1>1, FS_Subset, FS_CardinalityType DEF Ranked, Rank
<1>3. Rank(samples, s) # 0
  <2>1. UpTo(samples, s) # {}
    BY <1>1
  <2> QED BY <1>2, <2>1, FS_EmptySet DEF Rank
<1>4. ASSUME NEW a \in samples, NEW b \in samples,
             a.power < b.power \/ (a.power = b.power /\ a.row < b.row)
      PROVE  Rank(samples, a) < Rank(samples, b)
  <2>1. /\ a.power \in Nat /\ b.power \in Nat /\ a.row \in Nat /\ b.row \in Nat
        /\ \A c \in samples : c.power \in Nat /\ c.row \in Nat
    BY DEF Ranked
  <2>2. UpTo(samples, a) \subseteq UpTo(samples, b)
    BY <1>4, <2>1 DEF UpTo
  <2>3. b \in UpTo(samples, b) /\ b \notin UpTo(samples, a)
    BY <1>4, <2>1 DEF UpTo
  <2>4. IsFiniteSet(UpTo(samples, b))
    <3>1. UpTo(samples, b) \subseteq samples
      BY DEF UpTo
    <3> QED BY <3>1, FS_Subset DEF Ranked
  <2> QED BY <2>2, <2>3, <2>4, FS_Subset, FS_CardinalityType DEF Rank
<1>5. /\ s.power \in Nat /\ r.power \in Nat /\ s.row \in Nat /\ r.row \in Nat
      /\ s.row = r.row => s = r
  BY DEF Ranked
<1>6. Rank(samples, s) <= Rank(samples, r) => s.power <= r.power
  BY <1>2, <1>4, <1>5
<1>7. Rank(samples, s) = Rank(samples, r) => s = r
  <2> SUFFICES ASSUME s # r PROVE Rank(samples, s) # Rank(samples, r)
    OBVIOUS
  <2>1. \/ s.power < r.power \/ (s.power = r.power /\ s.row < r.row)
        \/ r.power < s.power \/ (r.power = s.power /\ r.row < s.row)
    BY <1>5
  <2>2. Rank(samples, s) < Rank(samples, r) \/ Rank(samples, r) < Rank(samples, s)
    BY <1>4, <2>1
  <2> QED BY <1>2, <2>2
<1> QED BY <1>2, <1>3, <1>6, <1>7

\* There is a sample at every rank.
LEMMA EveryRankIsTaken ==
    ASSUME NEW samples, Ranked(samples), NEW i \in 1..Cardinality(samples)
    PROVE  \E s \in samples : i = Rank(samples, s)
<1> DEFINE n == Cardinality(samples)
           f == [s \in samples |-> Rank(samples, s)]
<1>1. n \in Nat
  BY FS_CardinalityType DEF Ranked
<1>2. f \in [samples -> 1..n] /\ \A s, r \in samples : f[s] = f[r] => s = r
  BY RanksKeepOrder
<1>3. f \in Injection(samples, 1..n)
  BY <1>2, Fun_IsInj
<1>4. IsFiniteSet(1..n) /\ Cardinality(1..n) = n
  BY <1>1, FS_Interval
<1>5. f \in Surjection(samples, 1..n)
  BY <1>3, <1>4, FS_Injection
<1>6. \A j \in 1..n : \E s \in samples : f[s] = j
  <2> HIDE DEF f, n
  <2> QED BY <1>5, Fun_SurjectionProperties
<1> QED BY <1>6

\* The power that stands at a rank is that of a sample there.
LEMMA OrderedAt ==
    ASSUME NEW samples, Ranked(samples), NEW i \in 1..Cardinality(samples)
    PROVE  \E s \in samples : i = Rank(samples, s) /\ Ordered(samples, i) = s.power
<1> DEFINE s == CHOOSE s \in samples : i = Rank(samples, s)
<1>1. s \in samples /\ i = Rank(samples, s)
  BY EveryRankIsTaken
<1>2. Ordered(samples, i) = s.power
  BY DEF Ordered, Rank, UpTo
<1> QED BY <1>1, <1>2

\* As many samples as ranks are at one of the lowest, or of the highest.
LEMMA LowestAndHighest ==
    ASSUME NEW samples, Ranked(samples), NEW i \in 1..Cardinality(samples)
    PROVE  /\ Cardinality({s \in samples : Rank(samples, s) <= i}) >= i
           /\ Cardinality({s \in samples : i <= Rank(samples, s)}) >= Cardinality(samples) - i + 1
<1> DEFINE n == Cardinality(samples)
<1>1. n \in Nat /\ i \in 1..n
  BY FS_CardinalityType DEF Ranked
<1>2. \A s \in samples : Rank(samples, s) \in 1..n
  BY RanksKeepOrder
<1>3. \A j \in 1..n : \E s \in samples : j = Rank(samples, s)
  BY EveryRankIsTaken
<1> HIDE DEF n
<1>4. ASSUME NEW few \in SUBSET samples, NEW lo \in 1..n, NEW hi \in 1..n,
             \A s \in samples : s \in few <=> Rank(samples, s) \in lo..hi
      PROVE  Cardinality(few) >= Cardinality(lo..hi)
  <2> DEFINE f == [s \in few |-> Rank(samples, s)]
  <2>1. f \in [few -> lo..hi]
    BY <1>4
  <2>2. \A j \in lo..hi : \E s \in few : f[s] = j
    <3> SUFFICES ASSUME NEW j \in lo..hi PROVE \E s \in few : f[s] = j
      OBVIOUS
    <3>1. j \in 1..n
      BY <1>1, <1>4
    <3>2. PICK s \in samples : j = Rank(samples, s)
      BY <1>3, <3>1
    <3>3. s \in few
      BY <1>4, <3>2
    <3> QED BY <3>2, <3>3
  <2>3. f \in Surjection(few, lo..hi)
    <3> HIDE DEF f
    <3> QED BY <2>1, <2>2, Fun_IsSurj
  <2>4. IsFiniteSet(few)
    BY FS_Subset DEF Ranked
  <2> QED BY <2>3, <2>4, FS_Surjection
<1> DEFINE lower == {s \in samples : Rank(samples, s) <= i}
           upper == {s \in samples : i <= Rank(samples, s)}
<1>5. Cardinality(lower) >= Cardinality(1..i)
  <2>1. \A s \in samples : s \in lower <=> Rank(samples, s) \in 1..i
    BY <1>1, <1>2
  <2>2. lower \in SUBSET samples /\ 1 \in 1..n
    BY <1>1
  <2> HIDE DEF lower
  <2> QED BY <1>1, <1>4, <2>1, <2>2
<1>6. Cardinality(upper) >= Cardinality(i..n)
  <2>1. \A s \in samples : s \in upper <=> Rank(samples, s) \in i..n
    BY <1>1, <1>2
  <2>2. upper \in SUBSET samples /\ n \in 1..n
    BY <1>1
  <2> HIDE DEF upper
  <2> QED BY <1>1, <1>4, <2>1, <2>2
<1>7. Cardinality(1..i) = i /\ Cardinality(i..n) = n - i + 1
  BY <1>1, FS_Interval
<1> QED BY <1>5, <1>6, <1>7 DEF n

\* A minority of the samples does not move the median out of the others: one of those
\* is at or below it, and one at or above.
LEMMA MedianIsInside ==
    ASSUME NEW samples, Ranked(samples), NEW few, IsFiniteSet(few),
           2 * Cardinality(few) < Cardinality(samples)
    PROVE  LET m == MedianOf(samples, 1, Cardinality(samples))
           IN  /\ \E a \in samples \ few : 2 * a.power <= m
               /\ \E a \in samples \ few : m <= 2 * a.power
<1> DEFINE n == Cardinality(samples)
           low == (1 + n) \div 2
           high == (1 + n + 1) \div 2
           m == MedianOf(samples, 1, n)
           lower == {s \in samples : Rank(samples, s) <= low}
           upper == {s \in samples : high <= Rank(samples, s)}
<1>1. n \in Nat /\ Cardinality(few) \in Nat /\ n >= 1 /\ 2 * Cardinality(few) < n
  BY FS_CardinalityType DEF Ranked
<1>2. low \in 1..n /\ high \in 1..n /\ low <= high
  <2> HIDE DEF n
  <2> QED BY <1>1
<1>3. low > Cardinality(few) /\ n - high + 1 > Cardinality(few)
  <2> HIDE DEF n
  <2> QED BY <1>1
<1>4. m = Ordered(samples, low) + Ordered(samples, high)
  BY DEF MedianOf
<1>5. Cardinality(lower) >= low /\ Cardinality(upper) >= n - high + 1
  BY <1>2, LowestAndHighest
<1> HIDE DEF n, low, high, m
<1>6. PICK l \in samples : Rank(samples, l) = low /\ Ordered(samples, low) = l.power
  BY <1>2, OrderedAt DEF n
<1>7. PICK h \in samples : Rank(samples, h) = high /\ Ordered(samples, high) = h.power
  BY <1>2, OrderedAt DEF n
<1>8. l.power <= h.power
  BY <1>2, <1>6, <1>7, RanksKeepOrder
<1>9. \A s \in samples : s.power \in Nat
  BY DEF Ranked
<1>10. lower \subseteq samples /\ upper \subseteq samples
  OBVIOUS
<1>11. /\ \A a \in lower : a.power <= l.power
       /\ \A a \in upper : h.power <= a.power
  BY <1>6, <1>7, RanksKeepOrder
<1> HIDE DEF lower, upper
<1>12. ASSUME NEW many \in SUBSET samples, Cardinality(many) > Cardinality(few)
       PROVE  \E a \in many : a \notin few
  <2> SUFFICES ASSUME many \subseteq few PROVE FALSE
    OBVIOUS
  <2>1. Cardinality(many) <= Cardinality(few) /\ Cardinality(many) \in Nat
    BY FS_Subset, FS_CardinalityType
  <2> QED BY <1>1, <1>12, <2>1
<1>13. IsFiniteSet(lower) /\ IsFiniteSet(upper)
  BY <1>10, FS_Subset DEF Ranked
<1>14. Cardinality(lower) > Cardinality(few) /\ Cardinality(upper) > Cardinality(few)
  BY <1>1, <1>2, <1>3, <1>5, <1>13, FS_CardinalityType
<1>15. PICK a \in lower : a \notin few
  BY <1>10, <1>12, <1>14
<1>16. PICK c \in upper : c \notin few
  BY <1>10, <1>12, <1>14
<1>17. /\ a \in samples /\ a.power \in Nat /\ a.power <= l.power
       /\ c \in samples /\ c.power \in Nat /\ h.power <= c.power
       /\ l.power \in Nat /\ h.power \in Nat
  BY <1>9, <1>10, <1>11, <1>15, <1>16
<1>18. 2 * a.power <= m /\ m <= 2 * c.power
  BY <1>4, <1>6, <1>7, <1>8, <1>17
<1> QED BY <1>15, <1>16, <1>17, <1>18 DEF m, n

LEMMA EstimateNat ==
    ASSUME NEW samples, Ranked(samples)
    PROVE  EstimatePower(samples).twice_w \in Nat
<1> DEFINE n == Cardinality(samples)
<1>1. CASE samples = {}
  BY <1>1 DEF EstimatePower, NoEstimate
<1>2. CASE samples # {}
  <2>1. n \in Nat /\ n >= 1
    BY <1>2, FS_CardinalityType, FS_EmptySet DEF Ranked
  <2>2. EstimatePower(samples).twice_w = MedianOf(samples, 1, n)
    BY <1>2 DEF EstimatePower
  <2> HIDE DEF n
  <2>3. (1 + n) \div 2 \in 1..n /\ (1 + n + 1) \div 2 \in 1..n
    BY <2>1
  <2>4. \A i \in 1..n : Ordered(samples, i) \in Nat
    BY OrderedAt DEF n, Ranked
  <2>5. MedianOf(samples, 1, n) = Ordered(samples, (1 + n) \div 2) + Ordered(samples, (1 + n + 1) \div 2)
    BY DEF MedianOf
  <2> QED BY <2>2, <2>3, <2>4, <2>5
<1> QED BY <1>1, <1>2

-----------------------------------------------------------------------------
(* The log *)

\* What a file is: rows numbered as they stand in it, none of them missing, and a
\* clock that does not go back.
Numbered(file) ==
    /\ IsFiniteSet(file)
    /\ \A s \in file : /\ s.row \in 1..Cardinality(file) /\ s.t \in Nat /\ s.alt \in Int
                        /\ s.power \in Nat \cup {NoValue}
    /\ \A s, p \in file : s.row = p.row => s = p
    /\ \A i \in 1..Cardinality(file) : \E s \in file : s.row = i
    /\ \A s, p \in file : p.row < s.row => p.t <= s.t

LEMMA SelectionsAreRanked ==
    ASSUME NEW file, Numbered(file)
    PROVE  /\ Ranked(SelectHoverSamples(ParseFlightLog(file)))
           /\ Ranked(SelectCruiseSamples(ParseFlightLog(file)))
<1>1. ASSUME NEW samples \in SUBSET file, \A s \in samples : s.power # NoValue
      PROVE  Ranked(samples)
  <2>1. IsFiniteSet(samples)
    BY FS_Subset DEF Numbered
  <2>2. Cardinality(file) \in Nat
    BY FS_CardinalityType DEF Numbered
  <2>3. \A s \in samples : s.power \in Nat /\ s.row \in Nat
    BY <1>1, <2>2 DEF Numbered
  <2> QED BY <2>1, <2>3 DEF Ranked, Numbered
<1> QED BY <1>1 DEF SelectHoverSamples, SelectCruiseSamples, ParseFlightLog

LEMMA NextRowIsNumbered ==
    ASSUME Numbered(log), NEW recorded \in RecordedRows
    PROVE  Numbered(log \cup {NextRow(recorded)})
<1> DEFINE n == Cardinality(log)
           last == CHOOSE s \in log : s.row = n
           next == NextRow(recorded)
<1>1. n \in Nat /\ IsFiniteSet(log) /\ (log # {} => n \in 1..n)
  BY FS_CardinalityType, FS_EmptySet DEF Numbered
<1>2. log # {} => last \in log
  BY <1>1 DEF Numbered
<1>3. log # {} => last.t \in Nat /\ last.alt \in Int
  BY <1>2 DEF Numbered
<1>4. /\ recorded.after \in Nat /\ recorded.rise \in Int
      /\ recorded.power \in Nat \cup {NoValue}
  BY SortieAssumption
<1>5. /\ next.row = n + 1
      /\ next.t = IF log = {} THEN 0 ELSE last.t + recorded.after
      /\ next.alt = (IF log = {} THEN 0 ELSE last.alt) + recorded.rise
      /\ next.power = recorded.power
  BY DEF NextRow
<1> HIDE DEF last, next
<1>6. next.t \in Nat /\ next.alt \in Int /\ next.power \in Nat \cup {NoValue}
  BY <1>3, <1>4, <1>5
<1>7. next \notin log
  BY <1>1, <1>5 DEF Numbered
<1> DEFINE file == log \cup {next}
<1>8. IsFiniteSet(file) /\ Cardinality(file) = n + 1
  BY <1>1, <1>7, FS_AddElement
<1> HIDE DEF n
<1>9. \A s \in log : s.row \in 1..n
  BY DEF n, Numbered
<1>10. \A s \in file : s.row \in 1..(n + 1)
  BY <1>1, <1>5, <1>9
<1>11. \A s, p \in file : s.row = p.row => s = p
  BY <1>1, <1>5, <1>9 DEF Numbered
<1>12. \A i \in 1..(n + 1) : \E s \in file : s.row = i
  BY <1>1, <1>5 DEF Numbered, n
<1>13. \A s \in file : s.t \in Nat /\ s.alt \in Int /\ s.power \in Nat \cup {NoValue}
  BY <1>6 DEF Numbered
<1>14. ASSUME NEW s \in file, NEW p \in file, p.row < s.row PROVE p.t <= s.t
  <2>1. p \in log
    BY <1>1, <1>5, <1>10, <1>14
  <2>2. CASE s \in log
    BY <1>14, <2>1, <2>2 DEF Numbered
  <2>3. CASE s = next
    <3>1. p.t <= last.t
      <4>1. p.row <= n
        BY <1>1, <1>9, <2>1
      <4>2. last \in log /\ last.row = n
        BY <1>1, <2>1 DEF last, Numbered, n
      <4>3. CASE p.row = n
        <5>1. p = last
          BY <2>1, <4>2, <4>3 DEF Numbered
        <5> QED BY <2>1, <5>1 DEF Numbered
      <4>4. CASE p.row < n
        BY <2>1, <4>2, <4>4 DEF Numbered
      <4>5. p.row \in Int
        BY <1>9, <2>1
      <4> QED BY <1>1, <4>1, <4>3, <4>4, <4>5
    <3>2. log # {} /\ p.t \in Nat
      BY <2>1 DEF Numbered
    <3> QED BY <1>3, <1>4, <1>5, <2>3, <3>1, <3>2
  <2> QED BY <2>2, <2>3
<1>15. Numbered(file)
  BY <1>8, <1>10, <1>11, <1>12, <1>13, <1>14 DEF Numbered
<1> QED BY <1>15 DEF next

\* Of a row that the clock moved before, the sample before it in time is the one before
\* it in the file, against which its climb was held.
LEMMA SelectedIsLevel ==
    ASSUME Numbered(log),
           NEW s \in SelectHoverSamples(ParseFlightLog(log)), s \notin Untold(log)
    PROVE  s \in ParseFlightLog(log) /\ Level(log, s)
<1> DEFINE parsed == ParseFlightLog(log)
<1>1. s \in parsed /\ ClimbsAtMost(parsed, s, 5)
  BY DEF SelectHoverSamples
<1>2. parsed \subseteq log
  BY DEF ParseFlightLog
<1>3. PICK p \in RowBefore(log, s) : ~(s.t <= p.t)
  BY <1>1 DEF Untold
<1>4. /\ p \in parsed /\ p.row < s.row
      /\ \A q \in parsed : q.row < s.row => q.row <= p.row
  BY <1>3 DEF RowBefore
<1> HIDE DEF parsed
<1>5. Cardinality(log) \in Nat
  BY FS_CardinalityType DEF Numbered
<1>6. \A q \in parsed : q.row \in Int /\ q.t \in Int /\ q.alt \in Int
  BY <1>2, <1>5 DEF Numbered
<1>7. \A q, r \in parsed : (q.row = r.row => q = r) /\ (q.row < r.row => q.t <= r.t)
  BY <1>2 DEF Numbered
<1>8. p.t < s.t
  BY <1>1, <1>3, <1>4, <1>6
<1>9. ASSUME NEW q \in parsed, Before(q, s) PROVE ~Before(p, q)
  <2>1. q.row < s.row
    <3>1. q # s /\ q.t <= s.t
      BY <1>1, <1>6, <1>9 DEF Before
    <3>2. CASE s.row < q.row
      <4>1. s.t <= q.t
        BY <1>1, <1>7, <3>2
      <4>2. ~(q.t < s.t)
        BY <1>1, <1>6, <4>1
      <4> QED BY <1>1, <1>6, <1>9, <3>2, <4>2 DEF Before
    <3>3. s.row # q.row
      BY <1>1, <1>7, <3>1
    <3> QED BY <1>1, <1>6, <3>2, <3>3
  <2>2. q.row <= p.row
    BY <1>4, <2>1
  <2>3. q.t <= p.t
    BY <1>4, <1>6, <1>7, <2>2
  <2> QED BY <1>4, <1>6, <2>2, <2>3 DEF Before
<1>10. p \in Previous(parsed, s)
  BY <1>4, <1>8, <1>9 DEF Previous, Before
<1>11. (s.alt - p.alt) \in -5 * (s.t - p.t)..5 * (s.t - p.t)
  BY <1>1, <1>3, <1>10 DEF ClimbsAtMost
<1> QED BY <1>1, <1>3, <1>8, <1>11 DEF Level, parsed

LEMMA HoverFigureIsLevel == Numbered(log) => HoverFigureIsOfHover
<1> DEFINE samples == SelectHoverSamples(ParseFlightLog(log))
           estimate == EstimateHoverPower(log)
           m == MedianOf(samples, 1, Cardinality(samples))
<1> SUFFICES ASSUME Numbered(log), 2 * Cardinality(Untold(log)) < estimate.samples
             PROVE  \E s, r \in ParseFlightLog(log) :
                        /\ Level(log, s) /\ Level(log, r)
                        /\ 2 * s.power <= estimate.twice_w
                        /\ estimate.twice_w <= 2 * r.power
  BY DEF HoverFigureIsOfHover
<1>1. Ranked(samples)
  BY SelectionsAreRanked
<1>2. IsFiniteSet(Untold(log)) /\ Cardinality(Untold(log)) \in Nat
  <2>1. Untold(log) \subseteq log
    BY DEF Untold, ParseFlightLog
  <2> QED BY <2>1, FS_Subset, FS_CardinalityType DEF Numbered
<1>3. estimate.samples = Cardinality(samples) /\ estimate.twice_w = m
  <2>1. estimate = EstimatePower(samples)
    BY DEF EstimateHoverPower
  <2> HIDE DEF samples, estimate, m
  <2>2. samples # {}
    <3> SUFFICES ASSUME samples = {} PROVE FALSE
      OBVIOUS
    <3>1. estimate.samples = 0
      BY <2>1 DEF EstimatePower, NoEstimate
    <3> QED BY <1>2, <3>1
  <2> QED BY <2>1, <2>2 DEF EstimatePower, m
<1>4. \A s \in samples \ Untold(log) : s \in ParseFlightLog(log) /\ Level(log, s)
  BY SelectedIsLevel
<1> HIDE DEF samples, estimate, m
<1>5. 2 * Cardinality(Untold(log)) < Cardinality(samples)
  BY <1>3
<1>6. /\ \E s \in samples \ Untold(log) : 2 * s.power <= m
      /\ \E r \in samples \ Untold(log) : m <= 2 * r.power
  BY <1>1, <1>2, <1>5, MedianIsInside DEF m
<1> QED BY <1>3, <1>4, <1>6

-----------------------------------------------------------------------------
(* One replan after another *)

Reports ==
    [soc : 0..100, leg : Nat, hover : Nat, oat : Int, wind : Nat \cup {None},
     payload_attached : BOOLEAN, age : Int]

\* A snapshot, once it was taken in.
TakenIn(snapshot) == snapshot \in Reports /\ snapshot.age >= 0

LEMMA NormalisedOnce ==
    ASSUME NEW snapshot \in Snapshots
    PROVE  TakenIn(Normalised(snapshot))
<1>1. snapshot \in Reports
  BY SchemaAssumption DEF Reports
<1> QED BY <1>1 DEF TakenIn, Normalised, Reports

LEMMA NormalisedTwice ==
    ASSUME NEW snapshot, TakenIn(snapshot)
    PROVE  Normalised(snapshot) = snapshot
<1>1. snapshot \in Reports /\ ~(snapshot.age < 0)
  BY DEF TakenIn, Reports
<1>2. Normalised(snapshot) = [snapshot EXCEPT !.age = snapshot.age]
  BY <1>1 DEF Normalised
<1> QED BY <1>1, <1>2 DEF Reports

\* Where each alert has a match that is no milder, so has their maximum.
LEMMA Dominated ==
    ASSUME NEW alerts \in SUBSET Alerts, NEW worse \in SUBSET Alerts,
           \A a \in alerts : \E b \in worse :
               RankIn(ActionOrder, a.action) <= RankIn(ActionOrder, b.action)
    PROVE  /\ RankIn(ActionOrder, StrongestAction(worse))
                  >= RankIn(ActionOrder, StrongestAction(alerts))
           /\ RankIn(SeverityOrder, WorstSeverity(worse))
                  >= RankIn(SeverityOrder, WorstSeverity(alerts))
<1> DEFINE actions(raised) == {a.action : a \in raised}
<1>1. ASSUME NEW raised \in SUBSET Alerts
      PROVE  \E m \in 1..4 :
                /\ StrongestAction(raised) = ActionOrder[m]
                /\ m = 1 <=> raised = {}
                /\ m # 1 => ActionOrder[m] \in actions(raised)
                /\ \A j \in 2..4 : ActionOrder[j] \in actions(raised) => j <= m
  <2>1. \A v \in actions(raised) : \E j \in 2..4 : v = ActionOrder[j]
    <3>1. 1 \in 1..4
      OBVIOUS
    <3>2. \A v \in {a.action : a \in raised} : \E j \in 2..4 : v = ActionOrder[j]
      BY <3>1, SameRanksRaised
    <3> QED BY <3>2
  <2>2. actions(raised) = {} <=> raised = {}
    OBVIOUS
  <2> HIDE DEF actions
  <2>3. PICK m \in 1..4 :
            /\ WorstIn(ActionOrder, actions(raised)) = ActionOrder[m]
            /\ m = 1 <=> actions(raised) = {}
            /\ m # 1 => ActionOrder[m] \in actions(raised)
            /\ \A j \in 2..4 : ActionOrder[j] \in actions(raised) => j <= m
    BY <2>1, Ranks, WorstIsHighest
  <2> QED BY <2>2, <2>3 DEF StrongestAction, actions
<1>2. PICK m \in 1..4 :
          /\ StrongestAction(alerts) = ActionOrder[m]
          /\ m = 1 <=> alerts = {}
          /\ m # 1 => ActionOrder[m] \in actions(alerts)
  BY <1>1
<1>3. PICK w \in 1..4 :
          /\ StrongestAction(worse) = ActionOrder[w]
          /\ \A j \in 2..4 : ActionOrder[j] \in actions(worse) => j <= w
  BY <1>1
<1>4. m <= w
  <2>1. CASE m = 1
    BY <2>1
  <2>2. CASE m # 1
    <3>1. PICK a \in alerts : a.action = ActionOrder[m]
      BY <1>2, <2>2
    <3>2. PICK b \in worse : RankIn(ActionOrder, a.action) <= RankIn(ActionOrder, b.action)
      OBVIOUS
    <3>3. PICK j \in 2..4 : b.action = ActionOrder[j]
      BY SameRanksRaised
    <3>4. m <= j
      BY <3>1, <3>2, <3>3, Ranks
    <3> QED BY <1>3, <3>3, <3>4
  <2> QED BY <2>1, <2>2
<1>5. /\ RankIn(ActionOrder, StrongestAction(alerts)) = m
      /\ RankIn(ActionOrder, StrongestAction(worse)) = w
  BY <1>2, <1>3, Ranks
<1>6. /\ RankIn(SeverityOrder, WorstSeverity(alerts)) = m
      /\ RankIn(SeverityOrder, WorstSeverity(worse)) = w
  BY <1>5, MaximaAgree
<1> QED BY <1>4, <1>5, <1>6

\* What is left of the charge, as the snapshot tells it.
Left(charge, soc, required) == RoundDiv(charge * soc - 1000 * required, 1000)

LEMMA LeftKeepsOrder ==
    ASSUME NEW charge \in Nat, NEW soc \in Nat, NEW more \in Nat, soc <= more,
           NEW required \in Nat, NEW less \in Nat, less <= required
    PROVE  /\ Left(charge, soc, required) <= Left(charge, more, less)
           /\ Left(charge, soc, required) \in Int /\ Left(charge, more, less) \in Int
<1>1. charge * soc <= charge * more /\ charge * soc \in Nat /\ charge * more \in Nat
  BY ProductsKeepOrder
<1>2. /\ charge * soc - 1000 * required <= charge * more - 1000 * less
      /\ charge * soc - 1000 * required \in Int /\ charge * more - 1000 * less \in Int
  BY <1>1
<1> QED BY <1>2, RoundKeepsOrder DEF Left

LEMMA LiveKeepsOrder ==
    ASSUME NEW craft, Reckonable(craft), NEW payload \in Payloads,
           NEW earlier, TakenIn(earlier), NEW later, TakenIn(later), AtLeastAsBad(later, earlier)
    PROVE  LET x == LiveEnergy(craft, payload, earlier)
               y == LiveEnergy(craft, payload, later)
           IN  /\ x.reserve = y.reserve /\ x.reserve \in Int
               /\ y.residual <= x.residual /\ x.residual \in Int /\ y.residual \in Int
<1> DEFINE x == LiveEnergy(craft, payload, earlier)
           y == LiveEnergy(craft, payload, later)
           charge == Charge(craft.battery, earlier.oat)
           draw == IF earlier.payload_attached THEN 100 * payload.power ELSE 0
           h == 100 * craft.hover_power
           c == 100 * craft.cruise_power
           need(s) == EnergyRequired(s.leg, s.hover, craft.cruise_speed, h, c, draw)
<1>1. /\ earlier.soc \in Nat /\ later.soc \in Nat /\ later.soc <= earlier.soc
      /\ earlier.leg \in Nat /\ later.leg \in Nat /\ earlier.leg <= later.leg
      /\ earlier.hover \in Nat /\ later.hover \in Nat /\ earlier.hover <= later.hover
      /\ earlier.oat \in Int /\ later.oat = earlier.oat
      /\ later.payload_attached = earlier.payload_attached
  BY DEF TakenIn, Reports, AtLeastAsBad
<1>2. charge \in Nat
  BY <1>1, ChargeNat, SchemaAssumption DEF Reckonable
<1>3. h \in Nat /\ c \in Nat /\ h <= h /\ c <= c /\ craft.cruise_speed \in Int
  BY SchemaAssumption DEF Reckonable
<1>4. draw \in Nat /\ draw <= draw
  BY SchemaAssumption
<1>5. /\ x.reserve = RoundDiv(charge * Reserve, 1000) /\ y.reserve = x.reserve
      /\ x.residual = Left(charge, earlier.soc, need(earlier))
      /\ y.residual = Left(charge, later.soc, need(later))
  BY <1>1 DEF LiveEnergy, Left
<1> HIDE DEF x, y, charge, draw, h, c
<1>6. need(earlier) <= need(later) /\ need(earlier) \in Nat /\ need(later) \in Nat
  BY <1>1, <1>3, <1>4, RequiredKeepsOrder
<1> HIDE DEF need
<1>7. /\ Left(charge, later.soc, need(later)) <= Left(charge, earlier.soc, need(earlier))
      /\ Left(charge, later.soc, need(later)) \in Int
      /\ Left(charge, earlier.soc, need(earlier)) \in Int
  BY <1>1, <1>2, <1>6, LeftKeepsOrder
<1>8. RoundDiv(charge * Reserve, 1000) \in Int
  <2>1. Reserve \in Nat
    BY SettingsAssumption
  <2>2. charge * Reserve \in Nat
    BY <1>2, <2>1, ProductNat
  <2> QED BY <2>2, RoundNat
<1> QED BY <1>5, <1>7, <1>8 DEF x, y

LEMMA Grades ==
    /\ RankIn(ActionOrder, "advisory_only") = 2
    /\ RankIn(ActionOrder, "land_soon") = 3
    /\ RankIn(ActionOrder, "land_now") = 4
<1>1. ActionOrder[2] = "advisory_only" /\ ActionOrder[3] = "land_soon" /\ ActionOrder[4] = "land_now"
  BY DEF ActionOrder
<1>2. 2 \in 1..4 /\ 3 \in 1..4 /\ 4 \in 1..4
  OBVIOUS
<1>3. /\ RankIn(ActionOrder, ActionOrder[2]) = 2
      /\ RankIn(ActionOrder, ActionOrder[3]) = 3
      /\ RankIn(ActionOrder, ActionOrder[4]) = 4
  BY <1>2, Ranks
<1> QED BY <1>1, <1>3

\* Every alert of a snapshot has a match in one that is at least as bad.
LEMMA AlertsAreMatched ==
    ASSUME NEW craft, Reckonable(craft), NEW payload \in Payloads,
           NEW earlier, TakenIn(earlier), NEW later, TakenIn(later), AtLeastAsBad(later, earlier),
           NEW a \in EvaluateReplan(craft, payload, earlier)
    PROVE  \E b \in EvaluateReplan(craft, payload, later) :
              RankIn(ActionOrder, a.action) <= RankIn(ActionOrder, b.action)
<1> DEFINE x == LiveEnergy(craft, payload, earlier)
           y == LiveEnergy(craft, payload, later)
<1>1. ASSUME a \in EnergyAlert(x)
      PROVE  \E b \in EnergyAlert(y) : RankIn(ActionOrder, a.action) <= RankIn(ActionOrder, b.action)
  <2>1. /\ x.reserve = y.reserve /\ x.reserve \in Int
        /\ y.residual <= x.residual /\ x.residual \in Int /\ y.residual \in Int
    BY LiveKeepsOrder
  <2> HIDE DEF x, y
  <2>2. (BelowReserve(x) => BelowReserve(y)) /\ (NearReserve(x) => NearReserve(y))
    BY <2>1 DEF BelowReserve, NearReserve
  <2> DEFINE land == Alert("abort", "ENERGY_BELOW_RESERVE", "land_now")
             soon == Alert("warning", "ENERGY_NEAR_RESERVE", "land_soon")
  <2>3. land.action = "land_now" /\ soon.action = "land_soon"
    BY DEF Alert
  <2> HIDE DEF land, soon
  <2>4. \A live : /\ BelowReserve(live) => EnergyAlert(live) = {land}
                  /\ ~BelowReserve(live) /\ NearReserve(live) => EnergyAlert(live) = {soon}
                  /\ ~BelowReserve(live) /\ ~NearReserve(live) => EnergyAlert(live) = {}
    BY DEF EnergyAlert, land, soon
  <2>5. CASE BelowReserve(x)
    <3>1. a = land /\ land \in EnergyAlert(y)
      BY <1>1, <2>2, <2>4, <2>5
    <3> QED BY <2>3, <3>1, Grades
  <2>6. CASE ~BelowReserve(x) /\ NearReserve(x)
    <3>1. a = soon /\ (land \in EnergyAlert(y) \/ soon \in EnergyAlert(y))
      BY <1>1, <2>2, <2>4, <2>6
    <3> QED BY <2>3, <3>1, Grades
  <2>7. CASE ~BelowReserve(x) /\ ~NearReserve(x)
    BY <1>1, <2>4, <2>7
  <2> QED BY <2>5, <2>6, <2>7
<1>2. ASSUME a \in WindAlert(craft, earlier)
      PROVE  a \in WindAlert(craft, later)
  <2>1. /\ later.wind # None /\ earlier.wind # None /\ later.wind >= earlier.wind
        /\ later.wind \in Nat /\ earlier.wind \in Nat /\ craft.max_wind \in Nat
    BY SchemaAssumption DEF TakenIn, Reports, AtLeastAsBad, Reckonable
  <2>2. earlier.wind > craft.max_wind => later.wind > craft.max_wind
    BY <2>1
  <2> QED BY <1>2, <2>1, <2>2 DEF WindAlert
<1>3. ASSUME a \in StalenessAlert(earlier)
      PROVE  a \in StalenessAlert(later)
  <2>1. later.age >= earlier.age /\ later.age \in Int /\ earlier.age \in Int
    BY DEF TakenIn, Reports, AtLeastAsBad
  <2>2. later.age <= MaxOperationalSnapshotAge => earlier.age <= MaxOperationalSnapshotAge
    BY <2>1 DEF MaxOperationalSnapshotAge
  <2> QED BY <1>3, <2>2 DEF StalenessAlert
<1>4. ASSUME a \in PayloadAlert(payload, earlier)
      PROVE  a \in PayloadAlert(payload, later)
  BY <1>4 DEF PayloadAlert, AtLeastAsBad
<1>5. EvaluateReplan(craft, payload, later) \subseteq Alerts
      /\ EvaluateReplan(craft, payload, earlier) \subseteq Alerts
  BY EvaluationRaisesAlerts
<1>6. RankIn(ActionOrder, a.action) <= RankIn(ActionOrder, a.action)
  <2>1. PICK j \in 2..4 : a.action = ActionOrder[j]
    BY <1>5, SameRanksRaised
  <2>2. j \in 1..4 /\ RankIn(ActionOrder, ActionOrder[j]) = j
    BY Ranks
  <2> QED BY <2>1, <2>2
<1> HIDE DEF x, y
<1> QED BY <1>1, <1>2, <1>3, <1>4, <1>6 DEF EvaluateReplan, x, y

LEMMA AdviceKeepsOrder ==
    ASSUME NEW craft, Reckonable(craft), NEW payload \in Payloads,
           NEW earlier, TakenIn(earlier), NEW later, TakenIn(later), AtLeastAsBad(later, earlier)
    PROVE  LET x == Replanned(craft, payload, earlier)
               y == Replanned(craft, payload, later)
           IN  /\ RankIn(ActionOrder, y.recommended_action) >= RankIn(ActionOrder, x.recommended_action)
               /\ RankIn(SeverityOrder, y.severity) >= RankIn(SeverityOrder, x.severity)
<1> DEFINE x == Replanned(craft, payload, earlier)
           y == Replanned(craft, payload, later)
           alerts == EvaluateReplan(craft, payload, earlier)
           worse == EvaluateReplan(craft, payload, later)
<1>1. /\ x.severity = WorstSeverity(alerts) /\ x.recommended_action = StrongestAction(alerts)
      /\ y.severity = WorstSeverity(worse) /\ y.recommended_action = StrongestAction(worse)
  BY NormalisedTwice DEF Replanned
<1>2. alerts \in SUBSET Alerts /\ worse \in SUBSET Alerts
  BY EvaluationRaisesAlerts
<1>3. \A a \in alerts : \E b \in worse :
          RankIn(ActionOrder, a.action) <= RankIn(ActionOrder, b.action)
  BY AlertsAreMatched
<1> HIDE DEF x, y, alerts, worse
<1>4. /\ RankIn(ActionOrder, StrongestAction(worse)) >= RankIn(ActionOrder, StrongestAction(alerts))
      /\ RankIn(SeverityOrder, WorstSeverity(worse)) >= RankIn(SeverityOrder, WorstSeverity(alerts))
  BY <1>2, <1>3, Dominated
<1>5. /\ RankIn(ActionOrder, y.recommended_action) >= RankIn(ActionOrder, x.recommended_action)
      /\ RankIn(SeverityOrder, y.severity) >= RankIn(SeverityOrder, x.severity)
  BY <1>1, <1>4
<1> QED BY <1>5 DEF x, y

-----------------------------------------------------------------------------
(* One budget beside the other *)

LEMMA DivByLess ==
    ASSUME NEW n \in Nat, NEW d \in Nat \ {0}, NEW e \in Nat \ {0}, d <= e
    PROVE  n \div e <= n \div d
<1> DEFINE q == n \div e
           r == n \div d
<1>1. q \in Nat /\ r \in Nat /\ e * q <= n /\ n < d * r + d
  BY DivBounds, DivNat
<1> HIDE DEF q, r
<1>2. d * q <= e * q /\ d * q \in Nat /\ e * q \in Nat
  BY <1>1, ProductsKeepOrder
<1> SUFFICES ASSUME r < q PROVE FALSE
  BY <1>1 DEF q, r
<1>3. d * (r + 1) <= d * q
  BY <1>1, ProductKeepsOrder
<1>4. d * (r + 1) = d * r + d /\ d * r \in Nat
  BY <1>1, ProductNat
<1> QED BY <1>1, <1>2, <1>3, <1>4

\* In one sum no more than a hundredth above the two apart, which are of more power
\* against the wind.
LEMMA NeedIsCovered ==
    ASSUME NEW distance \in Nat, NEW time \in Nat,
           NEW speed \in Nat \ {0}, NEW ground \in Nat \ {0}, ground <= speed,
           NEW h \in Nat, NEW hh \in Nat, h <= hh,
           NEW c \in Nat, NEW cc \in Nat, c <= cc,
           NEW p \in Nat, NEW pp \in Nat, p <= pp
    PROVE  /\ EnergyRequired(distance, time, speed, h, c, p)
                  <= EnergyRequired(0, time, ground, hh, cc, pp)
                         + EnergyRequired(distance, 0, ground, hh, cc, pp) + 1
           /\ EnergyRequired(distance, time, speed, h, c, p) \in Nat
           /\ EnergyRequired(0, time, ground, hh, cc, pp) \in Nat
           /\ EnergyRequired(distance, 0, ground, hh, cc, pp) \in Nat
<1> DEFINE hover == (h + p) * time
           hovers == (hh + pp) * time
           way == (10 * distance) * (c + p)
           ways == (10 * distance) * (cc + pp)
           cruise == way \div speed
           cruises == ways \div ground
<1>1. hover <= hovers /\ hover \in Nat /\ hovers \in Nat
  <2>1. h + p \in Nat /\ hh + pp \in Nat /\ h + p <= hh + pp /\ time <= time
    OBVIOUS
  <2> QED BY <2>1, ProductsKeepOrder
<1>2. way <= ways /\ way \in Nat /\ ways \in Nat
  <2>1. /\ c + p \in Nat /\ cc + pp \in Nat /\ c + p <= cc + pp
        /\ 10 * distance \in Nat /\ 10 * distance <= 10 * distance
    OBVIOUS
  <2> QED BY <2>1, ProductsKeepOrder
<1> HIDE DEF hover, hovers, way, ways
<1>3. cruise <= cruises /\ cruise \in Nat /\ cruises \in Nat
  <2>1. way \div speed <= way \div ground
    BY <1>2, DivByLess
  <2>2. way \div ground <= ways \div ground
    BY <1>2, DivKeepsOrder
  <2>3. way \div speed \in Nat /\ way \div ground \in Nat /\ ways \div ground \in Nat
    BY <1>2, DivNat
  <2> QED BY <2>1, <2>2, <2>3
<1>4. EnergyRequired(distance, time, speed, h, c, p) = RoundDiv(hover + cruise, 3600)
  BY DEF EnergyRequired, hover, cruise, way
<1>5. EnergyRequired(0, time, ground, hh, cc, pp) = RoundDiv(hovers, 3600)
  <2>1. (10 * 0 * (cc + pp)) \div ground = 0
    <3>1. 10 * 0 * (cc + pp) = 0
      OBVIOUS
    <3>2. \A d \in Nat \ {0} : 0 \div d = 0
      OBVIOUS
    <3> QED BY <3>1, <3>2
  <2>2. EnergyRequired(0, time, ground, hh, cc, pp) = RoundDiv(hovers + 0, 3600)
    BY <2>1 DEF EnergyRequired, hovers
  <2>3. hovers + 0 = hovers
    BY <1>1
  <2> QED BY <2>2, <2>3
<1>6. EnergyRequired(distance, 0, ground, hh, cc, pp) = RoundDiv(cruises, 3600)
  <2>1. (hh + pp) * 0 = 0
    OBVIOUS
  <2>2. EnergyRequired(distance, 0, ground, hh, cc, pp) = RoundDiv(0 + cruises, 3600)
    BY <2>1 DEF EnergyRequired, cruises, ways
  <2>3. 0 + cruises = cruises
    BY <1>3
  <2> QED BY <2>2, <2>3
<1> HIDE DEF cruise, cruises
<1>7. /\ hover + cruise \in Nat /\ hovers + cruises \in Nat
      /\ hover + cruise <= hovers + cruises
  BY <1>1, <1>3
<1>8. RoundDiv(hover + cruise, 3600) <= RoundDiv(hovers + cruises, 3600)
  BY <1>7, RoundKeepsOrder
<1>9. RoundDiv(hovers + cruises, 3600) <= RoundDiv(hovers, 3600) + RoundDiv(cruises, 3600) + 1
  BY <1>1, <1>3, RoundSum
<1>10. /\ RoundDiv(hover + cruise, 3600) \in Nat /\ RoundDiv(hovers + cruises, 3600) \in Nat
       /\ RoundDiv(hovers, 3600) \in Nat /\ RoundDiv(cruises, 3600) \in Nat
  BY <1>1, <1>3, <1>7, RoundNat
<1> QED BY <1>4, <1>5, <1>6, <1>8, <1>9, <1>10

LEMMA FlagsOfGo ==
    ASSUME NEW row, NEW payload, NEW params, NEW weather,
           Decide(AssessMission(row, payload, params, weather)) = "GO"
    PROVE  weather.wind <= row.max_wind /\ GroundSpeed(row.cruise_speed, weather.wind) > 0
<1> DEFINE x == AssessMission(row, payload, params, weather)
           viable == x.battery.is_viable
           margin == RoundDiv(row.max_payload - payload.weight, 10)
           speed == GroundSpeed(row.cruise_speed, weather.wind)
<1>1. x.flags = SafetyFlags(viable, margin, speed, weather, row)
  BY AssessmentFields
<1>2. \A name \in DOMAIN x.flags : x.flags[name]
  BY DEF Decide
<1> HIDE DEF x, viable, margin, speed
<1>3. "wind_within_limits" \in DOMAIN x.flags /\ "cruise_achievable" \in DOMAIN x.flags
  BY <1>1 DEF SafetyFlags
<1>4. x.flags["wind_within_limits"] /\ x.flags["cruise_achievable"]
  BY <1>2, <1>3
<1>5. x.flags["wind_within_limits"] = (weather.wind <= row.max_wind)
      /\ x.flags["cruise_achievable"] = (speed > 0)
  BY <1>1 DEF SafetyFlags
<1>6. weather.wind <= row.max_wind /\ speed > 0
  BY <1>4, <1>5, Zenon
<1> QED BY <1>6 DEF speed

\* What the brief needed is what the snapshot needs, but for a hundredth.
LEMMA BriefCoversReplan ==
    ASSUME NEW row, Reckonable(row), NEW payload \in Payloads,
           NEW params, NEW weather, Possible(params, weather),
           Density(params, weather) <= 1000,
           GroundSpeed(row.cruise_speed, weather.wind) > 0,
           NEW attached \in BOOLEAN
    PROVE  LET e == Parts(row, payload, params, weather)
               draw == IF attached THEN 100 * payload.power ELSE 0
               need == EnergyRequired(params.distance, params.hover_time, row.cruise_speed,
                                      100 * row.hover_power, 100 * row.cruise_power, draw)
           IN  /\ e.climb + e.cruise + e.hover + e.descent \in Nat
               /\ need \in Nat
               /\ need <= e.climb + e.cruise + e.hover + e.descent + 1
<1> DEFINE m == RoundDiv(1000 * (row.weight + payload.weight), row.weight)
           d == Density(params, weather)
           h == Scaled(row.hover_power, row, payload, params, weather)
           c == Scaled(row.cruise_power, row, payload, params, weather)
           ground == GroundSpeed(row.cruise_speed, weather.wind)
           full == 100 * payload.power
           draw == IF attached THEN 100 * payload.power ELSE 0
           low == 100 * row.hover_power
           fast == 100 * row.cruise_power
           e == Parts(row, payload, params, weather)
           need == EnergyRequired(params.distance, params.hover_time, row.cruise_speed, low, fast, draw)
<1>1. /\ e.climb \in Nat /\ e.cruise \in Nat /\ e.hover \in Nat /\ e.descent \in Nat
  <2>1. params.altitude >= params.altitude /\ params.hover_time >= params.hover_time
    BY DEF Possible, Params
  <2> QED BY <2>1, PartsKeepOrder
<1>2. /\ params.distance \in Nat /\ params.hover_time \in Nat
      /\ row.cruise_speed \in Nat \ {0} /\ weather.wind \in Nat /\ payload.power \in Nat
      /\ row.hover_power \in Nat /\ row.cruise_power \in Nat
  BY SchemaAssumption, ConditionFields DEF Possible, Params, Reckonable
<1>3. ground \in Nat \ {0} /\ ground <= row.cruise_speed
  BY <1>2 DEF GroundSpeed
<1>4. full \in Nat /\ draw \in Nat /\ draw <= full /\ low \in Nat /\ fast \in Nat
  BY <1>2
<1>5. m \in Ratios /\ m \in Int /\ m >= 1000 /\ m > 0
  <2>1. m \in Ratios /\ m >= 1000 /\ m \in Int
    BY MassRatios
  <2> HIDE DEF m
  <2> QED BY <2>1
<1>6. d \in Ratios /\ d > 0 /\ d <= 1000 /\ d >= d
  <2>1. DensityAltitude(params.elevation, weather.temp, params.altitude) \in Heights
    BY DEF Possible
  <2> DEFINE height == DensityAltitude(params.elevation, weather.temp, params.altitude)
  <2>2. height <= height /\ height \in Heights
    BY <2>1, CurvesAssumption
  <2> HIDE DEF height
  <2>3. /\ AirDensityRatio(height) >= AirDensityRatio(height)
        /\ AirDensityRatio(height) \in Ratios /\ AirDensityRatio(height) > 0
    BY <2>2, DensityKeepsOrder
  <2> QED BY <2>3 DEF Density, height
<1> HIDE DEF m, d
<1>7. low <= h /\ h \in Nat
  BY <1>2, <1>5, <1>6, ScaleAboveReference, ScaleKeepsOrder DEF Scaled, m, d
<1>8. fast <= c /\ c \in Nat
  BY <1>2, <1>5, <1>6, ScaleAboveReference, ScaleKeepsOrder DEF Scaled, m, d
<1>9. /\ e.hover = EnergyRequired(0, params.hover_time, ground, h, c, full)
      /\ e.cruise = EnergyRequired(params.distance, 0, ground, h, c, full)
  BY DEF Parts, EnergyBreakdown
<1> HIDE DEF h, c, ground, full, draw, low, fast, e
<1>10. /\ need <= e.hover + e.cruise + 1 /\ need \in Nat
  <2>1. /\ params.distance \in Nat /\ params.hover_time \in Nat
        /\ row.cruise_speed \in Nat \ {0} /\ ground \in Nat \ {0} /\ ground <= row.cruise_speed
        /\ low \in Nat /\ h \in Nat /\ low <= h /\ fast \in Nat /\ c \in Nat /\ fast <= c
        /\ draw \in Nat /\ full \in Nat /\ draw <= full
    BY <1>2, <1>3, <1>4, <1>7, <1>8
  <2>2. /\ need <= EnergyRequired(0, params.hover_time, ground, h, c, full)
                        + EnergyRequired(params.distance, 0, ground, h, c, full) + 1
        /\ need \in Nat
    BY <2>1, NeedIsCovered
  <2> HIDE DEF need
  <2> QED BY <1>9, <2>2
<1> HIDE DEF need
<1>11. /\ e.climb + e.cruise + e.hover + e.descent \in Nat
       /\ need <= e.climb + e.cruise + e.hover + e.descent + 1
  BY <1>1, <1>10
<1> QED BY <1>10, <1>11 DEF e, need, draw, low, fast

\* A margin of three hundredths leaves the reserve what one more of need takes of it.
LEMMA ReserveIsKept ==
    ASSUME NEW charge \in Nat, NEW required \in Nat, NEW need \in Nat, need <= required + 1,
           RoundDiv(charge * (100 - Reserve) - 1000 * required, 1000) >= 3
    PROVE  /\ Left(charge, 100, need) >= RoundDiv(charge * Reserve, 1000)
           /\ Left(charge, 100, need) \in Int /\ RoundDiv(charge * Reserve, 1000) \in Int
<1> DEFINE kept == charge * Reserve
           usable == charge * (100 - Reserve)
           spare == usable - 1000 * required
           q == (2 * spare + 1000) \div 2000
<1>1. Reserve \in Nat /\ 100 - Reserve \in Nat
  BY SettingsAssumption
<1>2. kept \in Nat /\ usable \in Nat /\ kept + usable = charge * 100
  BY <1>1, ProductNat
<1> HIDE DEF kept, usable
<1>3. spare \in Int
  BY <1>2
<1>4. q \in Int /\ 2000 * q <= 2 * spare + 1000 /\ q >= 3
  <2>1. q >= 3
    BY DEF RoundDiv, usable
  <2> QED BY <1>3, <2>1, DivBounds
<1> HIDE DEF q
<1>5. spare >= 1000
  BY <1>3, <1>4
<1>6. /\ kept <= charge * 100 - 1000 * need
      /\ charge * 100 - 1000 * need \in Int
  BY <1>2, <1>5
<1> QED BY <1>2, <1>6, RoundKeepsOrder DEF Left, kept

\* A GO that the first snapshot confirms is not an order to land.
LEMMA ConfirmedIsNotGrounded ==
    ASSUME NEW row, Reckonable(row), NEW payload \in Payloads,
           NEW params, NEW weather, Possible(params, weather),
           NEW snapshot, TakenIn(snapshot),
           LET mission == Briefed(row, payload, params, weather)
           IN  /\ mission.assessment.decision = "GO"
               /\ mission.assessment.calculations.density <= 1000
               /\ mission.assessment.calculations.battery.margin >= 3
               /\ AtLaunch(snapshot, mission)
    PROVE  Replanned(row, payload, snapshot).recommended_action # "land_now"
<1> DEFINE mission == Briefed(row, payload, params, weather)
           x == AssessMission(row, payload, params, weather)
           e == Parts(row, payload, params, weather)
           live == LiveEnergy(row, payload, snapshot)
           charge == Charge(row.battery, weather.temp)
           draw == IF snapshot.payload_attached THEN 100 * payload.power ELSE 0
           need == EnergyRequired(params.distance, params.hover_time, row.cruise_speed,
                                  100 * row.hover_power, 100 * row.cruise_power, draw)
           alerts == EvaluateReplan(row, payload, snapshot)
<1>1. /\ mission.assessment.decision = Decide(x)
      /\ mission.assessment.calculations = x
      /\ mission.params = params /\ mission.weather = weather /\ mission.payload = payload
  BY DEF Briefed, BuildAssessment
<1>2. /\ x.density = Density(params, weather)
      /\ x.required = e.climb + e.cruise + e.hover + e.descent
      /\ x.battery = CheckBattery(x.required, row.battery, Reserve, weather.temp)
  BY AssessmentFields
<1>3. weather.wind <= row.max_wind /\ GroundSpeed(row.cruise_speed, weather.wind) > 0
  BY <1>1, FlagsOfGo
<1>4. /\ snapshot.soc = 100 /\ snapshot.leg = params.distance
      /\ snapshot.hover = params.hover_time /\ snapshot.oat = weather.temp
      /\ snapshot.wind = weather.wind /\ snapshot.payload_attached \in BOOLEAN
  BY <1>1 DEF AtLaunch, TakenIn, Reports
<1>5. /\ e.climb + e.cruise + e.hover + e.descent \in Nat
      /\ need \in Nat
      /\ need <= e.climb + e.cruise + e.hover + e.descent + 1
  BY <1>1, <1>2, <1>3, <1>4, BriefCoversReplan
<1>6. charge \in Nat
  BY ChargeNat, ConditionFields, SchemaAssumption DEF Reckonable, Possible
<1>7. /\ live.reserve = RoundDiv(charge * Reserve, 1000)
      /\ live.residual = Left(charge, 100, need)
  BY <1>4 DEF LiveEnergy, Left
<1>8. RoundDiv(charge * (100 - Reserve) - 1000 * x.required, 1000) >= 3
  <2>1. x.battery.margin = RoundDiv(charge * (100 - Reserve) - 1000 * x.required, 1000)
    BY <1>2 DEF CheckBattery
  <2> HIDE DEF charge, x
  <2> QED BY <1>1, <2>1
<1> HIDE DEF x, e, live, charge, need
<1>9. x.required \in Nat /\ need <= x.required + 1
  BY <1>2, <1>5
<1>10. /\ live.residual >= live.reserve /\ live.residual \in Int /\ live.reserve \in Int
  BY <1>5, <1>6, <1>7, <1>8, <1>9, ReserveIsKept
<1>11. ~BelowReserve(live)
  BY <1>10 DEF BelowReserve
<1>12. ~(snapshot.wind > row.max_wind)
  BY <1>3, <1>4, SchemaAssumption, ConditionFields DEF Reckonable, Possible
<1>13. \A a \in alerts : a.action # "land_now"
  <2>1. \A a \in EnergyAlert(live) : a.action # "land_now"
    BY <1>11 DEF EnergyAlert, Alert
  <2>2. \A a \in WindAlert(row, snapshot) : a.action # "land_now"
    BY <1>12 DEF WindAlert, Alert
  <2>3. \A a \in StalenessAlert(snapshot) \cup PayloadAlert(payload, snapshot) :
            a.action # "land_now"
    BY DEF StalenessAlert, PayloadAlert, Alert
  <2> QED BY <2>1, <2>2, <2>3 DEF EvaluateReplan, live
<1>14. Replanned(row, payload, snapshot).recommended_action = StrongestAction(alerts)
  BY NormalisedTwice DEF Replanned
<1>15. StrongestAction(alerts) # "land_now"
  <2> DEFINE actions == {a.action : a \in alerts}
  <2>1. alerts \in SUBSET Alerts
    BY EvaluationRaisesAlerts
  <2>2. \A v \in actions : \E j \in 2..4 : v = ActionOrder[j]
    <3>1. 1 \in 1..4
      OBVIOUS
    <3> QED BY <2>1, <3>1, SameRanksRaised
  <2>3. "land_now" \notin actions
    BY <1>13
  <2> HIDE DEF actions
  <2>4. PICK k \in 1..4 : /\ WorstIn(ActionOrder, actions) = ActionOrder[k]
                          /\ k # 1 => ActionOrder[k] \in actions
    BY <2>2, Ranks, WorstIsHighest
  <2>5. ActionOrder[1] # "land_now"
    BY DEF ActionOrder
  <2>6. ActionOrder[k] # "land_now"
    BY <2>3, <2>4, <2>5
  <2> QED BY <2>4, <2>6 DEF StrongestAction, actions
<1> QED BY <1>14, <1>15

-----------------------------------------------------------------------------
(* The specification *)

\* The aircraft is sourced, the brief was made by one assessment of sourced records,
\* and the answer by one evaluation.
IInv ==
    /\ "provenance" \in DOMAIN aircraft /\ WellSourced(aircraft.provenance)
    /\ briefed # None =>
          \E row, payload, params, weather :
              /\ WellSourced(row.provenance) /\ WellSourced(payload.provenance)
              /\ briefed = Briefed(row, payload, params, weather)
    /\ replan # None =>
          \E row, payload, snapshot : replan = Replanned(row, payload, snapshot)

LEMMA AppliedKeepsSources ==
    ASSUME NEW row, "provenance" \in DOMAIN row, WellSourced(row.provenance),
           NEW figure \in {"hover_power", "cruise_power"}, NEW path, NEW estimate,
           \E i \in DOMAIN ConfidenceRank : estimate.confidence = ConfidenceRank[i]
    PROVE  LET later == Applied(row, figure, path, estimate)
           IN  "provenance" \in DOMAIN later /\ WellSourced(later.provenance)
<1> DEFINE later == Applied(row, figure, path, estimate)
           new == [source |-> "flight_log", confidence |-> estimate.confidence]
           provenance == [f \in DOMAIN row.provenance \cup {path} |->
                             IF f = path THEN new ELSE row.provenance[f]]
<1>1. CASE ~Usable(estimate)
  BY <1>1 DEF Applied
<1>2. CASE Usable(estimate)
  <2>1. "provenance" \in DOMAIN later /\ later.provenance = provenance
    BY <1>2 DEF Applied
  <2>2. /\ \E i \in DOMAIN SourceRank : new.source = SourceRank[i]
        /\ \E i \in DOMAIN ConfidenceRank : new.confidence = ConfidenceRank[i]
    BY Places
  <2>3. WellSourced(provenance)
    BY <2>2 DEF WellSourced
  <2> QED BY <2>1, <2>3
<1> QED BY <1>1, <1>2

LEMMA EstimatesAreGraded ==
    ASSUME NEW samples
    PROVE  \E i \in DOMAIN ConfidenceRank : EstimatePower(samples).confidence = ConfidenceRank[i]
<1>1. \A n, iqr, centre : Confidence(n, iqr, centre) \in {"high", "medium", "low"}
  BY DEF Confidence
<1>2. EstimatePower(samples).confidence \in {"high", "medium", "low"}
  BY <1>1 DEF EstimatePower, NoEstimate
<1>3. DOMAIN ConfidenceRank = 1..3
      /\ ConfidenceRank[1] = "low" /\ ConfidenceRank[2] = "medium" /\ ConfidenceRank[3] = "high"
  BY DEF ConfidenceRank
<1> QED BY <1>2, <1>3

LEMMA BriefedFields ==
    ASSUME NEW row, NEW payload, NEW params, NEW weather
    PROVE  /\ Briefed(row, payload, params, weather).aircraft = row
           /\ Briefed(row, payload, params, weather).payload = payload
           /\ Briefed(row, payload, params, weather).weather = weather
BY DEF Briefed

LEMMA InitIInv == Init => IInv
BY SortieAssumption DEF Init, IInv

LEMMA IInvStep == IInv /\ [Next]_vars => IInv'
<1> SUFFICES ASSUME IInv, [Next]_vars PROVE IInv'
  OBVIOUS
<1>1. CASE RecordRow
  BY <1>1 DEF RecordRow, IInv
<1>2. CASE UploadLog
  <2> DEFINE hover == EstimateHoverPower(log)
             cruise == EstimateCruisePower(log)
             once == Applied(aircraft, "hover_power", "aircraft.hover_power_w", hover)
  <2>1. /\ \E i \in DOMAIN ConfidenceRank : hover.confidence = ConfidenceRank[i]
        /\ \E i \in DOMAIN ConfidenceRank : cruise.confidence = ConfidenceRank[i]
    BY EstimatesAreGraded DEF EstimateHoverPower, EstimateCruisePower
  <2>2. "provenance" \in DOMAIN once /\ WellSourced(once.provenance)
    BY <2>1, AppliedKeepsSources DEF IInv
  <2>3. aircraft' = Applied(once, "cruise_power", "aircraft.cruise_power_w", cruise)
        /\ UNCHANGED <<briefed, replan>>
    BY <1>2 DEF UploadLog
  <2> HIDE DEF hover, cruise, once
  <2>4. "provenance" \in DOMAIN aircraft' /\ WellSourced(aircraft'.provenance)
    BY <2>1, <2>2, <2>3, AppliedKeepsSources
  <2> QED BY <2>3, <2>4 DEF IInv, WellSourced
<1>3. CASE Plan
  <2>1. PICK payload \in Payloads, params \in Missions, weather \in Conditions :
            briefed' = Briefed(aircraft, payload, params, weather)
    BY <1>3 DEF Plan
  <2>2. WellSourced(payload.provenance)
    BY SortieAssumption
  <2>3. UNCHANGED aircraft /\ replan' = None
    BY <1>3 DEF Plan
  <2> QED BY <2>1, <2>2, <2>3 DEF IInv
<1>4. CASE Edit
  <2>1. PICK row, payload, params, weather :
            /\ WellSourced(row.provenance) /\ WellSourced(payload.provenance)
            /\ briefed = Briefed(row, payload, params, weather)
    BY <1>4 DEF Edit, IInv
  <2>2. PICK edited : briefed' = Briefed(row, payload, edited, weather)
    BY <1>4, <2>1, BriefedFields DEF Edit
  <2>3. UNCHANGED <<aircraft, replan>>
    BY <1>4 DEF Edit
  <2> QED BY <2>1, <2>2, <2>3 DEF IInv
<1>5. CASE Replan
  <2>1. \E row, payload, snapshot : replan' = Replanned(row, payload, snapshot)
    BY <1>5 DEF Replan
  <2>2. UNCHANGED <<aircraft, briefed>>
    BY <1>5 DEF Replan
  <2> QED BY <2>1, <2>2 DEF IInv
<1>6. CASE UNCHANGED vars
  BY <1>6 DEF vars, IInv
<1> QED BY <1>1, <1>2, <1>3, <1>4, <1>5, <1>6 DEF Next

LEMMA AnswersAgree ==
    ASSUME NEW row, NEW payload, NEW snapshot
    PROVE  LET answer == Replanned(row, payload, snapshot)
           IN  SameRank(answer) /\ (answer.operational_ok <=> answer.severity = "info")
<1> DEFINE alerts == EvaluateReplan(row, payload, Normalised(snapshot))
           answer == Replanned(row, payload, snapshot)
<1>1. alerts \in SUBSET Alerts
  BY EvaluationRaisesAlerts
<1>2. /\ answer.severity = WorstSeverity(alerts)
      /\ answer.recommended_action = StrongestAction(alerts)
      /\ answer.operational_ok <=> alerts = {}
  BY DEF Replanned
<1> HIDE DEF alerts
<1>3. /\ RankIn(SeverityOrder, WorstSeverity(alerts)) = RankIn(ActionOrder, StrongestAction(alerts))
      /\ alerts = {} <=> WorstSeverity(alerts) = "info"
  BY <1>1, MaximaAgree
<1> QED BY <1>2, <1>3 DEF SameRank

LEMMA BriefsAgree ==
    ASSUME NEW row, NEW payload, NEW params, NEW weather,
           WellSourced(row.provenance), WellSourced(payload.provenance)
    PROVE  LET assessment == Briefed(row, payload, params, weather).assessment
               labels == assessment.labels
           IN  /\ assessment.is_viable <=> assessment.decision = "GO"
               /\ (\A figure \in DOMAIN labels : labels[figure].operational_grade)
                     => "POWER_NOT_OPERATIONAL_GRADE" \notin assessment.blockers
               /\ \A figure \in DOMAIN labels :
                     labels[figure].operational_grade
                         <=> labels[figure].source \in OperationalSources
<1> DEFINE provenance == Provenance(row, payload)
           calculations == AssessMission(row, payload, params, weather)
           blockers == OperationalBlockers(weather, provenance, FALSE)
           assessment == Briefed(row, payload, params, weather).assessment
           labels == NumberProvenance(provenance)
<1>1. WellSourced(provenance)
  BY DEF Provenance, WellSourced
<1>2. /\ assessment.decision = Decide(calculations)
      /\ assessment.is_viable = IsMissionViable(calculations)
      /\ assessment.blockers = blockers
      /\ assessment.labels = labels
  BY DEF Briefed, BuildAssessment
<1>3. IsMissionViable(calculations) <=> Decide(calculations) = "GO"
  <2>1. \E viable, margin, speed :
            calculations.flags = SafetyFlags(viable, margin, speed, weather, row)
    BY DEF AssessMission
  <2> HIDE DEF calculations
  <2> QED BY <2>1, ViableIsGo
<1>4. PowerIsOperationalGrade(provenance) => "POWER_NOT_OPERATIONAL_GRADE" \notin blockers
  BY DEF OperationalBlockers
<1>5. /\ (\A figure \in DOMAIN labels : labels[figure].operational_grade)
            => PowerIsOperationalGrade(provenance)
      /\ \A figure \in DOMAIN labels :
            labels[figure].operational_grade <=> labels[figure].source \in OperationalSources
  <2> HIDE DEF provenance
  <2> QED BY <1>1, LabelsAgree
<1> HIDE DEF provenance, calculations, blockers, labels
<1> QED BY <1>2, <1>3, <1>4, <1>5

\* Severity and action of an answer are of one rank, an answer is operational exactly
\* if nothing is outstanding, viability is the decision, and labels agree with the
\* gate, whatever is planned, edited, flown and measured.
THEOREM EverybodySaysTheSame == Spec => []OneVoice
<1>1. IInv => OneVoice
  <2> SUFFICES ASSUME IInv PROVE OneVoice
    OBVIOUS
  <2>1. ASSUME replan # None
        PROVE  SameRank(replan) /\ (replan.operational_ok <=> replan.severity = "info")
    <3>1. PICK row, payload, snapshot : replan = Replanned(row, payload, snapshot)
      BY <2>1 DEF IInv
    <3> QED BY <3>1, AnswersAgree
  <2>2. ASSUME briefed # None
        PROVE  LET assessment == briefed.assessment
                   labels == assessment.labels
               IN  /\ assessment.is_viable <=> assessment.decision = "GO"
                   /\ (\A figure \in DOMAIN labels : labels[figure].operational_grade)
                         => "POWER_NOT_OPERATIONAL_GRADE" \notin assessment.blockers
                   /\ \A figure \in DOMAIN labels :
                         labels[figure].operational_grade
                             <=> labels[figure].source \in OperationalSources
    <3>1. PICK row, payload, params, weather :
              /\ WellSourced(row.provenance) /\ WellSourced(payload.provenance)
              /\ briefed = Briefed(row, payload, params, weather)
      BY <2>2 DEF IInv
    <3> QED BY <3>1, BriefsAgree
  <2> QED BY <2>1, <2>2 DEF OneVoice
<1> QED BY <1>1, InitIInv, IInvStep, PTL DEF Spec

-----------------------------------------------------------------------------
(* What is reckoned with is in range *)

\* The fields that a budget is reckoned with.
Fields ==
    {"weight", "battery", "cruise_speed", "hover_power", "cruise_power", "max_payload", "max_wind"}

LEMMA BundledIsReckonable == Reckonable(Bundled) /\ Fields \subseteq DOMAIN Bundled
<1>1. Bundled.hover_power \in Nat /\ Bundled.cruise_power \in Nat
  BY SchemaAssumption
<1>2. Fields \subseteq DOMAIN Bundled
  BY SchemaAssumption DEF Fields
<1> QED BY <1>1, <1>2 DEF Reckonable

LEMMA AppliedIsReckonable ==
    ASSUME NEW row, Reckonable(row), Fields \subseteq DOMAIN row,
           NEW figure \in {"hover_power", "cruise_power"}, NEW path, NEW estimate,
           estimate.twice_w \in Nat
    PROVE  LET later == Applied(row, figure, path, estimate)
           IN  Reckonable(later) /\ Fields \subseteq DOMAIN later
<1> DEFINE later == Applied(row, figure, path, estimate)
           watts == RoundDiv(estimate.twice_w, 2)
<1>1. CASE ~Usable(estimate)
  BY <1>1 DEF Applied
<1>2. CASE Usable(estimate)
  <2>1. watts \in Nat
    BY RoundNat
  <2> HIDE DEF watts
  <2>2. /\ DOMAIN later = DOMAIN row
        /\ \A f \in DOMAIN row \ {"provenance"} : later[f] = IF f = figure THEN watts ELSE row[f]
    BY <1>2 DEF Applied, watts
  <2> HIDE DEF later
  <2>3. \A f \in Fields : later[f] = IF f = figure THEN watts ELSE row[f]
    BY <2>2 DEF Fields
  <2>4. /\ later.weight = row.weight /\ later.battery = row.battery
        /\ later.max_payload = row.max_payload /\ later.max_wind = row.max_wind
        /\ later.cruise_speed = row.cruise_speed
        /\ later.hover_power \in {watts, row.hover_power}
        /\ later.cruise_power \in {watts, row.cruise_power}
    BY <2>3 DEF Fields
  <2>5. Reckonable(later)
    BY <2>1, <2>4 DEF Reckonable
  <2> QED BY <2>2, <2>5 DEF later
<1> QED BY <1>1, <1>2

\* What may be asked for: at first, or by an edit.
Asked(params) ==
    /\ params \in Params
    /\ \E mission \in Missions : params.elevation = mission.elevation
    /\ params.altitude \in Altitudes \cup {mission.altitude : mission \in Missions}

LEMMA AskedIsPossible ==
    ASSUME NEW params, Asked(params), NEW weather \in Conditions
    PROVE  Possible(params, weather)
<1>1. PICK mission \in Missions : params.elevation = mission.elevation
  BY DEF Asked
<1>2. DensityAltitude(mission.elevation, weather.temp, params.altitude) \in Flown
  BY DEF Asked, Flown
<1>3. DensityAltitude(params.elevation, weather.temp, params.altitude) \in Heights
  BY <1>1, <1>2, RangeAssumption
<1> QED BY <1>3 DEF Possible, Asked

LEMMA MissionsAreAsked ==
    ASSUME NEW params \in Missions
    PROVE  Asked(params)
BY SchemaAssumption DEF Asked, Params

LEMMA EditsAreAsked ==
    ASSUME NEW params, Asked(params), NEW altitude \in Altitudes, NEW hover_time \in HoverTimes
    PROVE  Asked([params EXCEPT !.altitude = altitude, !.hover_time = hover_time])
<1>1. altitude \in Nat /\ hover_time \in Nat
  BY SchemaAssumption
<1> QED BY <1>1 DEF Asked, Params

\* The log is numbered, the aircraft and the mission are in range, and the answer is
\* the one to the snapshot there is.
Reckoned ==
    /\ Numbered(log)
    /\ Reckonable(aircraft)
    /\ briefed # None =>
          \E row, payload, params, weather :
              /\ Reckonable(row) /\ payload \in Payloads
              /\ Asked(params) /\ weather \in Conditions
              /\ briefed = Briefed(row, payload, params, weather)
    /\ flown # None =>
          /\ TakenIn(flown)
          /\ replan = Replanned(briefed.aircraft, briefed.payload, flown)

LEMMA InitReckoned == Init => Reckoned
<1> SUFFICES ASSUME Init PROVE Reckoned
  OBVIOUS
<1>1. Numbered({})
  <2>1. IsFiniteSet({}) /\ Cardinality({}) = 0 /\ 1..0 = {}
    BY FS_EmptySet
  <2> QED BY <2>1 DEF Numbered
<1> QED BY <1>1, BundledIsReckonable DEF Init, Reckoned

LEMMA ReckonedStep == Reckoned /\ [Next]_vars => Reckoned'
<1> SUFFICES ASSUME Reckoned, [Next]_vars PROVE Reckoned'
  OBVIOUS
<1>1. CASE RecordRow
  <2>1. PICK recorded \in RecordedRows : log' = log \cup {NextRow(recorded)}
    BY <1>1 DEF RecordRow
  <2>2. Numbered(log')
    BY <2>1, NextRowIsNumbered DEF Reckoned
  <2>3. UNCHANGED <<aircraft, briefed, flown, replan>>
    BY <1>1 DEF RecordRow
  <2> QED BY <2>2, <2>3 DEF Reckoned
<1>2. CASE UploadLog
  <2> DEFINE hover == EstimateHoverPower(log)
             cruise == EstimateCruisePower(log)
             once == Applied(aircraft, "hover_power", "aircraft.hover_power_w", hover)
  <2>1. hover.twice_w \in Nat /\ cruise.twice_w \in Nat
    BY SelectionsAreRanked, EstimateNat DEF EstimateHoverPower, EstimateCruisePower, Reckoned
  <2>2. Reckonable(aircraft) /\ Fields \subseteq DOMAIN aircraft
    BY <1>2, BundledIsReckonable DEF UploadLog
  <2>3. Reckonable(once) /\ Fields \subseteq DOMAIN once
    BY <2>1, <2>2, AppliedIsReckonable
  <2>4. /\ aircraft' = Applied(once, "cruise_power", "aircraft.cruise_power_w", cruise)
        /\ log' = {} /\ UNCHANGED <<briefed, flown, replan>>
    BY <1>2 DEF UploadLog
  <2> HIDE DEF hover, cruise, once
  <2>5. Reckonable(aircraft')
    BY <2>1, <2>3, <2>4, AppliedIsReckonable
  <2>6. Numbered(log')
    <3>1. IsFiniteSet({}) /\ Cardinality({}) = 0 /\ 1..0 = {}
      BY FS_EmptySet
    <3> QED BY <2>4, <3>1 DEF Numbered
  <2> QED BY <2>4, <2>5, <2>6 DEF Reckoned
<1>3. CASE Plan
  <2>1. PICK payload \in Payloads, params \in Missions, weather \in Conditions :
            briefed' = Briefed(aircraft, payload, params, weather)
    BY <1>3 DEF Plan
  <2>2. Asked(params)
    BY MissionsAreAsked
  <2>3. UNCHANGED <<log, aircraft>> /\ flown' = None
    BY <1>3 DEF Plan
  <2>4. Reckonable(aircraft) /\ Numbered(log)
    BY DEF Reckoned
  <2>5. \E craft, load, p, w :
            /\ Reckonable(craft) /\ load \in Payloads /\ Asked(p) /\ w \in Conditions
            /\ briefed' = Briefed(craft, load, p, w)
    BY <2>1, <2>2, <2>4
  <2> QED BY <2>3, <2>4, <2>5 DEF Reckoned
<1>4. CASE Edit
  <2>1. PICK row, payload, params, weather :
            /\ Reckonable(row) /\ payload \in Payloads /\ Asked(params) /\ weather \in Conditions
            /\ briefed = Briefed(row, payload, params, weather)
    BY <1>4 DEF Edit, Reckoned
  <2>2. /\ briefed.aircraft = row /\ briefed.payload = payload
        /\ briefed.params = params /\ briefed.weather = weather
    BY <2>1 DEF Briefed
  <2>3. PICK altitude \in Altitudes, hover_time \in HoverTimes :
            briefed' = Briefed(row, payload,
                               [params EXCEPT !.altitude = altitude, !.hover_time = hover_time],
                               weather)
    BY <1>4, <2>2 DEF Edit
  <2>4. Asked([params EXCEPT !.altitude = altitude, !.hover_time = hover_time])
    BY <2>1, EditsAreAsked
  <2>5. briefed'.aircraft = briefed.aircraft /\ briefed'.payload = briefed.payload
    BY <2>2, <2>3, BriefedFields
  <2>6. UNCHANGED <<log, aircraft, flown, replan>>
    BY <1>4 DEF Edit
  <2>7. \E craft, load, p, w :
            /\ Reckonable(craft) /\ load \in Payloads /\ Asked(p) /\ w \in Conditions
            /\ briefed' = Briefed(craft, load, p, w)
    BY <2>1, <2>3, <2>4
  <2> QED BY <2>5, <2>6, <2>7 DEF Reckoned
<1>5. CASE Replan
  <2>1. PICK snapshot \in Snapshots :
            /\ flown' = Normalised(snapshot)
            /\ replan' = Replanned(briefed.aircraft, briefed.payload, snapshot)
    BY <1>5 DEF Replan
  <2>2. TakenIn(flown')
    BY <2>1, NormalisedOnce
  <2>3. Normalised(flown') = Normalised(snapshot)
    BY <2>1, <2>2, NormalisedTwice
  <2>4. replan' = Replanned(briefed.aircraft, briefed.payload, flown')
    BY <2>1, <2>3 DEF Replanned
  <2>5. UNCHANGED <<log, aircraft, briefed>>
    BY <1>5 DEF Replan
  <2> QED BY <2>2, <2>4, <2>5 DEF Reckoned
<1>6. CASE UNCHANGED vars
  BY <1>6 DEF vars, Reckoned
<1> QED BY <1>1, <1>2, <1>3, <1>4, <1>5, <1>6 DEF Next

\* A power that goes by the name of hover is bracketed by two drawn in level flight, in
\* a file of any length and labelled in any way, where the rows whose climb cannot be
\* told (the first, and those with the time of the row before) are fewer than half of
\* the samples.
THEOREM LabelsDoNotMakeHover == Spec => []HoverFigureIsOfHover
<1>1. Reckoned => HoverFigureIsOfHover
  BY HoverFigureIsLevel DEF Reckoned
<1> QED BY <1>1, InitReckoned, ReckonedStep, PTL DEF Spec

\* No aircraft sent off with a GO, three points of charge above the reserve and in air
\* no denser than the reference, is ordered to land by the snapshot that confirms its
\* brief.
THEOREM GoIsNotGrounded == Spec => []BriefAndReplanAgree
<1>1. Reckoned => BriefAndReplanAgree
  <2> SUFFICES ASSUME Reckoned, briefed # None, flown # None,
                      replan = Replanned(briefed.aircraft, briefed.payload, flown),
                      briefed.assessment.decision = "GO",
                      briefed.assessment.calculations.density <= 1000,
                      briefed.assessment.calculations.battery.margin >= 3,
                      AtLaunch(flown, briefed)
               PROVE  replan.recommended_action # "land_now"
    BY DEF BriefAndReplanAgree
  <2>1. PICK row, payload, params, weather :
            /\ Reckonable(row) /\ payload \in Payloads /\ Asked(params) /\ weather \in Conditions
            /\ briefed = Briefed(row, payload, params, weather)
    BY DEF Reckoned
  <2>2. Possible(params, weather)
    BY <2>1, AskedIsPossible
  <2>3. TakenIn(flown)
    BY DEF Reckoned
  <2>4. Replanned(row, payload, flown).recommended_action # "land_now"
    BY <2>1, <2>2, <2>3, ConfirmedIsNotGrounded
  <2> QED BY <2>1, <2>4, BriefedFields
<1> QED BY <1>1, InitReckoned, ReckonedStep, PTL DEF Spec

\* Asking for more never turns a NO_GO into a GO, and a snapshot that is nothing
\* better never brings milder advice.
THEOREM NothingGetsMilder == Spec => NeverMilder
<1> DEFINE Stricter ==
        (/\ briefed # None /\ AsksForMore(briefed', briefed)
         /\ briefed.assessment.decision = "NO_GO")
            => briefed'.assessment.decision = "NO_GO"
           Harder ==
        (briefed # None /\ flown # None /\ briefed' = briefed /\ AtLeastAsBad(flown', flown))
            => /\ RankIn(ActionOrder, replan'.recommended_action)
                      >= RankIn(ActionOrder, replan.recommended_action)
               /\ RankIn(SeverityOrder, replan'.severity)
                      >= RankIn(SeverityOrder, replan.severity)
<1>1. Reckoned /\ [Next]_vars => [Stricter /\ Harder]_vars
  <2> SUFFICES ASSUME Reckoned, Next, briefed # None PROVE Stricter /\ Harder
    OBVIOUS
  <2>1. PICK row, payload, params, weather :
            /\ Reckonable(row) /\ payload \in Payloads /\ Asked(params) /\ weather \in Conditions
            /\ briefed = Briefed(row, payload, params, weather)
    BY DEF Reckoned
  <2>2. /\ briefed.aircraft = row /\ briefed.payload = payload
        /\ briefed.params = params /\ briefed.weather = weather
    BY <2>1 DEF Briefed
  <2>3. \A p : Briefed(row, payload, p, weather).assessment.decision
                   = Decide(AssessMission(row, payload, p, weather))
               /\ Briefed(row, payload, p, weather).params = p
    BY DEF Briefed, BuildAssessment
  <2>4. CASE Edit
    <3>1. PICK altitude \in Altitudes, hover_time \in HoverTimes :
              briefed' = Briefed(row, payload,
                                 [params EXCEPT !.altitude = altitude, !.hover_time = hover_time],
                                 weather)
      BY <2>2, <2>4 DEF Edit
    <3> DEFINE edited == [params EXCEPT !.altitude = altitude, !.hover_time = hover_time]
    <3>2. Asked(edited) /\ Possible(edited, weather) /\ Possible(params, weather)
      BY <2>1, EditsAreAsked, AskedIsPossible
    <3>3. briefed' = Briefed(row, payload, edited, weather)
      BY <3>1
    <3> HIDE DEF edited
    <3>4. Stricter
      <4> SUFFICES ASSUME AsksForMore(briefed', briefed), briefed.assessment.decision = "NO_GO"
                   PROVE  briefed'.assessment.decision = "NO_GO"
        OBVIOUS
      <4>1. /\ edited.distance = params.distance /\ edited.elevation = params.elevation
            /\ edited.altitude >= params.altitude /\ edited.hover_time >= params.hover_time
        BY <2>2, <2>3, <3>3 DEF AsksForMore
      <4>2. Decide(AssessMission(row, payload, params, weather)) = "NO_GO"
        BY <2>1, <2>3
      <4>3. Decide(AssessMission(row, payload, edited, weather)) = "NO_GO"
        BY <2>1, <3>2, <4>1, <4>2, AskingForMore
      <4> QED BY <2>3, <3>3, <4>3
    <3>5. Harder
      <4> SUFFICES ASSUME flown # None, AtLeastAsBad(flown', flown)
                   PROVE  /\ RankIn(ActionOrder, replan'.recommended_action)
                                 >= RankIn(ActionOrder, replan.recommended_action)
                          /\ RankIn(SeverityOrder, replan'.severity)
                                 >= RankIn(SeverityOrder, replan.severity)
        OBVIOUS
      <4>1. /\ flown' = flown /\ replan' = replan
            /\ TakenIn(flown) /\ replan = Replanned(row, payload, flown)
        BY <2>2, <2>4 DEF Edit, Reckoned
      <4>2. AtLeastAsBad(flown, flown)
        BY <4>1
      <4> QED BY <2>1, <4>1, <4>2, AdviceKeepsOrder
    <3> QED BY <3>4, <3>5
  <2>5. CASE Replan
    <3>1. PICK snapshot \in Snapshots :
              /\ flown' = Normalised(snapshot)
              /\ replan' = Replanned(row, payload, snapshot)
      BY <2>2, <2>5 DEF Replan
    <3>2. TakenIn(flown') /\ Normalised(flown') = Normalised(snapshot)
      BY <3>1, NormalisedOnce, NormalisedTwice
    <3>3. replan' = Replanned(row, payload, flown')
      BY <3>1, <3>2 DEF Replanned
    <3>4. Harder
      <4> SUFFICES ASSUME flown # None, AtLeastAsBad(flown', flown)
                   PROVE  /\ RankIn(ActionOrder, replan'.recommended_action)
                                 >= RankIn(ActionOrder, replan.recommended_action)
                          /\ RankIn(SeverityOrder, replan'.severity)
                                 >= RankIn(SeverityOrder, replan.severity)
        OBVIOUS
      <4>1. TakenIn(flown) /\ replan = Replanned(row, payload, flown)
        BY <2>2 DEF Reckoned
      <4> QED BY <2>1, <3>2, <3>3, <4>1, AdviceKeepsOrder
    <3>5. Stricter
      BY <2>5 DEF Replan
    <3> QED BY <3>4, <3>5
  <2>6. CASE RecordRow \/ UploadLog \/ Plan
    BY <2>6 DEF RecordRow, UploadLog, Plan
  <2> QED BY <2>4, <2>5, <2>6 DEF Next
<1> QED BY <1>1, InitReckoned, ReckonedStep, PTL DEF Spec, NeverMilder
=============================================================================
