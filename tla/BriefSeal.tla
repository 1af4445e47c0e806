------------------------------ MODULE BriefSeal ------------------------------
(***************************************************************************)
(* What graph/seal.py and _vet_prose let through of the prose a language   *)
(* model wrote.  A number is counted in tenths, and its sign is not seen   *)
(* by the patterns.  A literal is a number together with the decimals it   *)
(* is written with; prose is                                               *)
(*                                                                         *)
(*   go       whether it has go-language outside the negated forms         *)
(*   states   the literals it puts a unit to                               *)
(*                                                                         *)
(* A published brief is who wrote it and the prose; what code writes has   *)
(* no prose of its own here, since it is rendered from the assessment.     *)
(***************************************************************************)
EXTENDS Integers

\* Round half to even, to the decimals of a literal: 0 or 1.
RoundTo(tenths, decimals) ==
    LET unit == tenths \div 10
        rest == tenths % 10
        up == rest > 5 \/ (rest = 5 /\ unit % 2 = 1)
    IN  CASE decimals = 1 -> tenths
          [] decimals = 0 -> 10 * (IF up THEN unit + 1 ELSE unit)

Supported(literal, numbers) ==
    \E n \in numbers : RoundTo(n, literal.decimals) = literal.tenths

UnsupportedNumerics(prose, numbers) ==
    {l \in prose.states : ~Supported(l, numbers)}

\* find_contradiction: go-language under any decision that is not GO.
Contradicts(prose, decision) == decision # "GO" /\ prose.go

Silent == [go |-> FALSE, states |-> {}]
Deterministic(by) == [by |-> by, prose |-> Silent, violations |-> FALSE]
FallbackReport == Deterministic("narrative_unavailable")

\* The brief and whether seal_violations are stored with it.
VetProse(prose, decision, numbers) ==
    IF \/ Contradicts(prose, decision)
       \/ UnsupportedNumerics(prose, numbers) # {}
    THEN [Deterministic("template") EXCEPT !.violations = TRUE]
    ELSE [by |-> "llm", prose |-> prose, violations |-> FALSE]

\* report_source: "model" for no brief, one that code wrote or one the seal withheld.
ReportSource(brief) ==
    IF brief.by \in {"none", "narrative_unavailable"} \/ brief.violations
    THEN "deterministic"
    ELSE "model"
=============================================================================
