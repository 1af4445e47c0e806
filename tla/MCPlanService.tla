---------------------------- MODULE MCPlanService ----------------------------
(* Instances of PlanService small enough for TLC. *)
EXTENDS PlanService, TLC

CONSTANTS scout, ghost, cam, spare, low, high

Request(aircraft, params) ==
    [aircraft_id |-> aircraft, payload_id |-> cam, mission_params |-> params]

\* One airframe, planned once or over and over at the same altitude.
MCPlanRequests == {Request(scout, low)}

\* A thread planned over with another payload, for an airframe nobody knows.
MCPlanRequestsOther ==
    {Request(scout, low), [Request(ghost, low) EXCEPT !.payload_id = spare]}

\* A thread planned over at another altitude.
MCPlanRequestsRevised == {Request(scout, low), Request(scout, high)}

\* Edits of the altitude.
MCEdits == {[mission_params |-> high, payload_id |-> None]}

\* Requests of one kind are interchangeable (for safety properties only).
MCSymmetry == Permutations(Plans) \cup Permutations(Acks)
=============================================================================
