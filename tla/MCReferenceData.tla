--------------------------- MODULE MCReferenceData ----------------------------
(* Instances of ReferenceData small enough for TLC. *)
EXTENDS ReferenceData, TLC

CONSTANTS hover, cruise, u1, u2, u3, hoverLog, cruiseLog

\* Each file has just enough samples of one field, and one too few of the other.
MCSamples == hoverLog :> (hover :> 3 @@ cruise :> 2) @@ cruiseLog :> (hover :> 2 @@ cruise :> 3)
MCCorrected == {{hover}}
MCContent == [u \in Uploads |-> IF u = u2 THEN cruiseLog ELSE hoverLog]
=============================================================================
