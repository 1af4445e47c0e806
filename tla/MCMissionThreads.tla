--------------------------- MODULE MCMissionThreads ---------------------------
(* Instances of MissionThreads small enough for TLC. *)
EXTENDS MissionThreads, TLC

\* Requests of one kind, and workers, are interchangeable (for safety only).
MCSymmetry == Permutations(Plans) \cup Permutations(Replans) \cup Permutations(Workers)
=============================================================================
