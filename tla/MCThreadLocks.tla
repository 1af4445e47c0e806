---------------------------- MODULE MCThreadLocks ----------------------------
(* Instances of ThreadLocks small enough for TLC. *)
EXTENDS ThreadLocks, TLC

CONSTANTS c1, c2, c3, c4, c5, hot, warm, cold

\* Three callers race for one thread while two others fill the table.
MCThreadOf == (c1 :> hot) @@ (c2 :> hot) @@ (c3 :> hot) @@ (c4 :> warm) @@ (c5 :> cold)
=============================================================================
