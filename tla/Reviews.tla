------------------------------- MODULE Reviews -------------------------------
(***************************************************************************)
(* What the acknowledgement endpoint promises about one planning thread    *)
(* (api/thread_locks.py: "one interrupt is resumed once"; docs/ops.md:     *)
(* two simultaneous acknowledgements produce exactly one brief).           *)
(*                                                                         *)
(* A review opens each time a run pauses with an assessment to sign. It    *)
(* takes at most one decision, ever: not a second from a duplicate or      *)
(* concurrent acknowledgement, and not a second after a crash.             *)
(***************************************************************************)
EXTENDS Naturals, Sequences

VARIABLES
    opened,   \* number of reviews opened so far; they are numbered from 1
    decided   \* the reviews decided, in the order of the decisions

vars == <<opened, decided>>

Decided(i) == \E k \in DOMAIN decided : decided[k] = i

Init ==
    /\ opened = 0
    /\ decided = <<>>

Open ==
    /\ opened' = opened + 1
    /\ UNCHANGED decided

Decide(i) ==
    /\ ~Decided(i)
    /\ decided' = Append(decided, i)
    /\ UNCHANGED opened

Next == Open \/ \E i \in 1 .. opened : Decide(i)

Spec == Init /\ [][Next]_vars
=============================================================================
