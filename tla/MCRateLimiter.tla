---------------------------- MODULE MCRateLimiter ----------------------------
(* Instances of RateLimiter small enough for TLC. *)
EXTENDS RateLimiter

\* Two admissions fill the window; a second is two ticks and the window three, so
\* that the time left is a fraction of a second half of the time.
MCWindow == 3
MCSecond == 2
MCKinds == {"postgresql", "sqlite", "memory"}
=============================================================================
