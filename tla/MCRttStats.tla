------------------------------ MODULE MCRttStats -----------------------------
(* RttStats for TLC. *)
EXTENDS RttStats

\* Round trips, one of them negative: the pong of a ping stamped by a clock that
\* was ahead (before a restart).
TwoRtts == {-1, 1, 4}
=============================================================================
