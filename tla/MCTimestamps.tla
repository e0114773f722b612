---------------------------- MODULE MCTimestamps ----------------------------
(* Model values for checking Timestamps with TLC. *)
EXTENDS Timestamps

FourTimes == 0..3

=============================================================================
