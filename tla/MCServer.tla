------------------------------ MODULE MCServer ------------------------------
(***************************************************************************)
(* Model values for checking Server with TLC.  A tick is five seconds: the *)
(* program's ReadTimeout, saveTimeout, probeTimeout and shutdownTimeout    *)
(* are 3, 4, 1 and 6, and every configuration has these values.            *)
(***************************************************************************)
EXTENDS Server

=============================================================================
