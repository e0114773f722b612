---------------------------- MODULE MCLokiBatch ----------------------------
(* Model values for checking LokiBatch with TLC. *)
EXTENDS LokiBatch

EntrySymmetry == Permutations(Entries \ Unconvertible)

NoFaults == {}
AbandonOrSync == {"abandon", "sync-error"}

=============================================================================
