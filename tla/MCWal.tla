------------------------------- MODULE MCWal -------------------------------
(* Model values for checking Wal with TLC. *)
EXTENDS Wal, TLC

EntrySymmetry == Permutations(Entries)

NoFaults == {}

\* A caller that forgets a record stalls the checkpoint for as long as its process
\* runs: without that, nothing does.
NothingForgotten == AllFaults \ {"abandon"}

=============================================================================
