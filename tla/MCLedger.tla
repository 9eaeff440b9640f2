------------------------------ MODULE MCLedger ------------------------------
(* Model values for the runs of Ledger. *)
EXTENDS MCRecords, TLC

Symmetric == Permutations(Values) \cup Permutations(CurrentValues)

=============================================================================
