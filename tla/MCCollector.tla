---------------------------- MODULE MCCollector ----------------------------
(* The runs of Collector alone: it has no more to set than the order of    *)
(* the ledger's records.                                                   *)
EXTENDS Collector, MCRecords
=============================================================================
