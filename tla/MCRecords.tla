------------------------------ MODULE MCRecords ------------------------------
(***************************************************************************)
(* The sort order of record ids, for the runs of the ledger and its        *)
(* clients.  Any order will do.  This one counts them off: each id has the *)
(* number of those before it as its place.                                 *)
(***************************************************************************)
EXTENDS Ledger
LOCAL INSTANCE TLC
LOCAL INSTANCE FiniteSetsExt

\* A definition of its own, so that TLC counts once.
CountedOff ==
    FoldSet(LAMBDA record, places : places @@ record :> Cardinality(DOMAIN places),
            <<>>, RecordIds)

SortOrder == [record \in RecordIds |-> CountedOff[record]]
=============================================================================
