------------------------------ MODULE ChangeLog ------------------------------
(***************************************************************************)
(* The public change feed of the activity ledger: table change_log of      *)
(* openusage_bar/activity_store.py.  Every write transaction of the store  *)
(* appends the changes it makes to the public facts, in change_seq order,  *)
(* and GET /v1/changes serves the log page by page.                        *)
(*                                                                         *)
(* change_seq is AUTOINCREMENT, rows are never deleted and a rolled back   *)
(* transaction gives its numbers back, so the log is a sequence and        *)
(* change_seq is the position in it.                                       *)
(***************************************************************************)
EXTENDS Naturals, Sequences, FiniteSets

CONSTANTS
    None,        \* SQL NULL, and the row of an absent record
    Place,       \* [record ids -> Nat], the sort order of record ids
    MaxChanges   \* bound: no transaction starts once the log is this long

VARIABLES
    changeLog,   \* sequence of changes, change_seq = index
    raised       \* did the last transaction raise and roll back?

feedVars == <<changeLog, raised>>

ASSUME BoundAssumption == MaxChanges \in Nat

-----------------------------------------------------------------------------
(* A record is named by its type and its key within the type.              *)

RecordId(type, key) == <<type, key>>

Change(record, revision, operation, payload) ==
    [record    |-> record,
     revision  |-> revision,
     operation |-> operation,
     payload   |-> payload]

HighWater == Len(changeLog)

ChangesOf(record) == {i \in 1..Len(changeLog) : changeLog[i].record = record}

RevisionsOf(record) == {changeLog[i].revision : i \in ChangesOf(record)}

(* SELECT COALESCE(MAX(revision),0) *)
LatestRevision(record) ==
    CHOOSE n \in RevisionsOf(record) \cup {0} :
        \A m \in RevisionsOf(record) : m <= n

NextRevision(record) == LatestRevision(record) + 1

(* The UNIQUE index change_log_record_revision_unique rejects an INSERT    *)
(* that repeats a published (record, revision) pair.                       *)
Collides(changes) ==
    \E c \in changes : c.revision \in RevisionsOf(c.record)

-----------------------------------------------------------------------------
(* Transactions.  BEGIN IMMEDIATE admits one writer at a time, in any      *)
(* process, so a transaction is one step.  It appends all its changes, or  *)
(* the UNIQUE index rejects one of them: then the store rolls everything   *)
(* back and the caller gets the exception (raised).  `position` gives each *)
(* change its place in the transaction; changes of equal position come in  *)
(* the order of their ids.                                                 *)

CanWrite == Len(changeLog) < MaxChanges

Precedes(c, d, position) ==
    \/ position[c] < position[d]
    \/ position[c] = position[d] /\ Place[c.record] < Place[d.record]

InOrder(changes, position) ==
    [i \in 1..Cardinality(changes) |->
        CHOOSE c \in changes :
            Cardinality({d \in changes : Precedes(d, c, position)}) = i - 1]

RollBack == changeLog' = changeLog /\ raised' = TRUE

(* Nothing to publish: an early return, or a row equal to the stored one.  *)
NothingPublished == changeLog' = changeLog /\ raised' = FALSE

Commit(changes, position) ==
    IF Collides(changes) THEN RollBack
    ELSE changeLog' = changeLog \o InOrder(changes, position) /\ raised' = FALSE

(* Used after Commit: the new value of a table, kept only if it committed. *)
Committed(new, old) == IF raised' THEN old ELSE new

-----------------------------------------------------------------------------
(* What a consumer that applies the whole log holds for a record: the      *)
(* payload of its last change; a delete carries no payload.                *)
Replayed(record) ==
    LET I == ChangesOf(record)
    IN  IF I = {} THEN None
        ELSE changeLog[CHOOSE i \in I : \A j \in I : j <= i].payload

(* The revisions of one record count its changes: they rise in log order   *)
(* and leave no gap, across deletion and re-insertion.                     *)
RevisionsContinue ==
    /\ \A i, j \in 1..Len(changeLog) :
          i < j /\ changeLog[i].record = changeLog[j].record
          => changeLog[i].revision < changeLog[j].revision
    /\ \A i \in 1..Len(changeLog) :
          \/ changeLog[i].revision = 1
          \/ \E j \in 1..Len(changeLog) :
                /\ changeLog[j].record = changeLog[i].record
                /\ changeLog[j].revision = changeLog[i].revision - 1

=============================================================================
