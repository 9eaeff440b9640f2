---------------------------- MODULE LedgerReader ----------------------------
(***************************************************************************)
(* An incremental consumer of the ledger: it keeps a replica of the public *)
(* facts by following GET /v1/changes (query.py changes, served from       *)
(* activity_store.py snapshot_changes) while other processes keep writing. *)
(* It follows docs/api/local-api-v1.md: it processes a complete page, then *)
(* persists nextCursor, and goes on; it may crash in between and then      *)
(* resumes from the persisted cursor with the replica it has.              *)
(***************************************************************************)
EXTENDS Ledger

CONSTANTS
    Limits,      \* values of the `limit` parameter the consumer uses
    MaxCrashes   \* bound on consumer crashes

VARIABLES
    cursor,      \* nextCursor of the last page
    saved,       \* the persisted cursor
    replica,     \* [RecordIds -> payload or None]
    crashes

readerVars == <<cursor, saved, replica, crashes>>
allVars    == <<vars, readerVars>>

ASSUME ReaderAssumption == Limits \subseteq Nat \ {0} /\ MaxCrashes \in Nat

ReaderInit ==
    /\ cursor = 0
    /\ saved = 0
    /\ replica = [record \in RecordIds |-> None]
    /\ crashes = 0

-----------------------------------------------------------------------------
(* Mutant: the page stops short of the high-water mark. *)
PageEndShort(limit) ==
    IF HighWater <= cursor THEN cursor
    ELSE IF HighWater - 1 <= cursor + limit THEN HighWater - 1
    ELSE cursor + limit

(* Mutant: the page goes on past the high-water mark. *)
PageEndPast(limit) == cursor + limit

(* The rows after the cursor and up to the high-water mark of one read     *)
(* transaction, at most `limit` of them.                                   *)
PageEnd(limit) ==
    IF HighWater <= cursor + limit THEN HighWater ELSE cursor + limit

(* The consumer's part: the last change of each record on the page wins.   *)
Applied(first, last) ==
    [record \in RecordIds |->
        LET I == {i \in ChangesOf(record) : first <= i /\ i <= last}
        IN  IF I = {} THEN replica[record]
            ELSE changeLog[CHOOSE i \in I : \A j \in I : j <= i].payload]

(* Mutant: nextCursor is the high-water mark. *)
ReadPageAndSkip(limit) ==
    /\ cursor <= HighWater
    /\ cursor = saved
    /\ replica' = Applied(cursor + 1, PageEnd(limit))
    /\ cursor' = HighWater
    /\ UNCHANGED <<saved, crashes, vars>>

(* nextCursor is the last row's change_seq, or the cursor asked for when   *)
(* the page is empty; hasMore says that it is below the high-water mark.   *)
ReadPage(limit) ==
    /\ cursor <= HighWater      \* an ahead cursor is rejected
    /\ cursor = saved           \* the last page was persisted
    /\ replica' = Applied(cursor + 1, PageEnd(limit))
    /\ cursor' = PageEnd(limit)
    /\ UNCHANGED <<saved, crashes, vars>>

SaveCursor ==
    /\ saved # cursor
    /\ saved' = cursor
    /\ UNCHANGED <<cursor, replica, crashes, vars>>

Crash ==
    /\ crashes < MaxCrashes
    /\ crashes' = crashes + 1
    /\ cursor' = saved
    /\ UNCHANGED <<saved, replica, vars>>

ReaderNext ==
    \/ Next /\ UNCHANGED readerVars
    \/ \E limit \in Limits : ReadPage(limit)
    \/ SaveCursor
    \/ Crash

(* The consumer keeps polling and persisting; writers owe nothing.         *)
ReaderFairness ==
    /\ WF_allVars(\E limit \in Limits : ReadPage(limit))
    /\ WF_allVars(SaveCursor)

ReaderSpec ==
    Init /\ ReaderInit /\ [][ReaderNext]_allVars /\ ReaderFairness

-----------------------------------------------------------------------------
ReaderTypeOK ==
    /\ saved \in 0..HighWater
    /\ cursor \in saved..HighWater
    /\ crashes \in 0..MaxCrashes

(* The cursor is a promise: a consumer whose nextCursor is the high-water  *)
(* mark (hasMore is false) holds exactly the tables, whatever was written  *)
(* while it paged and however often it crashed between processing a page   *)
(* and persisting its cursor.                                              *)
CaughtUp ==
    cursor = HighWater =>
        \A record \in RecordIds : replica[record] = Stored(record)

(* Paging never skips a change: besides, at any cursor the replica of a    *)
(* record is the payload of one of its changes that is not older than the  *)
(* last one the cursor covers.                                             *)
NothingSkipped ==
    /\ CaughtUp
    /\ \A record \in RecordIds :
          LET covered == {i \in ChangesOf(record) : i <= cursor}
          IN  covered # {} =>
                \E i \in ChangesOf(record) :
                    /\ \A j \in covered : j <= i
                    /\ replica[record] = changeLog[i].payload

(* A change is eventually covered by the persisted cursor.                 *)
EveryChangeIsRead ==
    \A n \in 1..MaxChanges : (HighWater >= n) ~> (saved >= n)

=============================================================================
