---------------------------- MODULE LedgerProofs ----------------------------
(***************************************************************************)
(* Theorems about the activity ledger: its tables stay well-typed, its log *)
(* replays to its tables, revisions leave no gaps, facts lie under their   *)
(* markers, late workers do not undo newer imports, and the history of     *)
(* quotas keeps up with their rows.                                        *)
(***************************************************************************)
EXTENDS Ledger, ChangeLogProofs

(* A transaction as the store makes it: public changes, one per record, in *)
(* a definite order.                                                       *)
Transaction(changes, position) ==
    /\ changes \subseteq Changes
    /\ OnePerRecord(changes)
    /\ \A c \in changes : position[c] \in Nat

LEMMA TransactionSortable ==
    ASSUME NEW changes, NEW position, Transaction(changes, position)
    PROVE  Sortable(changes, position)
<1>1. \A c \in changes : c.record \in RecordIds
      BY DEF Transaction, Changes
<1>2. IsFiniteSet(changes)
      BY <1>1, ChangesFinite, RecordAssumption DEF Transaction
<1>3. \A c \in changes : Place[c.record] \in Nat
      BY <1>1, RecordAssumption
<1>4. \A c, d \in changes : Place[c.record] = Place[d.record] => c = d
      BY <1>1, RecordAssumption DEF Transaction, OnePerRecord
<1> QED BY <1>2, <1>3, <1>4 DEF Sortable, Transaction

-----------------------------------------------------------------------------
(* The rows behind the record ids.                                         *)
LEMMA StoredRows ==
    /\ \A key : /\ RowOf(StatusId(key)) = sourceStatus[key]
                /\ RowOf(UsageId(key)) = usage[key]
                /\ RowOf(CoverageId(key)) = coverage[key]
                /\ RowOf(CostId(key)) = cost[key]
                /\ RowOf(CostCoverageId(key)) = costCoverage[key]
                /\ RowOf(InstanceId(key)) = instance[key]
                /\ RowOf(BalanceId(key)) = balance[key]
                /\ RowOf(QuotaId(key)) = quota[key]
                /\ RowOf(SnapshotId(key)) = snapshot[key]
    /\ \A key : /\ RowOf(StatusId(key))' = sourceStatus'[key]
                /\ RowOf(UsageId(key))' = usage'[key]
                /\ RowOf(CoverageId(key))' = coverage'[key]
                /\ RowOf(CostId(key))' = cost'[key]
                /\ RowOf(CostCoverageId(key))' = costCoverage'[key]
                /\ RowOf(InstanceId(key))' = instance'[key]
                /\ RowOf(BalanceId(key))' = balance'[key]
                /\ RowOf(QuotaId(key))' = quota'[key]
                /\ RowOf(SnapshotId(key))' = snapshot'[key]
BY DEF RowOf, Tables, RecordId, StatusId, UsageId, CoverageId, CostId, CostCoverageId,
       InstanceId, BalanceId, QuotaId, SnapshotId

LEMMA RecordKinds ==
    ASSUME NEW record \in RecordIds
    PROVE  \/ \E key \in StatusKeys : record = StatusId(key)
           \/ \E key \in UsageKeys : record = UsageId(key)
           \/ \E key \in DayKeys : record = CoverageId(key)
           \/ \E key \in CostKeys : record = CostId(key)
           \/ \E key \in DayKeys : record = CostCoverageId(key)
           \/ \E key \in Providers : record = InstanceId(key)
           \/ \E key \in Balances : record = BalanceId(key)
           \/ \E key \in Quotas : record = QuotaId(key)
           \/ \E key \in SnapshotIds : record = SnapshotId(key)
BY DEF RecordIds

(* A step whose tables hold what its changes say, and nothing else, when   *)
(* it commits, and stay when it is rolled back.                            *)
Stores(changes) ==
    \A record \in RecordIds :
        /\ raised' => Stored(record)' = Stored(record)
        /\ ~raised' =>
              /\ \A c \in changes :
                    c.record = record => Stored(record)' = c.payload
              /\ (\A c \in changes : c.record # record)
                    => Stored(record)' = Stored(record)

(* Such a step keeps the log a faithful account of the tables.             *)
LEMMA StoresReplays ==
    ASSUME changeLog \in Seq(Changes), LogReplaysTables,
           NEW changes, NEW position, Transaction(changes, position),
           Commit(changes, position), Stores(changes)
    PROVE  LogReplaysTables'
<1>1. CASE raised'
  <2>1. changeLog' = changeLog BY <1>1 DEF Commit, RollBack
  <2>2. ASSUME NEW record \in RecordIds
        PROVE  Replayed(record)' = Replayed(record)
        BY <2>1 DEF Replayed, ChangesOf
  <2> QED BY <1>1, <2>2 DEF LogReplaysTables, Stores
<1>2. CASE ~raised'
  <2>1. Sortable(changes, position) BY TransactionSortable
  <2>2. changes \in SUBSET Changes BY DEF Transaction
  <2>3. Appends(changes) BY <1>2, <2>1, <2>2, CommitAppends
  <2>4. ASSUME NEW record \in RecordIds
        PROVE  Replayed(record)' = Stored(record)'
    <3>1. CASE \E c \in changes : c.record = record
          BY <1>2, <2>3, <3>1, AppendsReplays DEF Stores, Transaction
    <3>2. CASE \A c \in changes : c.record # record
          BY <1>2, <2>3, <3>2, AppendsReplays
          DEF Stores, Transaction, LogReplaysTables
    <3> QED BY <3>1, <3>2
  <2> QED BY <2>4 DEF LogReplaysTables
<1> QED BY <1>1, <1>2

(* A transaction leaves a log of public changes.                           *)
LEMMA CommitTyped ==
    ASSUME changeLog \in Seq(Changes),
           NEW changes, NEW position, Transaction(changes, position),
           Commit(changes, position)
    PROVE  changeLog' \in Seq(Changes) /\ raised' \in BOOLEAN
<1>1. CASE raised'
      BY <1>1 DEF Commit, RollBack
<1>2. CASE ~raised'
  <2>1. Sortable(changes, position) BY TransactionSortable
  <2>2. changes \in SUBSET Changes BY DEF Transaction
  <2> QED BY <1>2, <2>1, <2>2, CommitAppends DEF Commit, RollBack
<1> QED BY <1>1, <1>2

-----------------------------------------------------------------------------
(* The status of a source: its public change, and its row.                 *)
LEMMA SuccessTyped ==
    ASSUME StatusTypeOK, NEW key \in StatusKeys, NEW t \in Times, NEW expected
    PROVE  AfterSuccess(key, t, expected) \in StatusFacts
<1>1. SuccessFacts(t) \in StatusFacts
  <2>1. t + Freshness \in 1..(MaxTime + Freshness)
        BY TimeAssumption DEF Times
  <2> QED BY <2>1 DEF SuccessFacts, StatusFacts
<1>2. sourceStatus[key] # None => sourceStatus[key].payload \in StatusFacts
      BY DEF StatusTypeOK, StatusRows
<1> QED BY <1>1, <1>2 DEF AfterSuccess

LEMMA OutcomeTyped ==
    ASSUME StatusTypeOK, NEW key \in StatusKeys, NEW t \in Times, NEW expected,
           NEW state \in Faults \cup {"stale"}
    PROVE  AfterOutcome(key, state, t, expected) \in StatusFacts
<1> DEFINE row == sourceStatus[key]
<1>1. t \in 1..(MaxTime + Freshness)
      BY TimeAssumption DEF Times
<1>2. CASE row = None
      BY <1>1, <1>2 DEF AfterOutcome, StatusFacts
<1>3. CASE row # None
  <2>1. row.payload \in StatusFacts BY <1>3 DEF StatusTypeOK, StatusRows
  <2>2. row.payload.lastSuccess \in Times \cup {None}
        BY <2>1 DEF StatusFacts
  <2>3. row.payload.staleAt \in 1..(MaxTime + Freshness) \cup {None}
        BY <2>1 DEF StatusFacts
  <2>4. Earlier(t, row.payload.staleAt) \in 1..(MaxTime + Freshness) \cup {None}
        BY <1>1, <2>3 DEF Earlier
  <2> HIDE DEF row
  <2>5. [state |-> state, lastAttempt |-> t, lastSuccess |-> row.payload.lastSuccess,
         staleAt |-> IF state = "stale" THEN Earlier(t, row.payload.staleAt)
                     ELSE row.payload.staleAt] \in StatusFacts
        BY <2>2, <2>3, <2>4 DEF StatusFacts
  <2> QED BY <1>3, <2>1, <2>5 DEF AfterOutcome, row
<1> QED BY <1>2, <1>3

LEMMA StatusChangesTyped ==
    ASSUME StatusTypeOK, NEW key \in StatusKeys, NEW facts \in StatusFacts
    PROVE  /\ StatusChanges(key, facts) \subseteq Changes
           /\ OnePerRecord(StatusChanges(key, facts))
           /\ \A c \in StatusChanges(key, facts) :
                 c.record = StatusId(key) /\ c.payload = facts
           /\ WithStatus(key, facts) \in [StatusKeys -> StatusRows \cup {None}]
<1>1. StatusRevision(key) \in Nat \ {0}
  <2>1. sourceStatus[key] # None => sourceStatus[key].revision \in Nat \ {0}
        BY DEF StatusTypeOK, StatusRows
  <2> QED BY <2>1 DEF StatusRevision
<1>2. StatusId(key) \in RecordIds BY DEF RecordIds
<1>3. facts \in Payloads BY DEF Payloads
<1>4. \A c \in StatusChanges(key, facts) :
        /\ c.record = StatusId(key) /\ c.payload = facts
        /\ c = Change(StatusId(key), StatusRevision(key),
                      IF sourceStatus[key] = None THEN "insert" ELSE "update", facts)
      BY DEF StatusChanges, Change
<1>5. StatusChanges(key, facts) \subseteq Changes
      BY <1>1, <1>2, <1>3, <1>4 DEF Changes, Change, Operations
<1>6. OnePerRecord(StatusChanges(key, facts)) BY <1>4 DEF OnePerRecord
<1>7. [payload |-> facts, revision |-> StatusRevision(key)] \in StatusRows
      BY <1>1 DEF StatusRows
<1>8. WithStatus(key, facts) \in [StatusKeys -> StatusRows \cup {None}]
      BY <1>7 DEF WithStatus, StatusTypeOK
<1> QED BY <1>4, <1>5, <1>6, <1>8

(* What WithStatus stores is what StatusChanges says.                      *)
LEMMA WithStatusStores ==
    ASSUME StatusTypeOK, NEW key \in StatusKeys, NEW facts \in StatusFacts
    PROVE  /\ WithStatus(key, facts)[key] # None
           /\ WithStatus(key, facts)[key].payload = facts
           /\ \A k \in StatusKeys : k # key =>
                 WithStatus(key, facts)[k] = sourceStatus[k]
           /\ StatusChanges(key, facts) = {} => WithStatus(key, facts) = sourceStatus
           /\ StatusChanges(key, facts) # {} =>
                 \E c \in StatusChanges(key, facts) : c.record = StatusId(key)
<1>1. CASE StatusUnchanged(key, facts)
      BY <1>1 DEF StatusUnchanged, WithStatus, StatusChanges
<1>2. CASE ~StatusUnchanged(key, facts)
  <2>1. [payload |-> facts, revision |-> StatusRevision(key)] \in StatusRows
    <3>1. sourceStatus[key] # None => sourceStatus[key].revision \in Nat \ {0}
          BY DEF StatusTypeOK, StatusRows
    <3> QED BY <3>1 DEF StatusRows, StatusRevision
  <2>2. [payload |-> facts, revision |-> StatusRevision(key)] # None
        BY <2>1, NoRowAssumption
  <2>3. WithStatus(key, facts) =
           [sourceStatus EXCEPT ![key] =
               [payload |-> facts, revision |-> StatusRevision(key)]]
        BY <1>2 DEF WithStatus
  <2>4. StatusChanges(key, facts) # {}
        /\ \A c \in StatusChanges(key, facts) : c.record = StatusId(key)
    <3> DEFINE operation == IF sourceStatus[key] = None THEN "insert" ELSE "update"
               c == Change(StatusId(key), StatusRevision(key), operation, facts)
    <3>1. StatusChanges(key, facts) = {c} BY <1>2 DEF StatusChanges
    <3>2. c.record = StatusId(key) BY DEF Change
    <3> QED BY <3>1, <3>2
  <2> QED BY <2>2, <2>3, <2>4 DEF StatusTypeOK
<1> QED BY <1>1, <1>2

-----------------------------------------------------------------------------
(* Tables a step leaves alone hold what they held.                         *)
LEMMA KeptRows ==
    /\ sourceStatus' = sourceStatus
         => \A key \in StatusKeys : Stored(StatusId(key))' = Stored(StatusId(key))
    /\ usage' = usage
         => \A key \in UsageKeys : Stored(UsageId(key))' = Stored(UsageId(key))
    /\ coverage' = coverage
         => \A key \in DayKeys : Stored(CoverageId(key))' = Stored(CoverageId(key))
    /\ cost' = cost
         => \A key \in CostKeys : Stored(CostId(key))' = Stored(CostId(key))
    /\ costCoverage' = costCoverage
         => \A key \in DayKeys :
               Stored(CostCoverageId(key))' = Stored(CostCoverageId(key))
    /\ instance' = instance
         => \A key \in Providers : Stored(InstanceId(key))' = Stored(InstanceId(key))
    /\ balance' = balance
         => \A key \in Balances : Stored(BalanceId(key))' = Stored(BalanceId(key))
    /\ quota' = quota
         => \A key \in Quotas : Stored(QuotaId(key))' = Stored(QuotaId(key))
    /\ snapshot' = snapshot
         => \A key \in SnapshotIds : Stored(SnapshotId(key))' = Stored(SnapshotId(key))
BY StoredRows DEF Stored

(* Records of different kinds, and of different keys, are different.       *)
LEMMA IdsDiffer ==
    \A k, l :
        /\ StatusId(k) = StatusId(l) => k = l
        /\ UsageId(k) = UsageId(l) => k = l
        /\ CoverageId(k) = CoverageId(l) => k = l
        /\ CostId(k) = CostId(l) => k = l
        /\ CostCoverageId(k) = CostCoverageId(l) => k = l
        /\ BalanceId(k) = BalanceId(l) => k = l
        /\ QuotaId(k) = QuotaId(l) => k = l
        /\ SnapshotId(k) = SnapshotId(l) => k = l
        /\ InstanceId(k) = InstanceId(l) => k = l
        /\ StatusId(k) \notin {UsageId(l), CoverageId(l), CostId(l), CostCoverageId(l),
                               InstanceId(l), BalanceId(l), QuotaId(l), SnapshotId(l)}
        /\ UsageId(k) \notin {CoverageId(l), CostId(l), CostCoverageId(l),
                              InstanceId(l), BalanceId(l), QuotaId(l), SnapshotId(l)}
        /\ CoverageId(k) \notin {CostId(l), CostCoverageId(l),
                              InstanceId(l), BalanceId(l), QuotaId(l), SnapshotId(l)}
        /\ CostId(k) \notin {CostCoverageId(l),
                              InstanceId(l), BalanceId(l), QuotaId(l), SnapshotId(l)}
        /\ CostCoverageId(k) \notin {InstanceId(l), BalanceId(l), QuotaId(l), SnapshotId(l)}
        /\ QuotaId(k) \notin {InstanceId(l), BalanceId(l), SnapshotId(l)}
        /\ InstanceId(k) \notin {BalanceId(l), SnapshotId(l)}
        /\ BalanceId(k) # SnapshotId(l)
BY DEF RecordId, StatusId, UsageId, CoverageId, CostId, CostCoverageId,
       InstanceId, BalanceId, QuotaId, SnapshotId

LEMMA AtOnceTransaction ==
    ASSUME NEW changes \in SUBSET Changes, OnePerRecord(changes)
    PROVE  Transaction(changes, AtOnce(changes))
BY DEF Transaction, AtOnce

(* A record is stored as the changes say.                                  *)
Agrees(record, changes) ==
    /\ \A c \in changes : c.record = record => Stored(record)' = c.payload
    /\ (\A c \in changes : c.record # record) => Stored(record)' = Stored(record)

LEMMA WithStatusAgrees ==
    ASSUME StatusTypeOK, NEW key \in StatusKeys, NEW facts \in StatusFacts,
           sourceStatus' = WithStatus(key, facts),
           NEW k \in StatusKeys
    PROVE  Agrees(StatusId(k), StatusChanges(key, facts))
<1> DEFINE changes == StatusChanges(key, facts)
<1>1. \A c \in changes : c.record = StatusId(key) /\ c.payload = facts
      BY StatusChangesTyped
<1>2. /\ Stored(StatusId(k)) = IF sourceStatus[k] = None THEN None
                               ELSE sourceStatus[k].payload
      /\ Stored(StatusId(k))' = IF sourceStatus'[k] = None THEN None
                                ELSE sourceStatus'[k].payload
      BY StoredRows DEF Stored
<1>3. CASE k = key
  <2>1. /\ WithStatus(key, facts)[key] # None
        /\ WithStatus(key, facts)[key].payload = facts
        /\ changes = {} => WithStatus(key, facts) = sourceStatus
        /\ changes # {} => \E c \in changes : c.record = StatusId(key)
        BY WithStatusStores
  <2> HIDE DEF changes
  <2>2. Stored(StatusId(k))' = facts BY <1>2, <1>3, <2>1
  <2>3. Agrees(StatusId(k), changes)
    <3>1. CASE changes = {} BY <1>2, <2>1, <3>1 DEF Agrees
    <3>2. CASE changes # {} BY <1>1, <1>3, <2>1, <2>2, <3>2 DEF Agrees
    <3> QED BY <3>1, <3>2
  <2> QED BY <2>3 DEF changes
<1>4. CASE k # key
  <2>1. WithStatus(key, facts)[k] = sourceStatus[k] BY <1>4, WithStatusStores
  <2>2. StatusId(k) # StatusId(key) BY <1>4, IdsDiffer
  <2> QED BY <1>1, <1>2, <2>1, <2>2 DEF Agrees
<1> QED BY <1>3, <1>4

(* A status is stored as it is published.                                  *)
LEMMA StatusStep ==
    ASSUME TypeOK, NEW key \in StatusKeys, NEW facts \in StatusFacts,
           Commit(StatusChanges(key, facts), AtOnce(StatusChanges(key, facts))),
           sourceStatus' = Committed(WithStatus(key, facts), sourceStatus),
           UNCHANGED <<dailyVars, currentVars>>
    PROVE  TypeOK' /\ (LogReplaysTables => LogReplaysTables')
<1> DEFINE changes == StatusChanges(key, facts)
<1>1. StatusTypeOK /\ changeLog \in Seq(Changes) BY DEF TypeOK
<1>2. /\ changes \in SUBSET Changes
      /\ OnePerRecord(changes)
      /\ \A c \in changes : c.record = StatusId(key) /\ c.payload = facts
      /\ WithStatus(key, facts) \in [StatusKeys -> StatusRows \cup {None}]
      BY <1>1, StatusChangesTyped
<1>3. Transaction(changes, AtOnce(changes)) BY <1>2, AtOnceTransaction
<1>4. changeLog' \in Seq(Changes) /\ raised' \in BOOLEAN
      BY <1>1, <1>3, CommitTyped
<1>5. StatusTypeOK' BY <1>1, <1>2 DEF StatusTypeOK, Committed
<1>6. TypeOK'
      BY <1>4, <1>5 DEF TypeOK, DailyTypeOK, CurrentTypeOK, dailyVars, usageVars,
                        costVars, currentVars
<1>7. UNCHANGED <<usage, coverage, cost, costCoverage, instance, balance, quota, snapshot>>
      BY DEF dailyVars, usageVars, costVars, currentVars
<1>8. ASSUME NEW record \in RecordIds
      PROVE  /\ raised' => Stored(record)' = Stored(record)
             /\ ~raised' => Agrees(record, changes)
  <2>1. CASE \E k \in StatusKeys : record = StatusId(k)
        BY <1>1, <2>1, WithStatusAgrees, KeptRows DEF Committed
  <2>2. CASE \A k \in StatusKeys : record # StatusId(k)
    <3>1. Stored(record)' = Stored(record) BY <1>7, <2>2, RecordKinds, KeptRows
    <3>2. \A c \in changes : c.record # record BY <1>2, <2>2
    <3> QED BY <3>1, <3>2 DEF Agrees
  <2> QED BY <2>1, <2>2
<1>9. Stores(changes) BY <1>8 DEF Stores, Agrees
<1> QED BY <1>1, <1>3, <1>6, <1>9, StoresReplays

-----------------------------------------------------------------------------
(* Daily usage: what an import publishes, record by record.                *)
LEMMA NextRevisionTyped ==
    ASSUME changeLog \in Seq(Changes), NEW record
    PROVE  NextRevision(record) \in Nat \ {0}
<1>1. Numbered(Changes) BY DEF Numbered, Changes
<1>2. LatestRevision(record) \in Nat BY <1>1, LatestIsGreatest DEF Greatness
<1> QED BY <1>2 DEF NextRevision

LEMMA ChangeFields ==
    \A r, n, o, p : /\ Change(r, n, o, p).record = r
                    /\ Change(r, n, o, p).revision = n
                    /\ Change(r, n, o, p).operation = o
                    /\ Change(r, n, o, p).payload = p
BY DEF Change

LEMMA ChangeTyped ==
    ASSUME NEW r \in RecordIds, NEW n \in Nat \ {0}, NEW o \in Operations,
           NEW p \in Payloads
    PROVE  Change(r, n, o, p) \in Changes
BY DEF Change, Changes

LEMMA UsageChangesTyped ==
    ASSUME TypeOK, NEW provider \in Providers, NEW source \in UsageSources,
           NEW range \in SUBSET Days,
           NEW rows \in [InRange(UsageKeys, provider, range) -> Values \cup {None}]
    PROVE  LET changes == UsageChanges(rows, InRange(DayKeys, provider, range), source)
           IN  /\ changes \subseteq Changes
               /\ OnePerRecord(changes)
               /\ \A c \in changes : \/ \E k \in UsageKeys : c.record = UsageId(k)
                                     \/ \E k \in DayKeys : c.record = CoverageId(k)
<1> DEFINE keys == InRange(DayKeys, provider, range)
           changes == UsageChanges(rows, keys, source)
<1>1. changeLog \in Seq(Changes) BY DEF TypeOK
<1>2. DeletedUsage(rows) \subseteq UsageKeys /\ WrittenUsage(rows, source) \subseteq UsageKeys
      BY DEF DeletedUsage, WrittenUsage, InRange
<1>3. MarkedDays(keys, source) \subseteq DayKeys BY DEF MarkedDays, InRange
<1>4. DeletedUsage(rows) \cap WrittenUsage(rows, source) = {}
      BY DEF DeletedUsage, WrittenUsage
<1>5. ASSUME NEW key \in DeletedUsage(rows)
      PROVE  Change(UsageId(key), NextRevision(UsageId(key)), "delete", None) \in Changes
  <2>1. UsageId(key) \in RecordIds BY <1>2 DEF RecordIds
  <2>2. None \in Payloads /\ "delete" \in Operations BY DEF Payloads, Operations
  <2> QED BY <1>1, <2>1, <2>2, NextRevisionTyped, ChangeTyped
<1>6. ASSUME NEW key \in WrittenUsage(rows, source)
      PROVE  Change(UsageId(key), NextRevision(UsageId(key)),
                    IF usage[key] = None THEN "insert" ELSE "update",
                    UsagePayload(source, rows[key])) \in Changes
  <2>1. UsageId(key) \in RecordIds BY <1>2 DEF RecordIds
  <2>2. rows[key] \in Values BY DEF WrittenUsage
  <2>3. UsagePayload(source, rows[key]) \in UsagePayloads
        BY <2>2 DEF UsagePayload, UsagePayloads
  <2>4. UsagePayload(source, rows[key]) \in Payloads BY <2>3 DEF Payloads
  <2>5. (IF usage[key] = None THEN "insert" ELSE "update") \in Operations
        BY DEF Operations
  <2> QED BY <1>1, <2>1, <2>4, <2>5, NextRevisionTyped, ChangeTyped
<1>7. ASSUME NEW key \in MarkedDays(keys, source)
      PROVE  Change(CoverageId(key), NextRevision(CoverageId(key)),
                    IF coverage[key] = None THEN "insert" ELSE "update",
                    [source |-> source]) \in Changes
  <2>1. CoverageId(key) \in RecordIds BY <1>3 DEF RecordIds
  <2>2. [source |-> source] \in [source : UsageSources] OBVIOUS
  <2>3. [source |-> source] \in Payloads BY <2>2 DEF Payloads
  <2>4. (IF coverage[key] = None THEN "insert" ELSE "update") \in Operations
        BY DEF Operations
  <2> QED BY <1>1, <2>1, <2>3, <2>4, NextRevisionTyped, ChangeTyped
<1> DEFINE D(key) == Change(UsageId(key), NextRevision(UsageId(key)), "delete", None)
           W(key) == Change(UsageId(key), NextRevision(UsageId(key)),
                            IF usage[key] = None THEN "insert" ELSE "update",
                            UsagePayload(source, rows[key]))
           M(key) == Change(CoverageId(key), NextRevision(CoverageId(key)),
                            IF coverage[key] = None THEN "insert" ELSE "update",
                            [source |-> source])
<1>8. ASSUME NEW c \in changes
      PROVE  \/ \E key \in DeletedUsage(rows) : c = D(key)
             \/ \E key \in WrittenUsage(rows, source) : c = W(key)
             \/ \E key \in MarkedDays(keys, source) : c = M(key)
      BY DEF UsageChanges
<1>9. \A key : /\ D(key).record = UsageId(key)
               /\ W(key).record = UsageId(key)
               /\ M(key).record = CoverageId(key)
      BY ChangeFields
<1> HIDE DEF changes, keys, D, W, M
<1>10. \A c \in changes : c \in Changes
       BY <1>5, <1>6, <1>7, <1>8 DEF D, W, M
<1>11. \A c \in changes : \/ \E k \in UsageKeys : c.record = UsageId(k)
                          \/ \E k \in DayKeys : c.record = CoverageId(k)
       BY <1>2, <1>3, <1>8, <1>9
<1>12. ASSUME NEW c \in changes, NEW d \in changes, c.record = d.record
       PROVE  c = d
       BY <1>4, <1>8, <1>9, <1>12, IdsDiffer
<1>13. /\ changes \subseteq Changes
       /\ OnePerRecord(changes)
       BY <1>10, <1>12 DEF OnePerRecord
<1> QED BY <1>11, <1>13 DEF changes, keys

(* The tables after an import are well-typed ...                           *)
LEMMA UsageAfterTyped ==
    ASSUME TypeOK, NEW provider \in Providers, NEW source \in UsageSources,
           NEW range \in SUBSET Days, NEW t \in Times,
           NEW rows \in [InRange(UsageKeys, provider, range) -> Values \cup {None}]
    PROVE  /\ UsageAfter(rows, source) \in [UsageKeys -> UsageRows \cup {None}]
           /\ ConventionAfter(rows, source) \in [UsageKeys -> UsagePayloads \cup {None}]
           /\ CoverageAfter(InRange(DayKeys, provider, range), source, t)
                 \in [DayKeys -> CoverageRows \cup {None}]
<1>1. /\ usage \in [UsageKeys -> UsageRows \cup {None}]
      /\ convention \in [UsageKeys -> UsagePayloads \cup {None}]
      /\ coverage \in [DayKeys -> CoverageRows \cup {None}]
      /\ changeLog \in Seq(Changes)
      BY DEF TypeOK, DailyTypeOK
<1>2. ASSUME NEW key \in WrittenUsage(rows, source)
      PROVE  UsagePayload(source, rows[key]) \in UsagePayloads
  <2>1. rows[key] \in Values BY DEF WrittenUsage
  <2> QED BY <2>1 DEF UsagePayload, UsagePayloads
<1>3. ASSUME NEW key \in WrittenUsage(rows, source)
      PROVE  [payload  |-> UsagePayload(source, rows[key]),
              revision |-> NextRevision(UsageId(key))] \in UsageRows
  <2>1. NextRevision(UsageId(key)) \in Nat \ {0} BY <1>1, NextRevisionTyped
  <2> QED BY <1>2, <2>1 DEF UsageRows
<1>4. [payload |-> [source |-> source], importedAt |-> t] \in CoverageRows
      BY DEF CoverageRows
<1>5. UsageAfter(rows, source) \in [UsageKeys -> UsageRows \cup {None}]
      BY <1>1, <1>3 DEF UsageAfter
<1>6. ConventionAfter(rows, source) \in [UsageKeys -> UsagePayloads \cup {None}]
      BY <1>1, <1>2 DEF ConventionAfter
<1>7. CoverageAfter(InRange(DayKeys, provider, range), source, t)
         \in [DayKeys -> CoverageRows \cup {None}]
      BY <1>1, <1>4 DEF CoverageAfter
<1> QED BY <1>5, <1>6, <1>7

(* ... and hold what it published.                                         *)
LEMMA UsageAfterStores ==
    ASSUME TypeOK, NEW provider \in Providers, NEW source \in UsageSources,
           NEW range \in SUBSET Days, NEW t \in Times,
           NEW rows \in [InRange(UsageKeys, provider, range) -> Values \cup {None}],
           usage' = UsageAfter(rows, source),
           coverage' = CoverageAfter(InRange(DayKeys, provider, range), source, t)
    PROVE  LET changes == UsageChanges(rows, InRange(DayKeys, provider, range), source)
           IN  /\ \A k \in UsageKeys : Agrees(UsageId(k), changes)
               /\ \A k \in DayKeys : Agrees(CoverageId(k), changes)
<1> DEFINE keys == InRange(DayKeys, provider, range)
           changes == UsageChanges(rows, keys, source)
           D(key) == Change(UsageId(key), NextRevision(UsageId(key)), "delete", None)
           W(key) == Change(UsageId(key), NextRevision(UsageId(key)),
                            IF usage[key] = None THEN "insert" ELSE "update",
                            UsagePayload(source, rows[key]))
           M(key) == Change(CoverageId(key), NextRevision(CoverageId(key)),
                            IF coverage[key] = None THEN "insert" ELSE "update",
                            [source |-> source])
<1>1. \A c : c \in changes <=>
             \/ \E key \in DeletedUsage(rows) : c = D(key)
             \/ \E key \in WrittenUsage(rows, source) : c = W(key)
             \/ \E key \in MarkedDays(keys, source) : c = M(key)
      BY DEF UsageChanges
<1>2. \A key : /\ D(key).record = UsageId(key) /\ D(key).payload = None
               /\ W(key).record = UsageId(key)
               /\ W(key).payload = UsagePayload(source, rows[key])
               /\ M(key).record = CoverageId(key)
               /\ M(key).payload = [source |-> source]
      BY ChangeFields
<1>3. DeletedUsage(rows) \cap WrittenUsage(rows, source) = {}
      BY DEF DeletedUsage, WrittenUsage
<1>4. \A k \in UsageKeys :
         usage'[k] = IF k \in DeletedUsage(rows) THEN None
                     ELSE IF k \in WrittenUsage(rows, source)
                          THEN [payload  |-> UsagePayload(source, rows[k]),
                                revision |-> NextRevision(UsageId(k))]
                     ELSE usage[k]
      BY DEF UsageAfter
<1>5. ASSUME NEW k \in UsageKeys, k \in WrittenUsage(rows, source)
      PROVE  usage'[k] # None /\ usage'[k].payload = UsagePayload(source, rows[k])
  <2>1. rows[k] \in Values BY <1>5 DEF WrittenUsage
  <2>2. UsagePayload(source, rows[k]) \in UsagePayloads
        BY <2>1 DEF UsagePayload, UsagePayloads
  <2>3. changeLog \in Seq(Changes) BY DEF TypeOK
  <2>4. NextRevision(UsageId(k)) \in Nat \ {0} BY <2>3, NextRevisionTyped
  <2> DEFINE row == [payload  |-> UsagePayload(source, rows[k]),
                     revision |-> NextRevision(UsageId(k))]
  <2>5. row \in UsageRows BY <2>2, <2>4 DEF UsageRows
  <2>6. row.payload = UsagePayload(source, rows[k]) OBVIOUS
  <2>7. usage'[k] = row
    <3> HIDE DEF D, W, M, changes, keys
    <3> QED BY <1>3, <1>4, <1>5
  <2> HIDE DEF row
  <2> QED BY <2>5, <2>6, <2>7, NoRowAssumption
<1>6. \A k : /\ Stored(UsageId(k)) = IF usage[k] = None THEN None ELSE usage[k].payload
             /\ Stored(UsageId(k))' = IF usage'[k] = None THEN None ELSE usage'[k].payload
      BY StoredRows DEF Stored
<1>7. \A k : /\ Stored(CoverageId(k)) =
                   IF coverage[k] = None THEN None ELSE coverage[k].payload
             /\ Stored(CoverageId(k))' =
                   IF coverage'[k] = None THEN None ELSE coverage'[k].payload
      BY StoredRows DEF Stored
<1>8. ASSUME NEW k \in DayKeys
      PROVE  /\ k \in keys => Stored(CoverageId(k))' = [source |-> source]
             /\ k \notin keys => Stored(CoverageId(k))' = Stored(CoverageId(k))
             /\ k \in keys /\ k \notin MarkedDays(keys, source)
                  => Stored(CoverageId(k)) = [source |-> source]
  <2>1. [payload |-> [source |-> source], importedAt |-> t] \in CoverageRows
        BY DEF CoverageRows
  <2>2. [payload |-> [source |-> source], importedAt |-> t] # None
        BY <2>1, NoRowAssumption
  <2>3. coverage'[k] = IF k \in keys
                       THEN [payload |-> [source |-> source], importedAt |-> t]
                       ELSE coverage[k]
        BY DEF CoverageAfter
  <2>4. coverage[k] # None => coverage[k].payload \in [source : UsageSources]
        BY DEF TypeOK, DailyTypeOK, CoverageRows
  <2>5. k \in keys /\ k \notin MarkedDays(keys, source)
          => coverage[k] # None /\ coverage[k].payload = [source |-> source]
        BY <2>4 DEF MarkedDays
  <2> HIDE DEF keys
  <2> QED BY <1>7, <2>2, <2>3, <2>5
<1>9. MarkedDays(keys, source) \subseteq keys BY DEF MarkedDays
<1> HIDE DEF changes, keys, D, W, M
<1>10. \A k, l : /\ UsageId(k) = UsageId(l) => k = l
                 /\ CoverageId(k) = CoverageId(l) => k = l
                 /\ UsageId(k) # CoverageId(l)
       BY IdsDiffer
<1>11. \A c \in changes :
             \/ \E key \in DeletedUsage(rows) :
                   c.record = UsageId(key) /\ c.payload = None
             \/ \E key \in WrittenUsage(rows, source) :
                   c.record = UsageId(key) /\ c.payload = UsagePayload(source, rows[key])
             \/ \E key \in MarkedDays(keys, source) :
                   c.record = CoverageId(key) /\ c.payload = [source |-> source]
      BY <1>1, <1>2
<1>12. ASSUME NEW k \in UsageKeys PROVE Agrees(UsageId(k), changes)
  <2>1. CASE k \in DeletedUsage(rows)
    <3>1. Stored(UsageId(k))' = None BY <1>4, <1>6, <2>1
    <3>2. D(k) \in changes /\ D(k).record = UsageId(k) BY <1>1, <1>2, <2>1
    <3>3. \A c \in changes : c.record = UsageId(k) => c.payload = None
          BY <1>3, <1>10, <1>11, <2>1
    <3> QED BY <3>1, <3>2, <3>3 DEF Agrees
  <2>2. CASE k \in WrittenUsage(rows, source)
    <3>1. Stored(UsageId(k))' = UsagePayload(source, rows[k])
          BY <1>5, <1>6, <2>2
    <3>2. W(k) \in changes /\ W(k).record = UsageId(k) BY <1>1, <1>2, <2>2
    <3>3. \A c \in changes :
             c.record = UsageId(k) => c.payload = UsagePayload(source, rows[k])
          BY <1>3, <1>10, <1>11, <2>2
    <3> QED BY <3>1, <3>2, <3>3 DEF Agrees
  <2>3. CASE k \notin DeletedUsage(rows) /\ k \notin WrittenUsage(rows, source)
    <3>1. Stored(UsageId(k))' = Stored(UsageId(k)) BY <1>4, <1>6, <2>3
    <3>2. \A c \in changes : c.record # UsageId(k)
          BY <1>10, <1>11, <2>3
    <3> QED BY <3>1, <3>2 DEF Agrees
  <2> QED BY <2>1, <2>2, <2>3
<1>13. ASSUME NEW k \in DayKeys PROVE Agrees(CoverageId(k), changes)
  <2>1. CASE k \in MarkedDays(keys, source)
    <3>1. Stored(CoverageId(k))' = [source |-> source] BY <1>8, <1>9, <2>1
    <3>2. M(k) \in changes /\ M(k).record = CoverageId(k) BY <1>1, <1>2, <2>1
    <3>3. \A c \in changes : c.record = CoverageId(k) => c.payload = [source |-> source]
          BY <1>10, <1>11
    <3> QED BY <3>1, <3>2, <3>3 DEF Agrees
  <2>2. CASE k \notin MarkedDays(keys, source)
    <3>1. Stored(CoverageId(k))' = Stored(CoverageId(k)) BY <1>8, <2>2
    <3>2. \A c \in changes : c.record # CoverageId(k)
          BY <1>10, <1>11, <2>2
    <3> QED BY <3>1, <3>2 DEF Agrees
  <2> QED BY <2>1, <2>2
<1> QED BY <1>12, <1>13 DEF changes, keys

-----------------------------------------------------------------------------
(* A step that publishes nothing and stores nothing.                       *)
LEMMA IdleStep ==
    ASSUME TypeOK, changeLog' = changeLog, raised' \in BOOLEAN,
           UNCHANGED <<sourceStatus, dailyVars, currentVars>>
    PROVE  TypeOK' /\ (LogReplaysTables => LogReplaysTables')
<1>1. UNCHANGED <<sourceStatus, usage, convention, coverage, cost, costCoverage, contract,
                  instance, balance, quota, snapshot, lastSnapshot>>
      BY DEF dailyVars, usageVars, costVars, currentVars
<1>2. TypeOK' BY <1>1 DEF TypeOK, StatusTypeOK, DailyTypeOK, CurrentTypeOK
<1>3. ASSUME NEW record \in RecordIds, Replayed(record) = Stored(record)
      PROVE  Replayed(record)' = Stored(record)'
  <2>1. Replayed(record)' = Replayed(record) BY DEF Replayed, ChangesOf
  <2>2. Stored(record)' = Stored(record) BY <1>1 DEF Stored, RowOf, Tables
  <2> QED BY <1>3, <2>1, <2>2
<1> QED BY <1>2, <1>3 DEF LogReplaysTables

(* Where the changes of an import come in it.                              *)
LEMMA ImportPositionTyped ==
    ASSUME NEW c,
           \/ \E k \in StatusKeys : c.record = StatusId(k)
           \/ \E k \in UsageKeys : c.record = UsageId(k)
           \/ \E k \in DayKeys : c.record = CoverageId(k)
           \/ \E k \in CostKeys : c.record = CostId(k)
           \/ \E k \in DayKeys : c.record = CostCoverageId(k)
    PROVE  ImportPosition(c) \in Nat
<1>1. MaxDay \in Nat /\ Days \subseteq Nat BY DayAssumption DEF Days
<1>2. \A k \in UsageKeys : k[2] \in Nat BY <1>1 DEF UsageKeys
<1>3. \A k \in DayKeys : k[2] \in Nat BY <1>1 DEF DayKeys
<1>4. \A k \in CostKeys : k[2] \in Nat BY <1>1 DEF CostKeys
<1>5. CASE \E k \in StatusKeys : c.record = StatusId(k)
      BY <1>1, <1>5 DEF ImportPosition, StatusId, RecordId
<1>6. CASE c.record[2][2] \in Nat
      BY <1>1, <1>6 DEF ImportPosition
<1>7. CASE ~ \E k \in StatusKeys : c.record = StatusId(k)
  <2>1. c.record[2][2] \in Nat
        BY <1>2, <1>3, <1>4, <1>7
        DEF UsageId, CoverageId, CostId, CostCoverageId, RecordId
  <2> QED BY <1>6, <2>1
<1> QED BY <1>5, <1>7

(* An import of daily usage is stored as it is published.                  *)
LEMMA UsageImportStep ==
    ASSUME TypeOK, NEW provider \in Providers, NEW source \in UsageSources,
           NEW range \in SUBSET Days, NEW t \in Times,
           NEW revision \in Contracts \cup {None},
           NEW rows \in [InRange(UsageKeys, provider, range) -> Values \cup {None}],
           CommitUsageImport(provider, source, range, rows, t, revision),
           UNCHANGED costVars, UNCHANGED currentVars
    PROVE  TypeOK' /\ (LogReplaysTables => LogReplaysTables')
<1> DEFINE status == <<provider, source>>
           keys   == InRange(DayKeys, provider, range)
           facts  == AfterSuccess(status, t, None)
           usages == UsageChanges(rows, keys, source)
           health == StatusChanges(status, facts)
           changes == usages \cup health
<1>1. CASE HasNewerAttempt(status, t)
  <2>1. NothingPublished /\ UNCHANGED <<usageVars, sourceStatus>>
        BY <1>1 DEF CommitUsageImport
  <2>2. UNCHANGED <<sourceStatus, dailyVars, currentVars>>
        BY <2>1 DEF dailyVars, usageVars, costVars
  <2>3. changeLog' = changeLog /\ raised' \in BOOLEAN
        BY <2>1 DEF NothingPublished
  <2> QED BY <2>2, <2>3, IdleStep
<1>2. CASE ~HasNewerAttempt(status, t)
  <2>1. /\ Commit(changes, InImportOrder(changes))
        /\ usage' = Committed(UsageAfter(rows, source), usage)
        /\ convention' = Committed(ConventionAfter(rows, source), convention)
        /\ coverage' = Committed(CoverageAfter(keys, source, t), coverage)
        /\ sourceStatus' = Committed(WithStatus(status, facts), sourceStatus)
        /\ contract' = Committed(IF revision = None THEN contract
                                 ELSE [contract EXCEPT ![status] = revision],
                                 contract)
        BY <1>2 DEF CommitUsageImport
  <2>2. status \in StatusKeys /\ StatusTypeOK /\ changeLog \in Seq(Changes)
        BY DEF StatusKeys, Sources, TypeOK
  <2>3. facts \in StatusFacts BY <2>2, SuccessTyped
  <2>4. /\ health \subseteq Changes
        /\ OnePerRecord(health)
        /\ \A c \in health : c.record = StatusId(status) /\ c.payload = facts
        /\ WithStatus(status, facts) \in [StatusKeys -> StatusRows \cup {None}]
        BY <2>2, <2>3, StatusChangesTyped
  <2>5. /\ usages \subseteq Changes
        /\ OnePerRecord(usages)
        /\ \A c \in usages : \/ \E k \in UsageKeys : c.record = UsageId(k)
                             \/ \E k \in DayKeys : c.record = CoverageId(k)
        BY UsageChangesTyped
  <2>6. \A k, l : StatusId(k) # UsageId(l) /\ StatusId(k) # CoverageId(l)
        BY IdsDiffer
  <2>7. /\ UsageAfter(rows, source) \in [UsageKeys -> UsageRows \cup {None}]
        /\ ConventionAfter(rows, source) \in [UsageKeys -> UsagePayloads \cup {None}]
        /\ CoverageAfter(keys, source, t) \in [DayKeys -> CoverageRows \cup {None}]
        BY UsageAfterTyped
  <2> HIDE DEF keys, facts, usages, health, status
  <2>8. Transaction(changes, InImportOrder(changes))
    <3>1. changes \subseteq Changes /\ OnePerRecord(changes)
          BY <2>4, <2>5, <2>6 DEF OnePerRecord
    <3>2. \A c \in changes : ImportPosition(c) \in Nat
          BY <2>2, <2>4, <2>5, ImportPositionTyped
    <3> QED BY <3>1, <3>2 DEF Transaction, InImportOrder
  <2> HIDE DEF changes
  <2>9. changeLog' \in Seq(Changes) /\ raised' \in BOOLEAN
        BY <2>1, <2>2, <2>8, CommitTyped
  <2>10. TypeOK'
    <3>1. StatusTypeOK' BY <2>1, <2>2, <2>4 DEF StatusTypeOK, Committed
    <3>2. contract' \in [StatusKeys -> Contracts \cup {None}]
          BY <2>1, <2>2 DEF TypeOK, DailyTypeOK, Committed
    <3>3. DailyTypeOK'
          BY <2>1, <2>7, <3>2 DEF TypeOK, DailyTypeOK, Committed, costVars
    <3>4. CurrentTypeOK' BY DEF TypeOK, CurrentTypeOK, currentVars
    <3> QED BY <2>9, <3>1, <3>3, <3>4 DEF TypeOK
  <2>11. Stores(changes)
    <3>1. CASE raised'
      <4>1. UNCHANGED <<sourceStatus, usage, coverage, cost, costCoverage,
                        instance, balance, quota, snapshot>>
            BY <2>1, <3>1 DEF Committed, costVars, currentVars
      <4> QED BY <3>1, <4>1, RecordKinds, KeptRows DEF Stores
    <3>2. CASE ~raised'
      <4>1. /\ usage' = UsageAfter(rows, source)
            /\ coverage' = CoverageAfter(keys, source, t)
            /\ sourceStatus' = WithStatus(status, facts)
            BY <2>1, <3>2 DEF Committed
      <4>2. /\ \A k \in UsageKeys : Agrees(UsageId(k), usages)
            /\ \A k \in DayKeys : Agrees(CoverageId(k), usages)
            BY <4>1, UsageAfterStores DEF usages, keys
      <4>3. \A k \in StatusKeys : Agrees(StatusId(k), health)
            BY <2>2, <2>3, <4>1, WithStatusAgrees DEF health
      <4>4. ASSUME NEW record \in RecordIds PROVE Agrees(record, changes)
        <5>1. CASE \E k \in StatusKeys : record = StatusId(k)
              BY <2>5, <2>6, <4>3, <5>1 DEF Agrees, changes
        <5>2. CASE \/ \E k \in UsageKeys : record = UsageId(k)
                   \/ \E k \in DayKeys : record = CoverageId(k)
              BY <2>4, <2>6, <4>2, <5>2 DEF Agrees, changes
        <5>3. CASE /\ \A k \in StatusKeys : record # StatusId(k)
                   /\ \A k \in UsageKeys : record # UsageId(k)
                   /\ \A k \in DayKeys : record # CoverageId(k)
          <6>1. UNCHANGED <<cost, costCoverage, instance, balance, quota, snapshot>>
                BY DEF costVars, currentVars
          <6>2. Stored(record)' = Stored(record)
                BY <5>3, <6>1, RecordKinds, KeptRows
          <6>3. \A c \in changes : c.record # record
                BY <2>2, <2>4, <2>5, <5>3 DEF changes
          <6> QED BY <6>2, <6>3 DEF Agrees
        <5> QED BY <5>1, <5>2, <5>3
      <4> QED BY <3>2, <4>4 DEF Stores, Agrees
    <3> QED BY <3>1, <3>2
  <2> QED BY <2>1, <2>2, <2>8, <2>10, <2>11, StoresReplays
<1> QED BY <1>1, <1>2

-----------------------------------------------------------------------------
(* Daily costs.                                                            *)
LEMMA CostChangesTyped ==
    ASSUME TypeOK, NEW provider \in Providers, NEW range \in SUBSET Days,
           NEW rows \in [InRange(CostKeys, provider, range) -> Values \cup {None}]
    PROVE  LET changes == CostChanges(rows, InRange(DayKeys, provider, range))
           IN  /\ changes \subseteq Changes
               /\ OnePerRecord(changes)
               /\ \A c \in changes : \/ \E k \in CostKeys : c.record = CostId(k)
                                     \/ \E k \in DayKeys : c.record = CostCoverageId(k)
<1> DEFINE keys == InRange(DayKeys, provider, range)
           new  == {k \in keys : costCoverage[k] = None}
           changes == CostChanges(rows, keys)
           D(key) == Change(CostId(key), NextRevision(CostId(key)), "delete", None)
           W(key) == Change(CostId(key), NextRevision(CostId(key)),
                            IF cost[key] = None THEN "insert" ELSE "update", rows[key])
           M(key) == Change(CostCoverageId(key), NextRevision(CostCoverageId(key)),
                            "insert", [covered |-> TRUE])
<1>1. changeLog \in Seq(Changes) BY DEF TypeOK
<1>2. DeletedCosts(rows) \subseteq CostKeys /\ WrittenCosts(rows) \subseteq CostKeys
      BY DEF DeletedCosts, WrittenCosts, InRange
<1>3. new \subseteq DayKeys BY DEF InRange
<1>4. DeletedCosts(rows) \cap WrittenCosts(rows) = {}
      BY DEF DeletedCosts, WrittenCosts
<1>5. ASSUME NEW key \in DeletedCosts(rows) PROVE D(key) \in Changes
  <2>1. CostId(key) \in RecordIds BY <1>2 DEF RecordIds
  <2>2. None \in Payloads /\ "delete" \in Operations BY DEF Payloads, Operations
  <2> QED BY <1>1, <2>1, <2>2, NextRevisionTyped, ChangeTyped
<1>6. ASSUME NEW key \in WrittenCosts(rows) PROVE W(key) \in Changes
  <2>1. CostId(key) \in RecordIds BY <1>2 DEF RecordIds
  <2>2. rows[key] \in Values BY DEF WrittenCosts
  <2>3. rows[key] \in Payloads BY <2>2 DEF Payloads
  <2>4. (IF cost[key] = None THEN "insert" ELSE "update") \in Operations
        BY DEF Operations
  <2> QED BY <1>1, <2>1, <2>3, <2>4, NextRevisionTyped, ChangeTyped
<1>7. ASSUME NEW key \in new PROVE M(key) \in Changes
  <2>1. CostCoverageId(key) \in RecordIds BY <1>3 DEF RecordIds
  <2>2. [covered |-> TRUE] \in Covered BY DEF Covered
  <2>3. [covered |-> TRUE] \in Payloads /\ "insert" \in Operations
        BY <2>2 DEF Payloads, Operations
  <2> QED BY <1>1, <2>1, <2>3, NextRevisionTyped, ChangeTyped
<1>8. ASSUME NEW c \in changes
      PROVE  \/ \E key \in DeletedCosts(rows) : c = D(key)
             \/ \E key \in WrittenCosts(rows) : c = W(key)
             \/ \E key \in new : c = M(key)
      BY DEF CostChanges
<1>9. \A key : /\ D(key).record = CostId(key)
               /\ W(key).record = CostId(key)
               /\ M(key).record = CostCoverageId(key)
      BY ChangeFields
<1> HIDE DEF changes, keys, new, D, W, M
<1>10. \A c \in changes : c \in Changes BY <1>5, <1>6, <1>7, <1>8
<1>11. \A c \in changes : \/ \E k \in CostKeys : c.record = CostId(k)
                          \/ \E k \in DayKeys : c.record = CostCoverageId(k)
       BY <1>2, <1>3, <1>8, <1>9
<1>12. ASSUME NEW c \in changes, NEW d \in changes, c.record = d.record
       PROVE  c = d
  <2>1. \A k, l : /\ CostId(k) = CostId(l) => k = l
                  /\ CostCoverageId(k) = CostCoverageId(l) => k = l
                  /\ CostId(k) # CostCoverageId(l)
        BY IdsDiffer
  <2> QED BY <1>4, <1>8, <1>9, <1>12, <2>1
<1>13. changes \subseteq Changes /\ OnePerRecord(changes)
       BY <1>10, <1>12 DEF OnePerRecord
<1> QED BY <1>11, <1>13 DEF changes, keys

LEMMA CostAfterTyped ==
    ASSUME TypeOK, NEW provider \in Providers,
           NEW range \in SUBSET Days, NEW t \in Times,
           NEW rows \in [InRange(CostKeys, provider, range) -> Values \cup {None}]
    PROVE  /\ CostAfter(rows) \in [CostKeys -> CostRows \cup {None}]
           /\ CostCoverageAfter(InRange(DayKeys, provider, range), t)
                 \in [DayKeys -> CostCoverageRows \cup {None}]
<1>1. /\ cost \in [CostKeys -> CostRows \cup {None}]
      /\ costCoverage \in [DayKeys -> CostCoverageRows \cup {None}]
      /\ changeLog \in Seq(Changes)
      BY DEF TypeOK, DailyTypeOK
<1>2. ASSUME NEW key \in WrittenCosts(rows)
      PROVE  [payload |-> rows[key], revision |-> NextRevision(CostId(key))] \in CostRows
  <2>1. rows[key] \in Values BY DEF WrittenCosts
  <2>2. NextRevision(CostId(key)) \in Nat \ {0} BY <1>1, NextRevisionTyped
  <2> QED BY <2>1, <2>2 DEF CostRows
<1>3. [payload |-> [covered |-> TRUE], importedAt |-> t] \in CostCoverageRows
      BY DEF CostCoverageRows, Covered
<1> QED BY <1>1, <1>2, <1>3 DEF CostAfter, CostCoverageAfter

LEMMA CostAfterStores ==
    ASSUME TypeOK, NEW provider \in Providers,
           NEW range \in SUBSET Days, NEW t \in Times,
           NEW rows \in [InRange(CostKeys, provider, range) -> Values \cup {None}],
           cost' = CostAfter(rows),
           costCoverage' = CostCoverageAfter(InRange(DayKeys, provider, range), t)
    PROVE  LET changes == CostChanges(rows, InRange(DayKeys, provider, range))
           IN  /\ \A k \in CostKeys : Agrees(CostId(k), changes)
               /\ \A k \in DayKeys : Agrees(CostCoverageId(k), changes)
<1> DEFINE keys == InRange(DayKeys, provider, range)
           new  == {k \in keys : costCoverage[k] = None}
           changes == CostChanges(rows, keys)
           D(key) == Change(CostId(key), NextRevision(CostId(key)), "delete", None)
           W(key) == Change(CostId(key), NextRevision(CostId(key)),
                            IF cost[key] = None THEN "insert" ELSE "update", rows[key])
           M(key) == Change(CostCoverageId(key), NextRevision(CostCoverageId(key)),
                            "insert", [covered |-> TRUE])
           marker == [payload |-> [covered |-> TRUE], importedAt |-> t]
<1>1. \A c : c \in changes <=>
             \/ \E key \in DeletedCosts(rows) : c = D(key)
             \/ \E key \in WrittenCosts(rows) : c = W(key)
             \/ \E key \in new : c = M(key)
      BY DEF CostChanges
<1>2. \A key : /\ D(key).record = CostId(key) /\ D(key).payload = None
               /\ W(key).record = CostId(key) /\ W(key).payload = rows[key]
               /\ M(key).record = CostCoverageId(key)
               /\ M(key).payload = [covered |-> TRUE]
      BY ChangeFields
<1>3. DeletedCosts(rows) \cap WrittenCosts(rows) = {}
      BY DEF DeletedCosts, WrittenCosts
<1>4. /\ \A k \in DeletedCosts(rows) \cap CostKeys : cost'[k] = None
      /\ \A k \in WrittenCosts(rows) \cap CostKeys :
            cost'[k] = [payload |-> rows[k], revision |-> NextRevision(CostId(k))]
      /\ \A k \in CostKeys : k \notin DeletedCosts(rows) /\ k \notin WrittenCosts(rows)
            => cost'[k] = cost[k]
      BY <1>3 DEF CostAfter
<1>5. ASSUME NEW k \in CostKeys, k \in WrittenCosts(rows)
      PROVE  cost'[k] # None /\ cost'[k].payload = rows[k]
  <2>1. rows[k] \in Values BY <1>5 DEF WrittenCosts
  <2>2. changeLog \in Seq(Changes) BY DEF TypeOK
  <2>3. NextRevision(CostId(k)) \in Nat \ {0} BY <2>2, NextRevisionTyped
  <2> DEFINE row == [payload |-> rows[k], revision |-> NextRevision(CostId(k))]
  <2>4. row \in CostRows BY <2>1, <2>3 DEF CostRows
  <2>5. row.payload = rows[k] /\ cost'[k] = row BY <1>4, <1>5
  <2> HIDE DEF row
  <2> QED BY <2>4, <2>5, NoRowAssumption
<1>6. \A k : /\ Stored(CostId(k)) = IF cost[k] = None THEN None ELSE cost[k].payload
             /\ Stored(CostId(k))' = IF cost'[k] = None THEN None ELSE cost'[k].payload
             /\ Stored(CostCoverageId(k)) =
                   IF costCoverage[k] = None THEN None ELSE costCoverage[k].payload
             /\ Stored(CostCoverageId(k))' =
                   IF costCoverage'[k] = None THEN None ELSE costCoverage'[k].payload
      BY StoredRows DEF Stored
<1>7. ASSUME NEW k \in DayKeys
      PROVE  /\ k \in keys => Stored(CostCoverageId(k))' = [covered |-> TRUE]
             /\ k \notin keys => Stored(CostCoverageId(k))' = Stored(CostCoverageId(k))
             /\ k \in keys /\ k \notin new
                  => Stored(CostCoverageId(k)) = [covered |-> TRUE]
  <2>1. marker \in CostCoverageRows BY DEF CostCoverageRows, Covered
  <2>2. marker # None /\ marker.payload = [covered |-> TRUE]
        BY <2>1, NoRowAssumption
  <2>3. costCoverage'[k] = IF k \in keys THEN marker ELSE costCoverage[k]
        BY DEF CostCoverageAfter
  <2>4. costCoverage[k] # None => costCoverage[k].payload = [covered |-> TRUE]
        BY DEF TypeOK, DailyTypeOK, CostCoverageRows, Covered
  <2>5. k \in keys /\ k \notin new => costCoverage[k] # None OBVIOUS
  <2> HIDE DEF keys, new, marker
  <2> QED BY <1>6, <2>2, <2>3, <2>4, <2>5
<1>8. new \subseteq keys OBVIOUS
<1> HIDE DEF changes, keys, new, D, W, M
<1>9. \A k, l : /\ CostId(k) = CostId(l) => k = l
                /\ CostCoverageId(k) = CostCoverageId(l) => k = l
                /\ CostId(k) # CostCoverageId(l)
      BY IdsDiffer
<1>10. \A c \in changes :
          \/ \E key \in DeletedCosts(rows) : c.record = CostId(key) /\ c.payload = None
          \/ \E key \in WrittenCosts(rows) : c.record = CostId(key) /\ c.payload = rows[key]
          \/ \E key \in new :
                c.record = CostCoverageId(key) /\ c.payload = [covered |-> TRUE]
       BY <1>1, <1>2
<1>11. ASSUME NEW k \in CostKeys PROVE Agrees(CostId(k), changes)
  <2>1. CASE k \in DeletedCosts(rows)
    <3>1. Stored(CostId(k))' = None BY <1>4, <1>6, <2>1
    <3>2. D(k) \in changes /\ D(k).record = CostId(k) BY <1>1, <1>2, <2>1
    <3>3. \A c \in changes : c.record = CostId(k) => c.payload = None
          BY <1>3, <1>9, <1>10, <2>1
    <3> QED BY <3>1, <3>2, <3>3 DEF Agrees
  <2>2. CASE k \in WrittenCosts(rows)
    <3>1. Stored(CostId(k))' = rows[k] BY <1>5, <1>6, <2>2
    <3>2. W(k) \in changes /\ W(k).record = CostId(k) BY <1>1, <1>2, <2>2
    <3>3. \A c \in changes : c.record = CostId(k) => c.payload = rows[k]
          BY <1>3, <1>9, <1>10, <2>2
    <3> QED BY <3>1, <3>2, <3>3 DEF Agrees
  <2>3. CASE k \notin DeletedCosts(rows) /\ k \notin WrittenCosts(rows)
    <3>1. Stored(CostId(k))' = Stored(CostId(k)) BY <1>4, <1>6, <2>3
    <3>2. \A c \in changes : c.record # CostId(k) BY <1>9, <1>10, <2>3
    <3> QED BY <3>1, <3>2 DEF Agrees
  <2> QED BY <2>1, <2>2, <2>3
<1>12. ASSUME NEW k \in DayKeys PROVE Agrees(CostCoverageId(k), changes)
  <2>1. CASE k \in new
    <3>1. Stored(CostCoverageId(k))' = [covered |-> TRUE] BY <1>7, <1>8, <2>1
    <3>2. M(k) \in changes /\ M(k).record = CostCoverageId(k) BY <1>1, <1>2, <2>1
    <3>3. \A c \in changes : c.record = CostCoverageId(k) => c.payload = [covered |-> TRUE]
          BY <1>9, <1>10
    <3> QED BY <3>1, <3>2, <3>3 DEF Agrees
  <2>2. CASE k \notin new
    <3>1. Stored(CostCoverageId(k))' = Stored(CostCoverageId(k)) BY <1>7, <2>2
    <3>2. \A c \in changes : c.record # CostCoverageId(k) BY <1>9, <1>10, <2>2
    <3> QED BY <3>1, <3>2 DEF Agrees
  <2> QED BY <2>1, <2>2
<1> QED BY <1>11, <1>12 DEF changes, keys

(* An import of daily costs is stored as it is published.                  *)
LEMMA CostImportStep ==
    ASSUME TypeOK, NEW provider \in Providers, NEW source \in CostSources,
           NEW range \in SUBSET Days, NEW t \in Times,
           NEW rows \in [InRange(CostKeys, provider, range) -> Values \cup {None}],
           CommitCostImport(provider, source, range, rows, t),
           UNCHANGED usageVars, UNCHANGED currentVars
    PROVE  TypeOK' /\ (LogReplaysTables => LogReplaysTables')
<1> DEFINE status == <<provider, source>>
           keys   == InRange(DayKeys, provider, range)
           facts  == AfterSuccess(status, t, None)
           costs  == CostChanges(rows, keys)
           health == StatusChanges(status, facts)
           changes == costs \cup health
<1>1. CASE HasNewerAttempt(status, t)
  <2>1. NothingPublished /\ UNCHANGED <<costVars, sourceStatus>>
        BY <1>1 DEF CommitCostImport
  <2>2. UNCHANGED <<sourceStatus, dailyVars, currentVars>>
        BY <2>1 DEF dailyVars, usageVars, costVars
  <2>3. changeLog' = changeLog /\ raised' \in BOOLEAN
        BY <2>1 DEF NothingPublished
  <2> QED BY <2>2, <2>3, IdleStep
<1>2. CASE ~HasNewerAttempt(status, t)
  <2>1. /\ Commit(changes, InImportOrder(changes))
        /\ cost' = Committed(CostAfter(rows), cost)
        /\ costCoverage' = Committed(CostCoverageAfter(keys, t), costCoverage)
        /\ sourceStatus' = Committed(WithStatus(status, facts), sourceStatus)
        BY <1>2 DEF CommitCostImport
  <2>2. status \in StatusKeys /\ StatusTypeOK /\ changeLog \in Seq(Changes)
        BY DEF StatusKeys, Sources, TypeOK
  <2>3. facts \in StatusFacts BY <2>2, SuccessTyped
  <2>4. /\ health \subseteq Changes
        /\ OnePerRecord(health)
        /\ \A c \in health : c.record = StatusId(status) /\ c.payload = facts
        /\ WithStatus(status, facts) \in [StatusKeys -> StatusRows \cup {None}]
        BY <2>2, <2>3, StatusChangesTyped
  <2>5. /\ costs \subseteq Changes
        /\ OnePerRecord(costs)
        /\ \A c \in costs : \/ \E k \in CostKeys : c.record = CostId(k)
                            \/ \E k \in DayKeys : c.record = CostCoverageId(k)
        BY CostChangesTyped
  <2>6. \A k, l : StatusId(k) # CostId(l) /\ StatusId(k) # CostCoverageId(l)
        BY IdsDiffer
  <2>7. /\ CostAfter(rows) \in [CostKeys -> CostRows \cup {None}]
        /\ CostCoverageAfter(keys, t) \in [DayKeys -> CostCoverageRows \cup {None}]
        BY CostAfterTyped
  <2> HIDE DEF keys, facts, costs, health, status
  <2>8. Transaction(changes, InImportOrder(changes))
    <3>1. changes \subseteq Changes /\ OnePerRecord(changes)
          BY <2>4, <2>5, <2>6 DEF OnePerRecord
    <3>2. \A c \in changes : ImportPosition(c) \in Nat
          BY <2>2, <2>4, <2>5, ImportPositionTyped
    <3> QED BY <3>1, <3>2 DEF Transaction, InImportOrder
  <2> HIDE DEF changes
  <2>9. changeLog' \in Seq(Changes) /\ raised' \in BOOLEAN
        BY <2>1, <2>2, <2>8, CommitTyped
  <2>10. TypeOK'
    <3>1. StatusTypeOK' BY <2>1, <2>2, <2>4 DEF StatusTypeOK, Committed
    <3>2. DailyTypeOK'
          BY <2>1, <2>7 DEF TypeOK, DailyTypeOK, Committed, usageVars
    <3>3. CurrentTypeOK' BY DEF TypeOK, CurrentTypeOK, currentVars
    <3> QED BY <2>9, <3>1, <3>2, <3>3 DEF TypeOK
  <2>11. Stores(changes)
    <3>1. CASE raised'
      <4>1. UNCHANGED <<sourceStatus, usage, coverage, cost, costCoverage,
                        instance, balance, quota, snapshot>>
            BY <2>1, <3>1 DEF Committed, usageVars, currentVars
      <4> QED BY <3>1, <4>1, RecordKinds, KeptRows DEF Stores
    <3>2. CASE ~raised'
      <4>1. /\ cost' = CostAfter(rows)
            /\ costCoverage' = CostCoverageAfter(keys, t)
            /\ sourceStatus' = WithStatus(status, facts)
            BY <2>1, <3>2 DEF Committed
      <4>2. /\ \A k \in CostKeys : Agrees(CostId(k), costs)
            /\ \A k \in DayKeys : Agrees(CostCoverageId(k), costs)
            BY <4>1, CostAfterStores DEF costs, keys
      <4>3. \A k \in StatusKeys : Agrees(StatusId(k), health)
            BY <2>2, <2>3, <4>1, WithStatusAgrees DEF health
      <4>4. ASSUME NEW record \in RecordIds PROVE Agrees(record, changes)
        <5>1. CASE \E k \in StatusKeys : record = StatusId(k)
              BY <2>5, <2>6, <4>3, <5>1 DEF Agrees, changes
        <5>2. CASE \/ \E k \in CostKeys : record = CostId(k)
                   \/ \E k \in DayKeys : record = CostCoverageId(k)
              BY <2>4, <2>6, <4>2, <5>2 DEF Agrees, changes
        <5>3. CASE /\ \A k \in StatusKeys : record # StatusId(k)
                   /\ \A k \in CostKeys : record # CostId(k)
                   /\ \A k \in DayKeys : record # CostCoverageId(k)
          <6>1. UNCHANGED <<usage, coverage, instance, balance, quota, snapshot>>
                BY DEF usageVars, currentVars
          <6>2. Stored(record)' = Stored(record)
                BY <5>3, <6>1, RecordKinds, KeptRows
          <6>3. \A c \in changes : c.record # record
                BY <2>2, <2>4, <2>5, <5>3 DEF changes
          <6> QED BY <6>2, <6>3 DEF Agrees
        <5> QED BY <5>1, <5>2, <5>3
      <4> QED BY <3>2, <4>4 DEF Stores, Agrees
    <3> QED BY <3>1, <3>2
  <2> QED BY <2>1, <2>2, <2>8, <2>10, <2>11, StoresReplays
<1> QED BY <1>1, <1>2

-----------------------------------------------------------------------------
(* The other steps touch one table each: what has to be shown of such a    *)
(* step is that the table's changes are public and say what it stores.     *)
LEMMA PlainStep ==
    ASSUME TypeOK, TypeOK', NEW changes, NEW position,
           Transaction(changes, position), Commit(changes, position),
           \A record \in RecordIds :
              /\ raised' => Stored(record)' = Stored(record)
              /\ ~raised' => Agrees(record, changes)
    PROVE  LogReplaysTables => LogReplaysTables'
<1>1. Stores(changes) BY DEF Stores, Agrees
<1>2. changeLog \in Seq(Changes) BY DEF TypeOK
<1> QED BY <1>1, <1>2, StoresReplays

(* A card without quota takes its status with it.                          *)
LEMMA DeleteStatusStep ==
    ASSUME TypeOK, NEW key \in StatusKeys, NEW t \in Times,
           DeleteSourceStatus(key, t), UNCHANGED <<dailyVars, currentVars>>
    PROVE  TypeOK' /\ (LogReplaysTables => LogReplaysTables')
<1> DEFINE changes == StatusTombstones(key, t)
           table   == IF changes = {} THEN sourceStatus
                      ELSE [sourceStatus EXCEPT ![key] = None]
<1>1. /\ Commit(changes, AtOnce(changes))
      /\ sourceStatus' = Committed(table, sourceStatus)
      BY DEF DeleteSourceStatus
<1>2. StatusTypeOK /\ changeLog \in Seq(Changes) BY DEF TypeOK
<1>3. \A c \in changes : c.record = StatusId(key) /\ c.payload = None
      BY ChangeFields DEF StatusTombstones
<1>4. changes \in SUBSET Changes /\ OnePerRecord(changes)
  <2>1. CASE changes = {} BY <2>1 DEF OnePerRecord
  <2>2. CASE changes # {}
    <3>1. /\ changes = {Change(StatusId(key), sourceStatus[key].revision + 1, "delete", None)}
          /\ sourceStatus[key] # None
          BY <2>2 DEF StatusTombstones
    <3>2. sourceStatus[key].revision + 1 \in Nat \ {0}
      <4>1. sourceStatus[key].revision \in Nat \ {0}
            BY <1>2, <3>1 DEF StatusTypeOK, StatusRows
      <4> QED BY <4>1
    <3>3. StatusId(key) \in RecordIds BY DEF RecordIds
    <3>4. None \in Payloads /\ "delete" \in Operations BY DEF Payloads, Operations
    <3>5. Change(StatusId(key), sourceStatus[key].revision + 1, "delete", None) \in Changes
          BY <3>2, <3>3, <3>4, ChangeTyped
    <3> HIDE DEF changes
    <3> QED BY <3>1, <3>5 DEF OnePerRecord
  <2> QED BY <2>1, <2>2
<1>5. table \in [StatusKeys -> StatusRows \cup {None}]
      BY <1>2 DEF StatusTypeOK
<1>6. changes # {} => \E c \in changes : c.record = StatusId(key)
      BY <1>3
<1>7. /\ \A k \in StatusKeys : k # key => table[k] = sourceStatus[k]
      /\ changes = {} => table = sourceStatus
      /\ changes # {} => table[key] = None
      BY <1>2 DEF StatusTypeOK
<1> HIDE DEF changes, table
<1>8. Transaction(changes, AtOnce(changes)) BY <1>4, AtOnceTransaction
<1>9. TypeOK'
  <2>1. changeLog' \in Seq(Changes) /\ raised' \in BOOLEAN
        BY <1>1, <1>2, <1>8, CommitTyped
  <2>2. StatusTypeOK' BY <1>1, <1>2, <1>5 DEF StatusTypeOK, Committed
  <2> QED BY <2>1, <2>2 DEF TypeOK, DailyTypeOK, CurrentTypeOK, dailyVars, usageVars,
                            costVars, currentVars
<1>10. UNCHANGED <<usage, coverage, cost, costCoverage, instance, balance, quota, snapshot>>
       BY DEF dailyVars, usageVars, costVars, currentVars
<1>11. \A k : /\ Stored(StatusId(k)) = IF sourceStatus[k] = None THEN None
                                       ELSE sourceStatus[k].payload
              /\ Stored(StatusId(k))' = IF sourceStatus'[k] = None THEN None
                                        ELSE sourceStatus'[k].payload
       BY StoredRows DEF Stored
<1>12. ASSUME NEW record \in RecordIds
       PROVE  /\ raised' => Stored(record)' = Stored(record)
              /\ ~raised' => Agrees(record, changes)
  <2>1. CASE record = StatusId(key)
    <3>1. CASE raised' BY <1>1, <1>11, <2>1, <3>1 DEF Committed
    <3>2. CASE ~raised'
          BY <1>1, <1>3, <1>6, <1>7, <1>11, <2>1, <3>2 DEF Committed, Agrees
    <3> QED BY <3>1, <3>2
  <2>2. CASE \E k \in StatusKeys : k # key /\ record = StatusId(k)
    <3>1. PICK k \in StatusKeys : k # key /\ record = StatusId(k) BY <2>2
    <3>2. StatusId(k) # StatusId(key) BY <3>1, IdsDiffer
    <3>3. Stored(record)' = Stored(record) BY <1>1, <1>7, <1>11, <3>1 DEF Committed
    <3>4. \A c \in changes : c.record # record BY <1>3, <3>1, <3>2
    <3> QED BY <3>3, <3>4 DEF Agrees
  <2>3. CASE \A k \in StatusKeys : record # StatusId(k)
    <3>1. Stored(record)' = Stored(record) BY <1>10, <2>3, RecordKinds, KeptRows
    <3>2. \A c \in changes : c.record # record BY <1>3, <2>3
    <3> QED BY <3>1, <3>2 DEF Agrees
  <2> QED BY <2>1, <2>2, <2>3
<1> QED BY <1>1, <1>8, <1>9, <1>12, PlainStep

-----------------------------------------------------------------------------
(* Current facts.                                                          *)
LEMMA UpsertStep ==
    ASSUME TypeOK, NEW provider \in Providers, NEW facts \in Instances,
           UpsertProviderInstance(provider, facts), UNCHANGED <<sourceStatus, dailyVars>>
    PROVE  TypeOK' /\ (LogReplaysTables => LogReplaysTables')
<1> DEFINE revision == NextRevision(InstanceId(provider))
           change   == Change(InstanceId(provider), revision, "upsert", facts)
           row      == [payload |-> facts, revision |-> revision]
           table    == [instance EXCEPT ![provider] = row]
<1>1. CASE UNCHANGED instance /\ changeLog' = changeLog /\ raised' \in BOOLEAN
  <2>1. UNCHANGED <<sourceStatus, dailyVars, currentVars>>
        BY <1>1 DEF UpsertProviderInstance, currentVars
  <2> QED BY <1>1, <2>1, IdleStep
<1>2. CASE /\ Commit({change}, AtOnce({change}))
           /\ instance' = Committed(table, instance)
  <2>1. /\ changeLog \in Seq(Changes)
        /\ instance \in [Providers -> InstanceRows \cup {None}]
        BY DEF TypeOK, CurrentTypeOK
  <2>2. revision \in Nat \ {0} BY <2>1, NextRevisionTyped
  <2>3. row \in InstanceRows BY <2>2 DEF InstanceRows
  <2>4. row # None /\ row.payload = facts BY <2>3, NoRowAssumption
  <2>5. change \in Changes
    <3>1. InstanceId(provider) \in RecordIds BY DEF RecordIds
    <3>2. facts \in Payloads /\ "upsert" \in Operations BY DEF Payloads, Operations
    <3> QED BY <2>2, <3>1, <3>2, ChangeTyped
  <2>6. change.record = InstanceId(provider) /\ change.payload = facts BY ChangeFields
  <2>7. /\ table \in [Providers -> InstanceRows \cup {None}]
        /\ table[provider] = row
        /\ \A k \in Providers : k # provider => table[k] = instance[k]
        BY <2>1, <2>3
  <2> HIDE DEF revision, change, row, table
  <2>8. Transaction({change}, AtOnce({change}))
        BY <2>5, AtOnceTransaction DEF OnePerRecord
  <2>9. TypeOK'
    <3>1. changeLog' \in Seq(Changes) /\ raised' \in BOOLEAN
          BY <1>2, <2>1, <2>8, CommitTyped
    <3>2. instance' \in [Providers -> InstanceRows \cup {None}]
          BY <1>2, <2>1, <2>7 DEF Committed
    <3>3. CurrentTypeOK'
          BY <3>2 DEF TypeOK, CurrentTypeOK, UpsertProviderInstance
    <3> QED BY <3>1, <3>3 DEF TypeOK, StatusTypeOK, DailyTypeOK, dailyVars, usageVars, costVars
  <2>10. UNCHANGED <<sourceStatus, usage, coverage, cost, costCoverage,
                     balance, quota, snapshot>>
         BY DEF UpsertProviderInstance, dailyVars, usageVars, costVars
  <2>11. \A k : /\ Stored(InstanceId(k)) = IF instance[k] = None THEN None
                                           ELSE instance[k].payload
                /\ Stored(InstanceId(k))' = IF instance'[k] = None THEN None
                                            ELSE instance'[k].payload
         BY StoredRows DEF Stored
  <2>12. ASSUME NEW record \in RecordIds
         PROVE  /\ raised' => Stored(record)' = Stored(record)
                /\ ~raised' => Agrees(record, {change})
    <3>1. CASE record = InstanceId(provider)
          BY <1>2, <2>4, <2>6, <2>7, <2>11, <3>1 DEF Committed, Agrees
    <3>2. CASE \E k \in Providers : k # provider /\ record = InstanceId(k)
      <4>1. PICK k \in Providers : k # provider /\ record = InstanceId(k) BY <3>2
      <4>2. InstanceId(k) # InstanceId(provider) BY <4>1, IdsDiffer
      <4>3. Stored(record)' = Stored(record) BY <1>2, <2>7, <2>11, <4>1 DEF Committed
      <4> QED BY <2>6, <4>1, <4>2, <4>3 DEF Agrees
    <3>3. CASE \A k \in Providers : record # InstanceId(k)
      <4>1. Stored(record)' = Stored(record) BY <2>10, <3>3, RecordKinds, KeptRows
      <4> QED BY <2>6, <3>3, <4>1 DEF Agrees
    <3> QED BY <3>1, <3>2, <3>3
  <2> QED BY <1>2, <2>8, <2>9, <2>12, PlainStep
<1> QED BY <1>1, <1>2 DEF UpsertProviderInstance, RollBack, NothingPublished

(* An observation: its public change, and its row.                         *)
LEMMA ObservationTyped ==
    ASSUME NEW record \in RecordIds, NEW row \in CurrentRows \cup {None},
           NEW facts \in Facts, NEW t \in ObservationTimes
    PROVE  LET changes == ObservationChanges(record, row, facts)
           IN  /\ changes \in SUBSET Changes
               /\ OnePerRecord(changes)
               /\ \A c \in changes : c.record = record /\ c.payload = facts
               /\ changes # {} => \E c \in changes : c.record = record
               /\ changes = {} => row # None /\ row.payload = facts
               /\ Observed(row, facts, t) \in CurrentRows
               /\ Observed(row, facts, t) # None
               /\ Observed(row, facts, t).payload = facts
<1> DEFINE changes == ObservationChanges(record, row, facts)
           operation == IF row = None THEN "insert" ELSE "update"
           change  == Change(record, RowRevision(row, facts), operation, facts)
<1>1. RowRevision(row, facts) \in Nat \ {0}
  <2>1. row # None => row.revision \in Nat \ {0} BY DEF CurrentRows
  <2> QED BY <2>1 DEF RowRevision
<1>2. changes = IF Changed(row, facts) THEN {change} ELSE {}
      BY DEF ObservationChanges
<1>3. change.record = record /\ change.payload = facts BY ChangeFields
<1>4. change \in Changes
  <2>1. facts \in Payloads /\ operation \in Operations BY DEF Payloads, Operations
  <2> QED BY <1>1, <2>1, ChangeTyped
<1>5. Observed(row, facts, t) \in CurrentRows BY <1>1 DEF Observed, CurrentRows
<1>6. Observed(row, facts, t) # None BY <1>5, NoRowAssumption
<1>7. Observed(row, facts, t).payload = facts BY DEF Observed
<1>8. ~Changed(row, facts) => row # None /\ row.payload = facts BY DEF Changed
<1> HIDE DEF changes, change
<1>9. /\ changes \in SUBSET Changes
      /\ OnePerRecord(changes)
      /\ \A c \in changes : c.record = record /\ c.payload = facts
      /\ changes # {} => \E c \in changes : c.record = record
      BY <1>2, <1>3, <1>4 DEF OnePerRecord
<1> QED BY <1>2, <1>5, <1>6, <1>7, <1>8, <1>9 DEF changes

LEMMA RecordBalanceStep ==
    ASSUME TypeOK, NEW record \in Balances, NEW facts \in Facts,
           NEW t \in ObservationTimes,
           RecordBalance(record, facts, t), UNCHANGED <<sourceStatus, dailyVars>>
    PROVE  TypeOK' /\ (LogReplaysTables => LogReplaysTables')
<1> DEFINE row     == balance[record]
           changes == ObservationChanges(BalanceId(record), row, facts)
           new     == Observed(row, facts, t)
           table   == [balance EXCEPT ![record] = new]
<1>1. CASE Older(row, t)
  <2>1. UNCHANGED <<sourceStatus, dailyVars, currentVars>>
        /\ changeLog' = changeLog /\ raised' \in BOOLEAN
        BY <1>1 DEF RecordBalance, NothingPublished, currentVars
  <2> QED BY <2>1, IdleStep
<1>2. CASE ~Older(row, t)
  <2>1. /\ Commit(changes, AtOnce(changes))
        /\ balance' = Committed(table, balance)
        BY <1>2 DEF RecordBalance
  <2>2. /\ changeLog \in Seq(Changes)
        /\ balance \in [Balances -> CurrentRows \cup {None}]
        BY DEF TypeOK, CurrentTypeOK
  <2>3. row \in CurrentRows \cup {None} BY <2>2
  <2>4. BalanceId(record) \in RecordIds BY DEF RecordIds
  <2> HIDE DEF row
  <2>5. /\ changes \in SUBSET Changes
        /\ OnePerRecord(changes)
        /\ \A c \in changes : c.record = BalanceId(record) /\ c.payload = facts
        /\ changes # {} => \E c \in changes : c.record = BalanceId(record)
        /\ changes = {} => row # None /\ row.payload = facts
        /\ new \in CurrentRows
        /\ new # None
        /\ new.payload = facts
        BY <2>3, <2>4, ObservationTyped
  <2>6. /\ table \in [Balances -> CurrentRows \cup {None}]
        /\ table[record] = new
        /\ \A k \in Balances : k # record => table[k] = balance[k]
        BY <2>2, <2>5
  <2> HIDE DEF changes, new, table
  <2>7. Transaction(changes, AtOnce(changes)) BY <2>5, AtOnceTransaction
  <2>8. TypeOK'
    <3>1. changeLog' \in Seq(Changes) /\ raised' \in BOOLEAN
          BY <2>1, <2>2, <2>7, CommitTyped
    <3>2. balance' \in [Balances -> CurrentRows \cup {None}]
          BY <2>1, <2>2, <2>6 DEF Committed
    <3>3. CurrentTypeOK' BY <3>2 DEF TypeOK, CurrentTypeOK, RecordBalance
    <3> QED BY <3>1, <3>3 DEF TypeOK, StatusTypeOK, DailyTypeOK, dailyVars, usageVars, costVars
  <2>9. UNCHANGED <<sourceStatus, usage, coverage, cost, costCoverage,
                    instance, quota, snapshot>>
        BY DEF RecordBalance, dailyVars, usageVars, costVars
  <2>10. \A k : /\ Stored(BalanceId(k)) = IF balance[k] = None THEN None
                                          ELSE balance[k].payload
                /\ Stored(BalanceId(k))' = IF balance'[k] = None THEN None
                                           ELSE balance'[k].payload
         BY StoredRows DEF Stored
  <2>11. ASSUME NEW r \in RecordIds
         PROVE  /\ raised' => Stored(r)' = Stored(r)
                /\ ~raised' => Agrees(r, changes)
    <3>1. CASE r = BalanceId(record)
      <4>1. CASE raised' BY <2>1, <2>10, <3>1, <4>1 DEF Committed
      <4>2. CASE ~raised'
        <5>1. Stored(r)' = facts BY <2>1, <2>5, <2>6, <2>10, <3>1, <4>2 DEF Committed
        <5>2. changes = {} => Stored(r) = facts BY <2>5, <2>10, <3>1 DEF row
        <5> QED BY <2>5, <3>1, <4>2, <5>1, <5>2 DEF Agrees
      <4> QED BY <4>1, <4>2
    <3>2. CASE \E k \in Balances : k # record /\ r = BalanceId(k)
      <4>1. PICK k \in Balances : k # record /\ r = BalanceId(k) BY <3>2
      <4>2. BalanceId(k) # BalanceId(record) BY <4>1, IdsDiffer
      <4>3. Stored(r)' = Stored(r) BY <2>1, <2>6, <2>10, <4>1 DEF Committed
      <4> QED BY <2>5, <4>1, <4>2, <4>3 DEF Agrees
    <3>3. CASE \A k \in Balances : r # BalanceId(k)
      <4>1. Stored(r)' = Stored(r) BY <2>9, <3>3, RecordKinds, KeptRows
      <4> QED BY <2>5, <3>3, <4>1 DEF Agrees
    <3> QED BY <3>1, <3>2, <3>3
  <2> QED BY <2>1, <2>7, <2>8, <2>11, PlainStep
<1> QED BY <1>1, <1>2

(* Marking a row stale: its public change, and its row.                    *)
LEMMA StaledTyped ==
    ASSUME NEW record \in RecordIds, NEW row \in CurrentRows
    PROVE  /\ StaleChange(record, row) \in Changes
           /\ StaleChange(record, row).record = record
           /\ Staled(row) \in CurrentRows
           /\ Staled(row) # None
           /\ Staled(row).payload = StaleChange(record, row).payload
<1> DEFINE payload == [row.payload EXCEPT !.stale = TRUE]
<1>1. row.revision + 1 \in Nat \ {0}
  <2>1. row.revision \in Nat \ {0} BY DEF CurrentRows
  <2> QED BY <2>1
<1>2. row.payload \in Facts /\ payload \in Facts
  <2>1. row.payload \in Facts BY DEF CurrentRows
  <2> QED BY <2>1 DEF Facts
<1>3. payload \in Payloads /\ "update" \in Operations
      BY <1>2 DEF Payloads, Operations
<1>4. /\ Staled(row).payload = payload
      /\ Staled(row) = [row EXCEPT !.payload = payload, !.revision = row.revision + 1]
      BY DEF Staled, CurrentRows
<1> HIDE DEF payload
<1>5. Staled(row) \in CurrentRows BY <1>1, <1>2, <1>4 DEF CurrentRows
<1>6. StaleChange(record, row) \in Changes
      BY <1>1, <1>3, ChangeTyped DEF StaleChange, payload
<1>7. StaleChange(record, row).record = record
      /\ StaleChange(record, row).payload = payload
      BY ChangeFields DEF StaleChange, payload
<1> QED BY <1>4, <1>5, <1>6, <1>7, NoRowAssumption

LEMMA MarkBalanceStep ==
    ASSUME TypeOK, NEW provider, NEW source, NEW t,
           MarkBalanceSourceStale(provider, source, t),
           UNCHANGED <<sourceStatus, dailyVars>>
    PROVE  TypeOK' /\ (LogReplaysTables => LogReplaysTables')
<1> DEFINE marked  == LiveOf(balance, provider, source)
           changes == {StaleChange(BalanceId(record), balance[record]) : record \in marked}
           table   == [record \in Balances |->
                          IF record \in marked THEN Staled(balance[record])
                          ELSE balance[record]]
<1>1. Commit(changes, AtOnce(changes)) /\ balance' = Committed(table, balance)
      BY DEF MarkBalanceSourceStale
<1>2. /\ changeLog \in Seq(Changes)
      /\ balance \in [Balances -> CurrentRows \cup {None}]
      BY DEF TypeOK, CurrentTypeOK
<1>3. ASSUME NEW k \in marked
      PROVE  /\ k \in Balances
             /\ StaleChange(BalanceId(k), balance[k]) \in Changes
             /\ StaleChange(BalanceId(k), balance[k]).record = BalanceId(k)
             /\ Staled(balance[k]) \in CurrentRows
             /\ Staled(balance[k]) # None
             /\ Staled(balance[k]).payload
                   = StaleChange(BalanceId(k), balance[k]).payload
  <2>1. k \in Balances /\ balance[k] \in CurrentRows BY <1>2 DEF LiveOf
  <2>2. BalanceId(k) \in RecordIds BY <2>1 DEF RecordIds
  <2> QED BY <2>1, <2>2, StaledTyped
<1>4. \A k, l : BalanceId(k) = BalanceId(l) => k = l BY IdsDiffer
<1>5. \A c \in changes : \E k \in marked : c = StaleChange(BalanceId(k), balance[k])
      OBVIOUS
<1>6. \A k \in marked : StaleChange(BalanceId(k), balance[k]) \in changes
      OBVIOUS
<1>7. \A k \in Balances : table[k] = IF k \in marked THEN Staled(balance[k])
                                     ELSE balance[k]
      OBVIOUS
<1>8. table \in [Balances -> CurrentRows \cup {None}] BY <1>2, <1>3
<1> HIDE DEF changes, table, marked
<1>9. changes \in SUBSET Changes /\ OnePerRecord(changes)
      BY <1>3, <1>4, <1>5 DEF OnePerRecord
<1>10. Transaction(changes, AtOnce(changes)) BY <1>9, AtOnceTransaction
<1>11. TypeOK'
  <2>1. changeLog' \in Seq(Changes) /\ raised' \in BOOLEAN
        BY <1>1, <1>2, <1>10, CommitTyped
  <2>2. balance' \in [Balances -> CurrentRows \cup {None}]
        BY <1>1, <1>2, <1>8 DEF Committed
  <2>3. CurrentTypeOK' BY <2>2 DEF TypeOK, CurrentTypeOK, MarkBalanceSourceStale
  <2> QED BY <2>1, <2>3 DEF TypeOK, StatusTypeOK, DailyTypeOK, dailyVars, usageVars, costVars
<1>12. UNCHANGED <<sourceStatus, usage, coverage, cost, costCoverage,
                   instance, quota, snapshot>>
       BY DEF MarkBalanceSourceStale, dailyVars, usageVars, costVars
<1>13. \A k : /\ Stored(BalanceId(k)) = IF balance[k] = None THEN None
                                        ELSE balance[k].payload
              /\ Stored(BalanceId(k))' = IF balance'[k] = None THEN None
                                         ELSE balance'[k].payload
       BY StoredRows DEF Stored
<1>14. ASSUME NEW r \in RecordIds
       PROVE  /\ raised' => Stored(r)' = Stored(r)
              /\ ~raised' => Agrees(r, changes)
  <2>1. CASE \E k \in marked : r = BalanceId(k)
    <3>1. PICK k \in marked : r = BalanceId(k) BY <2>1
    <3>2. raised' => Stored(r)' = Stored(r) BY <1>1, <1>13, <3>1 DEF Committed
    <3>3. ~raised' => Stored(r)' = StaleChange(BalanceId(k), balance[k]).payload
          BY <1>1, <1>3, <1>7, <1>13, <3>1 DEF Committed
    <3>4. \A c \in changes :
             c.record = r => c.payload = StaleChange(BalanceId(k), balance[k]).payload
          BY <1>3, <1>4, <1>5, <3>1
    <3>5. \E c \in changes : c.record = r BY <1>3, <1>6, <3>1
    <3> QED BY <3>2, <3>3, <3>4, <3>5 DEF Agrees
  <2>2. CASE \E k \in Balances : k \notin marked /\ r = BalanceId(k)
    <3>1. PICK k \in Balances : k \notin marked /\ r = BalanceId(k) BY <2>2
    <3>2. Stored(r)' = Stored(r) BY <1>1, <1>7, <1>13, <3>1 DEF Committed
    <3>3. \A c \in changes : c.record # r BY <1>3, <1>4, <1>5, <3>1
    <3> QED BY <3>2, <3>3 DEF Agrees
  <2>3. CASE \A k \in Balances : r # BalanceId(k)
    <3>1. Stored(r)' = Stored(r) BY <1>12, <2>3, RecordKinds, KeptRows
    <3>2. \A c \in changes : c.record # r BY <1>3, <1>5, <2>3
    <3> QED BY <3>1, <3>2 DEF Agrees
  <2> QED BY <1>3, <2>1, <2>2, <2>3
<1> QED BY <1>1, <1>10, <1>11, <1>14, PlainStep

LEMMA MarkQuotaStep ==
    ASSUME TypeOK, NEW provider, NEW source, NEW t,
           MarkQuotaSourceStale(provider, source, t),
           UNCHANGED <<sourceStatus, dailyVars>>
    PROVE  TypeOK' /\ (LogReplaysTables => LogReplaysTables')
<1> DEFINE marked  == {record \in LiveOf(quota, provider, source) :
                          quota[record].observedAt <= t}
           changes == {StaleChange(QuotaId(record), quota[record]) : record \in marked}
           table   == [record \in Quotas |->
                          IF record \in marked THEN Staled(quota[record])
                          ELSE quota[record]]
<1>1. Commit(changes, AtOnce(changes)) /\ quota' = Committed(table, quota)
      BY DEF MarkQuotaSourceStale
<1>2. /\ changeLog \in Seq(Changes)
      /\ quota \in [Quotas -> CurrentRows \cup {None}]
      BY DEF TypeOK, CurrentTypeOK
<1>3. ASSUME NEW k \in marked
      PROVE  /\ k \in Quotas
             /\ StaleChange(QuotaId(k), quota[k]) \in Changes
             /\ StaleChange(QuotaId(k), quota[k]).record = QuotaId(k)
             /\ Staled(quota[k]) \in CurrentRows
             /\ Staled(quota[k]) # None
             /\ Staled(quota[k]).payload = StaleChange(QuotaId(k), quota[k]).payload
  <2>1. k \in Quotas /\ quota[k] \in CurrentRows BY <1>2 DEF LiveOf
  <2>2. QuotaId(k) \in RecordIds BY <2>1 DEF RecordIds
  <2> QED BY <2>1, <2>2, StaledTyped
<1>4. \A k, l : QuotaId(k) = QuotaId(l) => k = l BY IdsDiffer
<1>5. \A c \in changes : \E k \in marked : c = StaleChange(QuotaId(k), quota[k])
      OBVIOUS
<1>6. \A k \in marked : StaleChange(QuotaId(k), quota[k]) \in changes
      OBVIOUS
<1>7. \A k \in Quotas : table[k] = IF k \in marked THEN Staled(quota[k]) ELSE quota[k]
      OBVIOUS
<1>8. table \in [Quotas -> CurrentRows \cup {None}] BY <1>2, <1>3
<1> HIDE DEF changes, table, marked
<1>9. changes \in SUBSET Changes /\ OnePerRecord(changes)
      BY <1>3, <1>4, <1>5 DEF OnePerRecord
<1>10. Transaction(changes, AtOnce(changes)) BY <1>9, AtOnceTransaction
<1>11. TypeOK'
  <2>1. changeLog' \in Seq(Changes) /\ raised' \in BOOLEAN
        BY <1>1, <1>2, <1>10, CommitTyped
  <2>2. quota' \in [Quotas -> CurrentRows \cup {None}]
        BY <1>1, <1>2, <1>8 DEF Committed
  <2>3. CurrentTypeOK' BY <2>2 DEF TypeOK, CurrentTypeOK, MarkQuotaSourceStale
  <2> QED BY <2>1, <2>3 DEF TypeOK, StatusTypeOK, DailyTypeOK, dailyVars, usageVars, costVars
<1>12. UNCHANGED <<sourceStatus, usage, coverage, cost, costCoverage,
                   instance, balance, snapshot>>
       BY DEF MarkQuotaSourceStale, dailyVars, usageVars, costVars
<1>13. \A k : /\ Stored(QuotaId(k)) = IF quota[k] = None THEN None ELSE quota[k].payload
              /\ Stored(QuotaId(k))' = IF quota'[k] = None THEN None ELSE quota'[k].payload
       BY StoredRows DEF Stored
<1>14. ASSUME NEW r \in RecordIds
       PROVE  /\ raised' => Stored(r)' = Stored(r)
              /\ ~raised' => Agrees(r, changes)
  <2>1. CASE \E k \in marked : r = QuotaId(k)
    <3>1. PICK k \in marked : r = QuotaId(k) BY <2>1
    <3>2. raised' => Stored(r)' = Stored(r) BY <1>1, <1>13, <3>1 DEF Committed
    <3>3. ~raised' => Stored(r)' = StaleChange(QuotaId(k), quota[k]).payload
          BY <1>1, <1>3, <1>7, <1>13, <3>1 DEF Committed
    <3>4. \A c \in changes :
             c.record = r => c.payload = StaleChange(QuotaId(k), quota[k]).payload
          BY <1>3, <1>4, <1>5, <3>1
    <3>5. \E c \in changes : c.record = r BY <1>3, <1>6, <3>1
    <3> QED BY <3>2, <3>3, <3>4, <3>5 DEF Agrees
  <2>2. CASE \E k \in Quotas : k \notin marked /\ r = QuotaId(k)
    <3>1. PICK k \in Quotas : k \notin marked /\ r = QuotaId(k) BY <2>2
    <3>2. Stored(r)' = Stored(r) BY <1>1, <1>7, <1>13, <3>1 DEF Committed
    <3>3. \A c \in changes : c.record # r BY <1>3, <1>4, <1>5, <3>1
    <3> QED BY <3>2, <3>3 DEF Agrees
  <2>3. CASE \A k \in Quotas : r # QuotaId(k)
    <3>1. Stored(r)' = Stored(r) BY <1>12, <2>3, RecordKinds, KeptRows
    <3>2. \A c \in changes : c.record # r BY <1>3, <1>5, <2>3
    <3> QED BY <3>1, <3>2 DEF Agrees
  <2> QED BY <1>3, <2>1, <2>2, <2>3
<1> QED BY <1>1, <1>10, <1>11, <1>14, PlainStep

(* A quota and its history are stored as they are published.               *)
LEMMA RecordQuotaStep ==
    ASSUME TypeOK, NEW record \in Quotas, NEW facts \in Facts,
           NEW t \in ObservationTimes,
           RecordQuota(record, facts, t), UNCHANGED <<sourceStatus, dailyVars>>
    PROVE  TypeOK' /\ (LogReplaysTables => LogReplaysTables')
<1> DEFINE row     == quota[record]
           late    == Older(row, t)
           n       == lastSnapshot + 1
           payload == SnapshotPayload(record, facts, t)
           entry   == Change(SnapshotId(n), 1, "insert", payload)
           history == SnapshotChanges(record, facts, t)
           current == ObservationChanges(QuotaId(record), row, facts)
           seen    == IF late THEN {} ELSE current
           changes == history \cup seen
           new     == Observed(row, facts, t)
           stored  == [payload |-> payload]
           quotas  == IF late THEN quota ELSE [quota EXCEPT ![record] = new]
           entries == IF history = {} THEN snapshot ELSE [snapshot EXCEPT ![n] = stored]
           last    == IF history = {} THEN lastSnapshot ELSE n
<1>1. /\ Commit(changes, SnapshotFirst(changes))
      /\ quota' = Committed(quotas, quota)
      /\ snapshot' = Committed(entries, snapshot)
      /\ lastSnapshot' = Committed(last, lastSnapshot)
      /\ lastSnapshot < MaxSnapshots
      BY DEF RecordQuota
<1>2. /\ changeLog \in Seq(Changes)
      /\ quota \in [Quotas -> CurrentRows \cup {None}]
      /\ snapshot \in [SnapshotIds -> SnapshotRows \cup {None}]
      /\ lastSnapshot \in 0..MaxSnapshots
      BY DEF TypeOK, CurrentTypeOK
<1>3. row \in CurrentRows \cup {None} BY <1>2
<1>4. QuotaId(record) \in RecordIds BY DEF RecordIds
<1>5. n \in SnapshotIds /\ last \in 0..MaxSnapshots
      BY <1>1, <1>2, CurrentAssumption DEF SnapshotIds
<1>6. SnapshotId(n) \in RecordIds BY <1>5 DEF RecordIds
<1>7. payload \in SnapshotFacts BY DEF SnapshotPayload, SnapshotFacts
<1>8. stored \in SnapshotRows BY <1>7 DEF SnapshotRows
<1>9. stored # None /\ stored.payload = payload BY <1>8, NoRowAssumption
<1>10. entry \in Changes
  <2>1. payload \in Payloads /\ "insert" \in Operations
        BY <1>7 DEF Payloads, Operations
  <2> QED BY <1>6, <2>1, ChangeTyped
<1>11. entry.record = SnapshotId(n) /\ entry.payload = payload BY ChangeFields
<1>12. history = {} \/ history = {entry} BY DEF SnapshotChanges
<1> HIDE DEF row
<1>13. /\ current \in SUBSET Changes
       /\ OnePerRecord(current)
       /\ \A c \in current : c.record = QuotaId(record) /\ c.payload = facts
       /\ current # {} => \E c \in current : c.record = QuotaId(record)
       /\ current = {} => row # None /\ row.payload = facts
       /\ new \in CurrentRows
       /\ new # None
       /\ new.payload = facts
       BY <1>3, <1>4, ObservationTyped
<1>14. /\ quotas \in [Quotas -> CurrentRows \cup {None}]
       /\ quotas[record] = IF late THEN quota[record] ELSE new
       /\ \A k \in Quotas : k # record => quotas[k] = quota[k]
       BY <1>2, <1>13
<1>15. /\ entries \in [SnapshotIds -> SnapshotRows \cup {None}]
       /\ entries[n] = IF history = {} THEN snapshot[n] ELSE stored
       /\ \A k \in SnapshotIds : k # n => entries[k] = snapshot[k]
       BY <1>2, <1>5, <1>8
<1>16. \A k, l : /\ QuotaId(k) = QuotaId(l) => k = l
                 /\ SnapshotId(k) = SnapshotId(l) => k = l
                 /\ QuotaId(k) # SnapshotId(l)
       BY IdsDiffer
<1> HIDE DEF current, new, entry, history, stored, payload, quotas, entries, last, late, n
<1>17. /\ changes \subseteq Changes
       /\ \A c \in changes : c \in history \/ c \in seen
       /\ \A c \in seen : ~late /\ c \in current
       /\ ~late => seen = current
       BY <1>10, <1>12, <1>13
<1>18. OnePerRecord(changes)
       BY <1>11, <1>12, <1>13, <1>16, <1>17 DEF OnePerRecord
<1>19. history \subseteq changes /\ seen \subseteq changes OBVIOUS
<1> HIDE DEF changes, seen
<1>20. Transaction(changes, SnapshotFirst(changes))
       BY <1>17, <1>18 DEF Transaction, SnapshotFirst
<1>21. TypeOK'
  <2>1. changeLog' \in Seq(Changes) /\ raised' \in BOOLEAN
        BY <1>1, <1>2, <1>20, CommitTyped
  <2>2. /\ quota' \in [Quotas -> CurrentRows \cup {None}]
        /\ snapshot' \in [SnapshotIds -> SnapshotRows \cup {None}]
        /\ lastSnapshot' \in 0..MaxSnapshots
        BY <1>1, <1>2, <1>5, <1>14, <1>15 DEF Committed
  <2>3. CurrentTypeOK' BY <2>2 DEF TypeOK, CurrentTypeOK, RecordQuota
  <2> QED BY <2>1, <2>3 DEF TypeOK, StatusTypeOK, DailyTypeOK, dailyVars, usageVars, costVars
<1>22. UNCHANGED <<sourceStatus, usage, coverage, cost, costCoverage, instance, balance>>
       BY DEF RecordQuota, dailyVars, usageVars, costVars
<1>23. \A k : /\ Stored(QuotaId(k)) = IF quota[k] = None THEN None ELSE quota[k].payload
              /\ Stored(QuotaId(k))' = IF quota'[k] = None THEN None ELSE quota'[k].payload
              /\ Stored(SnapshotId(k)) =
                    IF snapshot[k] = None THEN None ELSE snapshot[k].payload
              /\ Stored(SnapshotId(k))' =
                    IF snapshot'[k] = None THEN None ELSE snapshot'[k].payload
       BY StoredRows DEF Stored
<1>24. ASSUME NEW r \in RecordIds
       PROVE  /\ raised' => Stored(r)' = Stored(r)
              /\ ~raised' => Agrees(r, changes)
  <2>1. CASE r = QuotaId(record)
    <3>1. CASE raised' BY <1>1, <1>23, <2>1, <3>1 DEF Committed
    <3>2. CASE ~raised' /\ late
      <4>1. Stored(r)' = Stored(r) BY <1>1, <1>14, <1>23, <2>1, <3>2 DEF Committed
      <4>2. \A c \in changes : c.record # r
            BY <1>11, <1>12, <1>16, <1>17, <2>1, <3>2
      <4> QED BY <3>2, <4>1, <4>2 DEF Agrees
    <3>3. CASE ~raised' /\ ~late
      <4>1. Stored(r)' = facts
            BY <1>1, <1>13, <1>14, <1>23, <2>1, <3>3 DEF Committed
      <4>2. current = {} => Stored(r) = facts BY <1>13, <1>23, <2>1 DEF row
      <4>3. \A c \in changes : c.record = r => c.payload = facts
            BY <1>11, <1>12, <1>13, <1>16, <1>17, <2>1
      <4>4. current # {} => \E c \in changes : c.record = r
            BY <1>13, <1>17, <1>19, <2>1, <3>3
      <4> QED BY <3>3, <4>1, <4>2, <4>3, <4>4 DEF Agrees
    <3> QED BY <3>1, <3>2, <3>3
  <2>2. CASE \E k \in Quotas : k # record /\ r = QuotaId(k)
    <3>1. PICK k \in Quotas : k # record /\ r = QuotaId(k) BY <2>2
    <3>2. Stored(r)' = Stored(r) BY <1>1, <1>14, <1>23, <3>1 DEF Committed
    <3>3. \A c \in changes : c.record # r
          BY <1>11, <1>12, <1>13, <1>16, <1>17, <3>1
    <3> QED BY <3>2, <3>3 DEF Agrees
  <2>3. CASE r = SnapshotId(n)
    <3>1. CASE raised' BY <1>1, <1>23, <2>3, <3>1 DEF Committed
    <3>2. CASE ~raised' /\ history = {}
      <4>1. Stored(r)' = Stored(r) BY <1>1, <1>15, <1>23, <2>3, <3>2 DEF Committed
      <4>2. \A c \in changes : c.record # r BY <1>13, <1>16, <1>17, <2>3, <3>2
      <4> QED BY <3>2, <4>1, <4>2 DEF Agrees
    <3>3. CASE ~raised' /\ history # {}
      <4>1. Stored(r)' = payload
            BY <1>1, <1>9, <1>15, <1>23, <2>3, <3>3 DEF Committed
      <4>2. \A c \in changes : c.record = r => c.payload = payload
            BY <1>11, <1>12, <1>13, <1>16, <1>17, <2>3
      <4>3. entry \in changes /\ entry.record = r
            BY <1>11, <1>12, <1>19, <2>3, <3>3
      <4> QED BY <3>3, <4>1, <4>2, <4>3 DEF Agrees
    <3> QED BY <3>1, <3>2, <3>3
  <2>4. CASE \E k \in SnapshotIds : k # n /\ r = SnapshotId(k)
    <3>1. PICK k \in SnapshotIds : k # n /\ r = SnapshotId(k) BY <2>4
    <3>2. Stored(r)' = Stored(r) BY <1>1, <1>15, <1>23, <3>1 DEF Committed
    <3>3. \A c \in changes : c.record # r
          BY <1>11, <1>12, <1>13, <1>16, <1>17, <3>1
    <3> QED BY <3>2, <3>3 DEF Agrees
  <2>5. CASE /\ \A k \in Quotas : r # QuotaId(k)
             /\ \A k \in SnapshotIds : r # SnapshotId(k)
    <3>1. Stored(r)' = Stored(r) BY <1>22, <2>5, RecordKinds, KeptRows
    <3>2. \A c \in changes : c.record # r
          BY <1>5, <1>11, <1>12, <1>13, <1>17, <2>5
    <3> QED BY <3>1, <3>2 DEF Agrees
  <2> QED BY <2>1, <2>2, <2>3, <2>4, <2>5
<1> QED BY <1>1, <1>20, <1>21, <1>24, PlainStep

-----------------------------------------------------------------------------
(* Retention.                                                              *)
LEMMA TombstoneTyped ==
    ASSUME changeLog \in Seq(Changes), NEW record \in RecordIds
    PROVE  /\ Tombstone(record) \in Changes
           /\ Tombstone(record).record = record
           /\ Tombstone(record).payload = None
<1>1. None \in Payloads /\ "delete" \in Operations BY DEF Payloads, Operations
<1>2. NextRevision(record) \in Nat \ {0} BY NextRevisionTyped
<1>3. Tombstone(record) \in Changes BY <1>1, <1>2, ChangeTyped DEF Tombstone
<1> QED BY <1>3, ChangeFields DEF Tombstone

(* What a purge publishes: one tombstone for every expired row.            *)
LEMMA PurgeChangesTyped ==
    ASSUME TypeOK, NEW day, NEW time
    PROVE  LET changes == PurgeChanges(day, time)
           IN  /\ Transaction(changes, [c \in changes |-> PurgePosition(c)])
               /\ \A c \in changes :
                     /\ c.payload = None
                     /\ \/ \E k \in Expired(cost, day) : c.record = CostId(k)
                        \/ \E k \in Expired(costCoverage, day) : c.record = CostCoverageId(k)
                        \/ \E k \in Expired(usage, day) : c.record = UsageId(k)
                        \/ \E k \in Expired(coverage, day) : c.record = CoverageId(k)
                        \/ \E k \in ExpiredSnapshots(time) : c.record = SnapshotId(k)
               /\ \A k \in Expired(cost, day) : \E c \in changes : c.record = CostId(k)
               /\ \A k \in Expired(costCoverage, day) :
                     \E c \in changes : c.record = CostCoverageId(k)
               /\ \A k \in Expired(usage, day) : \E c \in changes : c.record = UsageId(k)
               /\ \A k \in Expired(coverage, day) :
                     \E c \in changes : c.record = CoverageId(k)
               /\ \A k \in ExpiredSnapshots(time) :
                     \E c \in changes : c.record = SnapshotId(k)
<1> DEFINE changes == PurgeChanges(day, time)
           costs   == Expired(cost, day)
           markers == Expired(costCoverage, day)
           usages  == Expired(usage, day)
           covers  == Expired(coverage, day)
           entries == ExpiredSnapshots(time)
           S(k)    == Change(SnapshotId(k), 2, "delete", None)
<1>1. changeLog \in Seq(Changes) BY DEF TypeOK
<1>2. /\ \A k \in costs : CostId(k) \in RecordIds
      /\ \A k \in markers : CostCoverageId(k) \in RecordIds
      /\ \A k \in usages : UsageId(k) \in RecordIds
      /\ \A k \in covers : CoverageId(k) \in RecordIds
      /\ \A k \in entries : SnapshotId(k) \in RecordIds
  <2>1. /\ costs \subseteq CostKeys
        /\ markers \subseteq DayKeys
        /\ usages \subseteq UsageKeys
        /\ covers \subseteq DayKeys
        /\ entries \subseteq SnapshotIds
        BY DEF Expired, ExpiredSnapshots, TypeOK, DailyTypeOK
  <2> HIDE DEF costs, markers, usages, covers, entries
  <2> QED BY <2>1 DEF RecordIds
<1>3. \A k \in entries : S(k) \in Changes /\ S(k).record = SnapshotId(k)
                         /\ S(k).payload = None
  <2>1. None \in Payloads /\ "delete" \in Operations BY DEF Payloads, Operations
  <2>2. 2 \in Nat \ {0} OBVIOUS
  <2> QED BY <1>2, <2>1, <2>2, ChangeTyped, ChangeFields
<1>4. /\ \A k \in costs : Tombstone(CostId(k)) \in changes
      /\ \A k \in markers : Tombstone(CostCoverageId(k)) \in changes
      /\ \A k \in usages : Tombstone(UsageId(k)) \in changes
      /\ \A k \in covers : Tombstone(CoverageId(k)) \in changes
      /\ \A k \in entries : S(k) \in changes
      BY DEF PurgeChanges
<1>5. \A c \in changes :
         \/ \E k \in costs : c = Tombstone(CostId(k))
         \/ \E k \in markers : c = Tombstone(CostCoverageId(k))
         \/ \E k \in usages : c = Tombstone(UsageId(k))
         \/ \E k \in covers : c = Tombstone(CoverageId(k))
         \/ \E k \in entries : c = S(k)
      BY DEF PurgeChanges
<1> HIDE DEF changes, costs, markers, usages, covers, entries, S
<1>6. \A r \in RecordIds : /\ Tombstone(r) \in Changes
                           /\ Tombstone(r).record = r
                           /\ Tombstone(r).payload = None
      BY <1>1, TombstoneTyped
<1>7. \A k, l : /\ CostId(k) = CostId(l) => k = l
                /\ CostCoverageId(k) = CostCoverageId(l) => k = l
                /\ UsageId(k) = UsageId(l) => k = l
                /\ CoverageId(k) = CoverageId(l) => k = l
                /\ SnapshotId(k) = SnapshotId(l) => k = l
                /\ UsageId(k) \notin {CoverageId(l), CostId(l), CostCoverageId(l),
                                      SnapshotId(l)}
                /\ CoverageId(k) \notin {CostId(l), CostCoverageId(l), SnapshotId(l)}
                /\ CostId(k) \notin {CostCoverageId(l), SnapshotId(l)}
                /\ CostCoverageId(k) # SnapshotId(l)
      BY IdsDiffer
<1>8. \A c \in changes :
         /\ c \in Changes
         /\ c.payload = None
         /\ \/ \E k \in costs : c = Tombstone(CostId(k)) /\ c.record = CostId(k)
            \/ \E k \in markers : /\ c = Tombstone(CostCoverageId(k))
                                  /\ c.record = CostCoverageId(k)
            \/ \E k \in usages : c = Tombstone(UsageId(k)) /\ c.record = UsageId(k)
            \/ \E k \in covers : c = Tombstone(CoverageId(k)) /\ c.record = CoverageId(k)
            \/ \E k \in entries : c = S(k) /\ c.record = SnapshotId(k)
  <2> TAKE c \in changes
  <2>1. CASE \E k \in costs : c = Tombstone(CostId(k)) BY <1>2, <1>6, <2>1
  <2>2. CASE \E k \in markers : c = Tombstone(CostCoverageId(k)) BY <1>2, <1>6, <2>2
  <2>3. CASE \E k \in usages : c = Tombstone(UsageId(k)) BY <1>2, <1>6, <2>3
  <2>4. CASE \E k \in covers : c = Tombstone(CoverageId(k)) BY <1>2, <1>6, <2>4
  <2>5. CASE \E k \in entries : c = S(k) BY <1>3, <2>5
  <2> QED BY <1>5, <2>1, <2>2, <2>3, <2>4, <2>5
<1>9. ASSUME NEW c \in changes, NEW d \in changes, c.record = d.record
      PROVE  c = d
  <2>1. CASE \E k \in costs : c = Tombstone(CostId(k)) /\ c.record = CostId(k)
        BY <1>7, <1>8, <1>9, <2>1
  <2>2. CASE \E k \in markers : c = Tombstone(CostCoverageId(k)) /\ c.record = CostCoverageId(k)
        BY <1>7, <1>8, <1>9, <2>2
  <2>3. CASE \E k \in usages : c = Tombstone(UsageId(k)) /\ c.record = UsageId(k)
        BY <1>7, <1>8, <1>9, <2>3
  <2>4. CASE \E k \in covers : c = Tombstone(CoverageId(k)) /\ c.record = CoverageId(k)
        BY <1>7, <1>8, <1>9, <2>4
  <2>5. CASE \E k \in entries : c = S(k) /\ c.record = SnapshotId(k)
        BY <1>7, <1>8, <1>9, <2>5
  <2> QED BY <1>8, <2>1, <2>2, <2>3, <2>4, <2>5
<1>10. ASSUME NEW c \in changes PROVE PurgePosition(c) \in Nat
  <2>1. c.record[1] \in {"daily_cost", "daily_cost_coverage", "daily_usage",
                         "daily_coverage", "quota_snapshot"}
    <3>1. \A k : /\ CostId(k)[1] = "daily_cost"
                 /\ CostCoverageId(k)[1] = "daily_cost_coverage"
                 /\ UsageId(k)[1] = "daily_usage"
                 /\ CoverageId(k)[1] = "daily_coverage"
                 /\ SnapshotId(k)[1] = "quota_snapshot"
          BY DEF CostId, CostCoverageId, UsageId, CoverageId, SnapshotId, RecordId
    <3>2. \E k : c.record \in {CostId(k), CostCoverageId(k), UsageId(k), CoverageId(k),
                              SnapshotId(k)}
          BY <1>8
    <3>3. PICK k : c.record \in {CostId(k), CostCoverageId(k), UsageId(k), CoverageId(k),
                                SnapshotId(k)}
          BY <3>2
    <3> QED BY <3>1, <3>3
  <2> QED BY <2>1 DEF PurgePosition
<1>11. Transaction(changes, [c \in changes |-> PurgePosition(c)])
       BY <1>8, <1>9, <1>10 DEF Transaction, OnePerRecord
<1>12. /\ \A k \in costs : \E c \in changes : c.record = CostId(k)
       /\ \A k \in markers : \E c \in changes : c.record = CostCoverageId(k)
       /\ \A k \in usages : \E c \in changes : c.record = UsageId(k)
       /\ \A k \in covers : \E c \in changes : c.record = CoverageId(k)
       /\ \A k \in entries : \E c \in changes : c.record = SnapshotId(k)
       BY <1>2, <1>3, <1>4, <1>6
<1>13. \A c \in changes :
          /\ c.payload = None
          /\ \/ \E k \in costs : c.record = CostId(k)
             \/ \E k \in markers : c.record = CostCoverageId(k)
             \/ \E k \in usages : c.record = UsageId(k)
             \/ \E k \in covers : c.record = CoverageId(k)
             \/ \E k \in entries : c.record = SnapshotId(k)
       BY <1>8
<1> QED BY <1>11, <1>12, <1>13 DEF changes, costs, markers, usages, covers, entries

(* Expired facts go, and each goes with a tombstone.                       *)
LEMMA PurgeStep ==
    ASSUME TypeOK, NEW day, NEW time, PurgeBefore(day, time)
    PROVE  TypeOK' /\ (LogReplaysTables => LogReplaysTables')
<1> DEFINE changes  == PurgeChanges(day, time)
           position == [c \in changes |-> PurgePosition(c)]
           costs    == Expired(cost, day)
           markers  == Expired(costCoverage, day)
           usages   == Expired(usage, day)
           covers   == Expired(coverage, day)
           entries  == ExpiredSnapshots(time)
<1>1. /\ Commit(changes, position)
      /\ usage' = Committed(Without(usage, usages), usage)
      /\ convention' = Committed(Without(convention, Expired(convention, day)), convention)
      /\ coverage' = Committed(Without(coverage, covers), coverage)
      /\ cost' = Committed(Without(cost, costs), cost)
      /\ costCoverage' = Committed(Without(costCoverage, markers), costCoverage)
      /\ snapshot' = Committed(Without(snapshot, entries), snapshot)
      /\ UNCHANGED <<contract, sourceStatus, instance, balance, quota, lastSnapshot>>
      BY DEF PurgeBefore
<1>2. /\ changeLog \in Seq(Changes)
      /\ usage \in [UsageKeys -> UsageRows \cup {None}]
      /\ convention \in [UsageKeys -> UsagePayloads \cup {None}]
      /\ coverage \in [DayKeys -> CoverageRows \cup {None}]
      /\ cost \in [CostKeys -> CostRows \cup {None}]
      /\ costCoverage \in [DayKeys -> CostCoverageRows \cup {None}]
      /\ snapshot \in [SnapshotIds -> SnapshotRows \cup {None}]
      BY DEF TypeOK, DailyTypeOK, CurrentTypeOK
<1>3. /\ Transaction(changes, position)
      /\ \A c \in changes :
            /\ c.payload = None
            /\ \/ \E k \in costs : c.record = CostId(k)
               \/ \E k \in markers : c.record = CostCoverageId(k)
               \/ \E k \in usages : c.record = UsageId(k)
               \/ \E k \in covers : c.record = CoverageId(k)
               \/ \E k \in entries : c.record = SnapshotId(k)
      /\ \A k \in costs : \E c \in changes : c.record = CostId(k)
      /\ \A k \in markers : \E c \in changes : c.record = CostCoverageId(k)
      /\ \A k \in usages : \E c \in changes : c.record = UsageId(k)
      /\ \A k \in covers : \E c \in changes : c.record = CoverageId(k)
      /\ \A k \in entries : \E c \in changes : c.record = SnapshotId(k)
      BY PurgeChangesTyped
<1>4. entries \subseteq SnapshotIds /\ costs \subseteq CostKeys /\ markers \subseteq DayKeys
      /\ usages \subseteq UsageKeys /\ covers \subseteq DayKeys
      BY <1>2 DEF Expired, ExpiredSnapshots
<1> HIDE DEF changes, position, costs, markers, usages, covers, entries
<1>5. /\ Without(usage, usages) \in [UsageKeys -> UsageRows \cup {None}]
      /\ \A k \in UsageKeys :
            Without(usage, usages)[k] = IF k \in usages THEN None ELSE usage[k]
      BY <1>2 DEF Without
<1>6. /\ Without(coverage, covers) \in [DayKeys -> CoverageRows \cup {None}]
      /\ \A k \in DayKeys :
            Without(coverage, covers)[k] = IF k \in covers THEN None ELSE coverage[k]
      BY <1>2 DEF Without
<1>7. /\ Without(cost, costs) \in [CostKeys -> CostRows \cup {None}]
      /\ \A k \in CostKeys : Without(cost, costs)[k] = IF k \in costs THEN None ELSE cost[k]
      BY <1>2 DEF Without
<1>8. /\ Without(costCoverage, markers) \in [DayKeys -> CostCoverageRows \cup {None}]
      /\ \A k \in DayKeys :
            Without(costCoverage, markers)[k]
               = IF k \in markers THEN None ELSE costCoverage[k]
      BY <1>2 DEF Without
<1>9. /\ Without(snapshot, entries) \in [SnapshotIds -> SnapshotRows \cup {None}]
      /\ \A k \in SnapshotIds :
            Without(snapshot, entries)[k] = IF k \in entries THEN None ELSE snapshot[k]
      BY <1>2 DEF Without
<1>10. Without(convention, Expired(convention, day))
          \in [UsageKeys -> UsagePayloads \cup {None}]
       BY <1>2 DEF Without
<1>11. TypeOK'
  <2>1. changeLog' \in Seq(Changes) /\ raised' \in BOOLEAN
        BY <1>1, <1>2, <1>3, CommitTyped
  <2>2. DailyTypeOK'
        BY <1>1, <1>2, <1>5, <1>6, <1>7, <1>8, <1>10 DEF TypeOK, DailyTypeOK, Committed
  <2>3. CurrentTypeOK' BY <1>1, <1>2, <1>9 DEF TypeOK, CurrentTypeOK, Committed
  <2>4. StatusTypeOK' BY <1>1 DEF TypeOK, StatusTypeOK
  <2> QED BY <2>1, <2>2, <2>3, <2>4 DEF TypeOK
<1>12a. \A k, l : /\ CostId(k) = CostId(l) => k = l
                  /\ CostId(k) # CostCoverageId(l)
                  /\ CostId(k) # UsageId(l)
                  /\ CostId(k) # CoverageId(l)
                  /\ CostId(k) # SnapshotId(l)
        BY IdsDiffer
<1>12b. \A k, l : /\ CostCoverageId(k) = CostCoverageId(l) => k = l
                  /\ CostCoverageId(k) # CostId(l)
                  /\ CostCoverageId(k) # UsageId(l)
                  /\ CostCoverageId(k) # CoverageId(l)
                  /\ CostCoverageId(k) # SnapshotId(l)
        BY IdsDiffer
<1>12c. \A k, l : /\ UsageId(k) = UsageId(l) => k = l
                  /\ UsageId(k) # CostId(l)
                  /\ UsageId(k) # CostCoverageId(l)
                  /\ UsageId(k) # CoverageId(l)
                  /\ UsageId(k) # SnapshotId(l)
        BY IdsDiffer
<1>12d. \A k, l : /\ CoverageId(k) = CoverageId(l) => k = l
                  /\ CoverageId(k) # CostId(l)
                  /\ CoverageId(k) # CostCoverageId(l)
                  /\ CoverageId(k) # UsageId(l)
                  /\ CoverageId(k) # SnapshotId(l)
        BY IdsDiffer
<1>12e. \A k, l : /\ SnapshotId(k) = SnapshotId(l) => k = l
                  /\ SnapshotId(k) # CostId(l)
                  /\ SnapshotId(k) # CostCoverageId(l)
                  /\ SnapshotId(k) # UsageId(l)
                  /\ SnapshotId(k) # CoverageId(l)
        BY IdsDiffer
<1>13. \A c \in changes : \/ \E k \in costs : c.record = CostId(k)
                          \/ \E k \in markers : c.record = CostCoverageId(k)
                          \/ \E k \in usages : c.record = UsageId(k)
                          \/ \E k \in covers : c.record = CoverageId(k)
                          \/ \E k \in entries : c.record = SnapshotId(k)
       BY <1>3
(* A record whose row goes with a tombstone, and one that stays.           *)
<1>14. ASSUME NEW r, RowOf(r)' = Committed(None, RowOf(r)),
              \E c \in changes : c.record = r
       PROVE  /\ raised' => Stored(r)' = Stored(r)
              /\ ~raised' => Agrees(r, changes)
  <2>1. raised' => Stored(r)' = Stored(r) BY <1>14 DEF Stored, Committed
  <2>2. ~raised' => Stored(r)' = None BY <1>14 DEF Stored, Committed
  <2> QED BY <1>3, <1>14, <2>1, <2>2 DEF Agrees
<1>15. ASSUME NEW r, RowOf(r)' = RowOf(r), \A c \in changes : c.record # r
       PROVE  /\ raised' => Stored(r)' = Stored(r)
              /\ ~raised' => Agrees(r, changes)
  <2>1. Stored(r)' = Stored(r) BY <1>15 DEF Stored
  <2> QED BY <1>15, <2>1 DEF Agrees
<1>16. ASSUME NEW r \in RecordIds
       PROVE  /\ raised' => Stored(r)' = Stored(r)
              /\ ~raised' => Agrees(r, changes)
  <2>1. CASE \E k \in CostKeys : r = CostId(k)
    <3>1. PICK k \in CostKeys : r = CostId(k) BY <2>1
    <3>2. RowOf(r) = cost[k] /\ RowOf(r)' = cost'[k] BY <3>1, StoredRows
    <3>3. CASE k \in costs
          BY <1>1, <1>3, <1>7, <1>14, <3>1, <3>2, <3>3 DEF Committed
    <3>4. CASE k \notin costs
      <4>1. RowOf(r)' = RowOf(r) BY <1>1, <1>7, <3>2, <3>4 DEF Committed
      <4>2. \A c \in changes : c.record # r BY <1>13, <1>12a, <3>1, <3>4
      <4> QED BY <1>15, <4>1, <4>2
    <3> QED BY <3>3, <3>4
  <2>2. CASE \E k \in DayKeys : r = CostCoverageId(k)
    <3>1. PICK k \in DayKeys : r = CostCoverageId(k) BY <2>2
    <3>2. RowOf(r) = costCoverage[k] /\ RowOf(r)' = costCoverage'[k] BY <3>1, StoredRows
    <3>3. CASE k \in markers
          BY <1>1, <1>3, <1>8, <1>14, <3>1, <3>2, <3>3 DEF Committed
    <3>4. CASE k \notin markers
      <4>1. RowOf(r)' = RowOf(r) BY <1>1, <1>8, <3>2, <3>4 DEF Committed
      <4>2. \A c \in changes : c.record # r BY <1>13, <1>12b, <3>1, <3>4
      <4> QED BY <1>15, <4>1, <4>2
    <3> QED BY <3>3, <3>4
  <2>3. CASE \E k \in UsageKeys : r = UsageId(k)
    <3>1. PICK k \in UsageKeys : r = UsageId(k) BY <2>3
    <3>2. RowOf(r) = usage[k] /\ RowOf(r)' = usage'[k] BY <3>1, StoredRows
    <3>3. CASE k \in usages
          BY <1>1, <1>3, <1>5, <1>14, <3>1, <3>2, <3>3 DEF Committed
    <3>4. CASE k \notin usages
      <4>1. RowOf(r)' = RowOf(r) BY <1>1, <1>5, <3>2, <3>4 DEF Committed
      <4>2. \A c \in changes : c.record # r BY <1>13, <1>12c, <3>1, <3>4
      <4> QED BY <1>15, <4>1, <4>2
    <3> QED BY <3>3, <3>4
  <2>4. CASE \E k \in DayKeys : r = CoverageId(k)
    <3>1. PICK k \in DayKeys : r = CoverageId(k) BY <2>4
    <3>2. RowOf(r) = coverage[k] /\ RowOf(r)' = coverage'[k] BY <3>1, StoredRows
    <3>3. CASE k \in covers
          BY <1>1, <1>3, <1>6, <1>14, <3>1, <3>2, <3>3 DEF Committed
    <3>4. CASE k \notin covers
      <4>1. RowOf(r)' = RowOf(r) BY <1>1, <1>6, <3>2, <3>4 DEF Committed
      <4>2. \A c \in changes : c.record # r BY <1>13, <1>12d, <3>1, <3>4
      <4> QED BY <1>15, <4>1, <4>2
    <3> QED BY <3>3, <3>4
  <2>5. CASE \E k \in SnapshotIds : r = SnapshotId(k)
    <3>1. PICK k \in SnapshotIds : r = SnapshotId(k) BY <2>5
    <3>2. RowOf(r) = snapshot[k] /\ RowOf(r)' = snapshot'[k] BY <3>1, StoredRows
    <3>3. CASE k \in entries
          BY <1>1, <1>3, <1>9, <1>14, <3>1, <3>2, <3>3 DEF Committed
    <3>4. CASE k \notin entries
      <4>1. RowOf(r)' = RowOf(r) BY <1>1, <1>9, <3>2, <3>4 DEF Committed
      <4>2. \A c \in changes : c.record # r BY <1>13, <1>12e, <3>1, <3>4
      <4> QED BY <1>15, <4>1, <4>2
    <3> QED BY <3>3, <3>4
  <2>6. CASE /\ \A k \in CostKeys : r # CostId(k)
             /\ \A k \in DayKeys : r # CostCoverageId(k)
             /\ \A k \in UsageKeys : r # UsageId(k)
             /\ \A k \in DayKeys : r # CoverageId(k)
             /\ \A k \in SnapshotIds : r # SnapshotId(k)
    <3>1. \A c \in changes : c.record # r BY <1>4, <1>13, <2>6
    <3>2. UNCHANGED <<sourceStatus, instance, balance, quota>> BY <1>1
    <3>3. Stored(r)' = Stored(r) BY <2>6, <3>2, RecordKinds, KeptRows
    <3> QED BY <3>1, <3>3 DEF Agrees
  <2> QED BY <2>1, <2>2, <2>3, <2>4, <2>5, <2>6
<1> QED BY <1>1, <1>3, <1>11, <1>16, PlainStep

-----------------------------------------------------------------------------
(* Every step.                                                             *)
LEMMA InitHolds ==
    ASSUME Init
    PROVE  TypeOK /\ LogReplaysTables
<1>1. TypeOK
  <2>1. StatusTypeOK BY DEF Init, StatusInit, StatusTypeOK
  <2>2. DailyTypeOK BY DEF Init, DailyInit, DailyTypeOK
  <2>3. CurrentTypeOK
        BY CurrentAssumption DEF Init, CurrentInit, CurrentTypeOK
  <2>4. changeLog \in Seq(Changes) /\ raised \in BOOLEAN
    <3>1. changeLog = << >> /\ raised = FALSE BY DEF Init
    <3>2. << >> \in Seq(Changes) OBVIOUS
    <3> QED BY <3>1, <3>2
  <2> QED BY <2>1, <2>2, <2>3, <2>4 DEF TypeOK
<1>2. ASSUME NEW record \in RecordIds
      PROVE  Replayed(record) = None /\ Stored(record) = None
  <2>1. changeLog = << >> BY DEF Init
  <2>2. ChangesOf(record) = {} BY <2>1 DEF ChangesOf
  <2>3. /\ \A key \in StatusKeys : sourceStatus[key] = None
        /\ \A key \in UsageKeys : usage[key] = None
        /\ \A key \in DayKeys : coverage[key] = None
        /\ \A key \in CostKeys : cost[key] = None
        /\ \A key \in DayKeys : costCoverage[key] = None
        /\ \A key \in Providers : instance[key] = None
        /\ \A key \in Balances : balance[key] = None
        /\ \A key \in Quotas : quota[key] = None
        /\ \A key \in SnapshotIds : snapshot[key] = None
        BY DEF Init, StatusInit, DailyInit, CurrentInit
  <2>4. RowOf(record) = None BY <2>3, RecordKinds, StoredRows
  <2> QED BY <2>2, <2>4 DEF Replayed, Stored
<1> QED BY <1>1, <1>2 DEF LogReplaysTables

LEMMA StatusNextStep ==
    ASSUME TypeOK, StatusNext, UNCHANGED <<dailyVars, currentVars>>
    PROVE  TypeOK' /\ (LogReplaysTables => LogReplaysTables')
<1>1. PICK key \in StatusKeys, t \in Times :
         \/ \E expected \in ExpectedBy(key[2]) :
               \/ RecordSourceSuccess(key, t, expected)
               \/ \E state \in StatesBy(key[2]) :
                     RecordSourceStatus(key, state, t, expected)
         \/ key[2] = CardSource /\ DeleteSourceStatus(key, t)
      BY DEF StatusNext
<1>2. StatusTypeOK BY DEF TypeOK
<1>3. ASSUME NEW expected, RecordSourceSuccess(key, t, expected)
      PROVE  TypeOK' /\ (LogReplaysTables => LogReplaysTables')
  <2>1. AfterSuccess(key, t, expected) \in StatusFacts BY <1>2, SuccessTyped
  <2> QED BY <1>3, <2>1, StatusStep DEF RecordSourceSuccess
<1>4. ASSUME NEW expected, NEW state \in StatesBy(key[2]),
             RecordSourceStatus(key, state, t, expected)
      PROVE  TypeOK' /\ (LogReplaysTables => LogReplaysTables')
  <2>1. state \in Faults \cup {"stale"} BY DEF StatesBy
  <2>2. AfterOutcome(key, state, t, expected) \in StatusFacts
        BY <1>2, <2>1, OutcomeTyped
  <2> QED BY <1>4, <2>2, StatusStep DEF RecordSourceStatus
<1>5. CASE DeleteSourceStatus(key, t) BY <1>5, DeleteStatusStep
<1> QED BY <1>1, <1>3, <1>4, <1>5

LEMMA DailyNextStep ==
    ASSUME TypeOK, DailyNext, UNCHANGED currentVars
    PROVE  TypeOK' /\ (LogReplaysTables => LogReplaysTables')
<1>1. Ranges \subseteq SUBSET Days
  <2>1. ASSUME NEW since \in Days, NEW until \in Days
        PROVE  since..until \subseteq Days
        BY DayAssumption DEF Days
  <2>2. ASSUME NEW range \in Ranges PROVE range \subseteq Days
    <3>1. \E since \in Days, until \in Days : range = since..until
          BY DEF Ranges
    <3> QED BY <2>1, <3>1
  <2> QED BY <2>2
<1>2. CASE UsageImports /\ UNCHANGED costVars
  <2>1. PICK provider \in Providers, source \in UsageSources, range \in Ranges,
             t \in Times, revision \in Contracts \cup {None} :
           \E rows \in [InRange(UsageKeys, provider, range) -> Values \cup {None}] :
              CommitUsageImport(provider, source, range, rows, t, revision)
        BY <1>2 DEF UsageImports
  <2>2. PICK rows \in [InRange(UsageKeys, provider, range) -> Values \cup {None}] :
           CommitUsageImport(provider, source, range, rows, t, revision)
        BY <2>1
  <2>3. range \in SUBSET Days BY <1>1
  <2> QED BY <1>2, <2>2, <2>3, UsageImportStep
<1>3. CASE CostImports /\ UNCHANGED usageVars
  <2>1. PICK provider \in Providers, source \in CostSources, range \in Ranges, t \in Times :
           \E rows \in [InRange(CostKeys, provider, range) -> Values \cup {None}] :
              CommitCostImport(provider, source, range, rows, t)
        BY <1>3 DEF CostImports
  <2>2. PICK rows \in [InRange(CostKeys, provider, range) -> Values \cup {None}] :
           CommitCostImport(provider, source, range, rows, t)
        BY <2>1
  <2>3. range \in SUBSET Days BY <1>1
  <2> QED BY <1>3, <2>2, <2>3, CostImportStep
<1> QED BY <1>2, <1>3 DEF DailyNext

LEMMA CurrentNextStep ==
    ASSUME TypeOK, CurrentNext, UNCHANGED <<sourceStatus, dailyVars>>
    PROVE  TypeOK' /\ (LogReplaysTables => LogReplaysTables')
<1>1. ASSUME NEW provider \in Providers, NEW facts \in Instances,
             UpsertProviderInstance(provider, facts)
      PROVE  TypeOK' /\ (LogReplaysTables => LogReplaysTables')
      BY <1>1, UpsertStep
<1>2. ASSUME NEW facts \in Facts, NEW t \in ObservationTimes, NEW record \in Balances,
             RecordBalance(record, facts, t)
      PROVE  TypeOK' /\ (LogReplaysTables => LogReplaysTables')
      BY <1>2, RecordBalanceStep
<1>3. ASSUME NEW facts \in Facts, NEW t \in ObservationTimes, NEW record \in Quotas,
             RecordQuota(record, facts, t)
      PROVE  TypeOK' /\ (LogReplaysTables => LogReplaysTables')
      BY <1>3, RecordQuotaStep
<1>4. ASSUME NEW provider, NEW source, NEW t, MarkBalanceSourceStale(provider, source, t)
      PROVE  TypeOK' /\ (LogReplaysTables => LogReplaysTables')
      BY <1>4, MarkBalanceStep
<1>5. ASSUME NEW provider, NEW source, NEW t, MarkQuotaSourceStale(provider, source, t)
      PROVE  TypeOK' /\ (LogReplaysTables => LogReplaysTables')
      BY <1>5, MarkQuotaStep
<1> QED BY <1>1, <1>2, <1>3, <1>4, <1>5 DEF CurrentNext

LEMMA NextStep ==
    ASSUME TypeOK, [Next]_vars
    PROVE  TypeOK' /\ (LogReplaysTables => LogReplaysTables')
<1>1. CASE StatusNext /\ UNCHANGED <<dailyVars, currentVars>>
      BY <1>1, StatusNextStep
<1>2. CASE DailyNext /\ UNCHANGED currentVars
      BY <1>2, DailyNextStep
<1>3. CASE CurrentNext /\ UNCHANGED <<sourceStatus, dailyVars>>
      BY <1>3, CurrentNextStep
<1>4. CASE Retention
      BY <1>4, PurgeStep DEF Retention
<1>5. CASE UNCHANGED vars
  <2>1. /\ changeLog' = changeLog /\ raised' \in BOOLEAN
        /\ UNCHANGED <<sourceStatus, dailyVars, currentVars>>
        BY <1>5 DEF vars, feedVars, TypeOK
  <2> QED BY <2>1, IdleStep
<1> QED BY <1>1, <1>2, <1>3, <1>4, <1>5 DEF Next

(* The tables hold rows of their schema, and the log changes of public     *)
(* records, however many providers, days and records there are.            *)
THEOREM TypeCorrect == Spec => []TypeOK
<1>1. Init => TypeOK BY InitHolds
<1>2. TypeOK /\ [Next]_vars => TypeOK' BY NextStep
<1> QED BY <1>1, <1>2, PTL DEF Spec

(* The change feed is complete and truthful: no operation of the store     *)
(* changes a public fact that the log does not account for.                *)
THEOREM LogReplays == Spec => []LogReplaysTables
<1>1. Init => LogReplaysTables BY InitHolds
<1>2. TypeOK /\ LogReplaysTables /\ [Next]_vars => LogReplaysTables' BY NextStep
<1> QED BY <1>1, <1>2, TypeCorrect, PTL DEF Spec

-----------------------------------------------------------------------------
(* What any step of any writer may do to the status of a source: leave it, *)
(* delete the card's, or record an attempt.                                *)
Attempted(key) ==
    /\ sourceStatus'[key] # None
    /\ \E t \in Times, expected \in ExpectedBy(key[2]) :
          \/ sourceStatus'[key].payload = AfterSuccess(key, t, expected)
          \/ \E state \in StatesBy(key[2]) :
                sourceStatus'[key].payload = AfterOutcome(key, state, t, expected)

StatusMoves(key) ==
    \/ sourceStatus'[key] = sourceStatus[key]
    \/ key[2] = CardSource /\ sourceStatus'[key] = None
    \/ Attempted(key)

LEMMA StatusWritten ==
    ASSUME StatusTypeOK, NEW key \in StatusKeys, NEW facts \in StatusFacts,
           sourceStatus' = Committed(WithStatus(key, facts), sourceStatus),
           NEW k \in StatusKeys
    PROVE  \/ sourceStatus'[k] = sourceStatus[k]
           \/ k = key /\ sourceStatus'[k] # None /\ sourceStatus'[k].payload = facts
BY WithStatusStores DEF Committed

LEMMA SuccessWritten ==
    ASSUME StatusTypeOK, NEW key \in StatusKeys, NEW t \in Times,
           sourceStatus' = Committed(WithStatus(key, AfterSuccess(key, t, None)), sourceStatus),
           NEW k \in StatusKeys
    PROVE  StatusMoves(k)
<1>1. AfterSuccess(key, t, None) \in StatusFacts
  BY SuccessTyped
<1>2. None \in ExpectedBy(key[2])
  BY DEF ExpectedBy
<1> QED
  BY <1>1, <1>2, StatusWritten DEF StatusMoves, Attempted

LEMMA StatusStepMoves ==
    ASSUME TypeOK, StatusNext, NEW k \in StatusKeys
    PROVE  StatusMoves(k)
<1>1. PICK key \in StatusKeys, t \in Times :
         \/ \E expected \in ExpectedBy(key[2]) :
               \/ RecordSourceSuccess(key, t, expected)
               \/ \E state \in StatesBy(key[2]) :
                     RecordSourceStatus(key, state, t, expected)
         \/ key[2] = CardSource /\ DeleteSourceStatus(key, t)
  BY DEF StatusNext
<1>2. StatusTypeOK
  BY DEF TypeOK
<1>3. ASSUME NEW expected \in ExpectedBy(key[2]), RecordSourceSuccess(key, t, expected)
      PROVE  StatusMoves(k)
  <2>1. AfterSuccess(key, t, expected) \in StatusFacts
    BY <1>2, SuccessTyped
  <2> QED
    BY <1>2, <1>3, <2>1, StatusWritten DEF RecordSourceSuccess, StatusMoves, Attempted
<1>4. ASSUME NEW expected \in ExpectedBy(key[2]), NEW state \in StatesBy(key[2]),
             RecordSourceStatus(key, state, t, expected)
      PROVE  StatusMoves(k)
  <2>1. state \in Faults \cup {"stale"}
    BY DEF StatesBy
  <2>2. AfterOutcome(key, state, t, expected) \in StatusFacts
    BY <1>2, <2>1, OutcomeTyped
  <2> QED
    BY <1>2, <1>4, <2>2, StatusWritten DEF RecordSourceStatus, StatusMoves, Attempted
<1>5. CASE key[2] = CardSource /\ DeleteSourceStatus(key, t)
  BY <1>2, <1>5 DEF DeleteSourceStatus, Committed, StatusMoves, StatusTypeOK
<1> QED
  BY <1>1, <1>3, <1>4, <1>5

(* The writers of the daily tables: nobody, a fenced import that committed *)
(* and recorded the success it is backed by, or retention.                 *)
Fenced(provider, source, t) ==
    LET status == <<provider, source>>
    IN  /\ ~HasNewerAttempt(status, t)
        /\ sourceStatus'[status] # None
        /\ sourceStatus'[status].payload = SuccessFacts(t)

UsageImported(provider, source, range, rows, t) ==
    /\ Fenced(provider, source, t)
    /\ usage' = UsageAfter(rows, source)
    /\ convention' = ConventionAfter(rows, source)
    /\ coverage' = CoverageAfter(InRange(DayKeys, provider, range), source, t)

CostImported(provider, source, range, rows, t) ==
    /\ Fenced(provider, source, t)
    /\ cost' = CostAfter(rows)
    /\ costCoverage' = CostCoverageAfter(InRange(DayKeys, provider, range), t)

UsageMoves ==
    \/ UNCHANGED <<usage, convention, coverage>>
    \/ \E provider \in Providers, source \in UsageSources, range \in SUBSET Days, t \in Times :
          \E rows \in [InRange(UsageKeys, provider, range) -> Values \cup {None}] :
             UsageImported(provider, source, range, rows, t)
    \/ \E day \in Nat :
          /\ usage' = Without(usage, Expired(usage, day))
          /\ convention' = Without(convention, Expired(convention, day))
          /\ coverage' = Without(coverage, Expired(coverage, day))

CostMoves ==
    \/ UNCHANGED <<cost, costCoverage>>
    \/ \E provider \in Providers, source \in CostSources, range \in SUBSET Days, t \in Times :
          \E rows \in [InRange(CostKeys, provider, range) -> Values \cup {None}] :
             CostImported(provider, source, range, rows, t)
    \/ \E day \in Nat :
          /\ cost' = Without(cost, Expired(cost, day))
          /\ costCoverage' = Without(costCoverage, Expired(costCoverage, day))

MovesForward == (\A key \in StatusKeys : StatusMoves(key)) /\ UsageMoves /\ CostMoves

(* An import that passed the fence records its success in full. *)
LEMMA FencedImport ==
    ASSUME StatusTypeOK, NEW provider, NEW source, NEW t \in Times,
           <<provider, source>> \in StatusKeys, ~HasNewerAttempt(<<provider, source>>, t),
           sourceStatus' = Committed(WithStatus(<<provider, source>>,
                                                AfterSuccess(<<provider, source>>, t, None)),
                                     sourceStatus),
           ~raised'
    PROVE  Fenced(provider, source, t)
<1> DEFINE status == <<provider, source>>
<1>1. sourceStatus[status] # None => sourceStatus[status].payload.lastAttempt \in Times
  BY DEF StatusTypeOK, StatusRows, StatusFacts
<1>2. AfterSuccess(status, t, None) = SuccessFacts(t)
  BY <1>1, TimeAssumption DEF AfterSuccess, Supersedes, HasNewerAttempt, Times
<1>3. AfterSuccess(status, t, None) \in StatusFacts
  BY SuccessTyped
<1>4. sourceStatus' = WithStatus(status, AfterSuccess(status, t, None))
  BY DEF Committed
<1> HIDE DEF status
<1>5. sourceStatus'[status] # None /\ sourceStatus'[status].payload = SuccessFacts(t)
  BY <1>2, <1>3, <1>4, WithStatusStores DEF status
<1> QED
  BY <1>5 DEF Fenced, status

LEMMA UsageImportMoves ==
    ASSUME TypeOK, NEW provider \in Providers, NEW source \in UsageSources,
           NEW range \in SUBSET Days, NEW t \in Times, NEW revision,
           NEW rows \in [InRange(UsageKeys, provider, range) -> Values \cup {None}],
           CommitUsageImport(provider, source, range, rows, t, revision),
           UNCHANGED costVars
    PROVE  MovesForward
<1> DEFINE status == <<provider, source>>
<1>1. status \in StatusKeys /\ StatusTypeOK
  BY DEF StatusKeys, Sources, TypeOK
<1>2. CostMoves
  BY DEF CostMoves, costVars
<1>3. CASE HasNewerAttempt(status, t)
  BY <1>2, <1>3 DEF CommitUsageImport, MovesForward, StatusMoves, UsageMoves, usageVars
<1>4. CASE ~HasNewerAttempt(status, t)
  <2>1. /\ usage' = Committed(UsageAfter(rows, source), usage)
        /\ convention' = Committed(ConventionAfter(rows, source), convention)
        /\ coverage' = Committed(CoverageAfter(InRange(DayKeys, provider, range), source, t), coverage)
        /\ sourceStatus' = Committed(WithStatus(status, AfterSuccess(status, t, None)), sourceStatus)
    BY <1>4 DEF CommitUsageImport
  <2>2. \A k \in StatusKeys : StatusMoves(k)
    BY <1>1, <2>1, SuccessWritten
  <2>3. CASE raised'
    BY <1>2, <2>1, <2>2, <2>3 DEF Committed, MovesForward, UsageMoves
  <2>4. CASE ~raised'
    <3>1. Fenced(provider, source, t)
      BY <1>1, <1>4, <2>1, <2>4, FencedImport
    <3>2. UsageImported(provider, source, range, rows, t)
      BY <2>1, <2>4, <3>1 DEF UsageImported, Committed
    <3> QED
      BY <1>2, <2>2, <3>2 DEF MovesForward, UsageMoves
  <2> QED
    BY <2>3, <2>4
<1> QED
  BY <1>3, <1>4

LEMMA CostImportMoves ==
    ASSUME TypeOK, NEW provider \in Providers, NEW source \in CostSources,
           NEW range \in SUBSET Days, NEW t \in Times,
           NEW rows \in [InRange(CostKeys, provider, range) -> Values \cup {None}],
           CommitCostImport(provider, source, range, rows, t),
           UNCHANGED usageVars
    PROVE  MovesForward
<1> DEFINE status == <<provider, source>>
<1>1. status \in StatusKeys /\ StatusTypeOK
  BY DEF StatusKeys, Sources, TypeOK
<1>2. UsageMoves
  BY DEF UsageMoves, usageVars
<1>3. CASE HasNewerAttempt(status, t)
  BY <1>2, <1>3 DEF CommitCostImport, MovesForward, StatusMoves, CostMoves, costVars
<1>4. CASE ~HasNewerAttempt(status, t)
  <2>1. /\ cost' = Committed(CostAfter(rows), cost)
        /\ costCoverage' = Committed(CostCoverageAfter(InRange(DayKeys, provider, range), t), costCoverage)
        /\ sourceStatus' = Committed(WithStatus(status, AfterSuccess(status, t, None)), sourceStatus)
    BY <1>4 DEF CommitCostImport
  <2>2. \A k \in StatusKeys : StatusMoves(k)
    BY <1>1, <2>1, SuccessWritten
  <2>3. CASE raised'
    BY <1>2, <2>1, <2>2, <2>3 DEF Committed, MovesForward, CostMoves
  <2>4. CASE ~raised'
    <3>1. Fenced(provider, source, t)
      BY <1>1, <1>4, <2>1, <2>4, FencedImport
    <3>2. CostImported(provider, source, range, rows, t)
      BY <2>1, <2>4, <3>1 DEF CostImported, Committed
    <3> QED
      BY <1>2, <2>2, <3>2 DEF MovesForward, CostMoves
  <2> QED
    BY <2>3, <2>4
<1> QED
  BY <1>3, <1>4

LEMMA RangesAreDays == Ranges \subseteq SUBSET Days
<1>1. ASSUME NEW since \in Days, NEW until \in Days
      PROVE  since..until \subseteq Days
  BY DayAssumption DEF Days
<1>2. ASSUME NEW range \in Ranges
      PROVE  range \subseteq Days
  <2>1. \E since \in Days, until \in Days : range = since..until
    BY DEF Ranges
  <2> QED
    BY <1>1, <2>1
<1> QED
  BY <1>2

LEMMA DailyStepMoves ==
    ASSUME TypeOK, DailyNext
    PROVE  MovesForward
<1>1. CASE UsageImports /\ UNCHANGED costVars
  <2>1. PICK provider \in Providers, source \in UsageSources, range \in Ranges,
             t \in Times, revision \in Contracts \cup {None} :
           \E rows \in [InRange(UsageKeys, provider, range) -> Values \cup {None}] :
              CommitUsageImport(provider, source, range, rows, t, revision)
    BY <1>1 DEF UsageImports
  <2>2. PICK rows \in [InRange(UsageKeys, provider, range) -> Values \cup {None}] :
           CommitUsageImport(provider, source, range, rows, t, revision)
    BY <2>1
  <2>3. range \in SUBSET Days
    BY RangesAreDays
  <2> QED
    BY <1>1, <2>2, <2>3, UsageImportMoves
<1>2. CASE CostImports /\ UNCHANGED usageVars
  <2>1. PICK provider \in Providers, source \in CostSources, range \in Ranges, t \in Times :
           \E rows \in [InRange(CostKeys, provider, range) -> Values \cup {None}] :
              CommitCostImport(provider, source, range, rows, t)
    BY <1>2 DEF CostImports
  <2>2. PICK rows \in [InRange(CostKeys, provider, range) -> Values \cup {None}] :
           CommitCostImport(provider, source, range, rows, t)
    BY <2>1
  <2>3. range \in SUBSET Days
    BY RangesAreDays
  <2> QED
    BY <1>2, <2>2, <2>3, CostImportMoves
<1> QED
  BY <1>1, <1>2 DEF DailyNext

LEMMA RetentionMoves ==
    ASSUME Retention
    PROVE  MovesForward
<1>1. PICK day \in Days \cup {MaxDay + 1}, time \in ObservationTimes \cup {MaxObservation + 1} :
         PurgeBefore(day, time)
  BY DEF Retention
<1>2. /\ usage' = Committed(Without(usage, Expired(usage, day)), usage)
      /\ convention' = Committed(Without(convention, Expired(convention, day)), convention)
      /\ coverage' = Committed(Without(coverage, Expired(coverage, day)), coverage)
      /\ cost' = Committed(Without(cost, Expired(cost, day)), cost)
      /\ costCoverage' = Committed(Without(costCoverage, Expired(costCoverage, day)), costCoverage)
      /\ sourceStatus' = sourceStatus
  BY <1>1 DEF PurgeBefore
<1>3. day \in Nat
  BY DayAssumption DEF Days
<1>4. CASE raised'
  BY <1>2, <1>4 DEF Committed, MovesForward, StatusMoves, UsageMoves, CostMoves
<1>5. CASE ~raised'
  <2>1. UsageMoves
    BY <1>2, <1>3, <1>5 DEF Committed, UsageMoves
  <2>2. CostMoves
    BY <1>2, <1>3, <1>5 DEF Committed, CostMoves
  <2> QED
    BY <1>2, <2>1, <2>2 DEF MovesForward, StatusMoves
<1> QED
  BY <1>4, <1>5

LEMMA NextMoves ==
    ASSUME TypeOK, [Next]_vars
    PROVE  MovesForward
<1>1. CASE StatusNext /\ UNCHANGED <<dailyVars, currentVars>>
  BY <1>1, StatusStepMoves DEF MovesForward, UsageMoves, CostMoves, dailyVars, usageVars, costVars
<1>2. CASE DailyNext
  BY <1>2, DailyStepMoves
<1>3. CASE Retention
  BY <1>3, RetentionMoves
<1>4. CASE UNCHANGED <<sourceStatus, dailyVars>>
  BY <1>4 DEF MovesForward, StatusMoves, UsageMoves, CostMoves, dailyVars, usageVars, costVars
<1> QED
  BY <1>1, <1>2, <1>3, <1>4 DEF Next, vars

-----------------------------------------------------------------------------
(* The health of a source.  Only the catalog's last success may lie after  *)
(* its last attempt, when its compare-and-swap takes a row back.           *)
HealthOrdered ==
    \A key \in StatusKeys :
        key[2] # CatalogSource /\ sourceStatus[key] # None =>
            LET facts == sourceStatus[key].payload
            IN  facts.lastSuccess # None => facts.lastSuccess <= facts.lastAttempt

(* The catalog's monitor never calls it stale, so that its row without a   *)
(* success has no deadline to take back.                                   *)
CatalogHasNoDeadline ==
    \A key \in StatusKeys :
        key[2] = CatalogSource /\ sourceStatus[key] # None =>
            LET facts == sourceStatus[key].payload
            IN  facts.lastSuccess = None => facts.staleAt = None

HealthForward(key) ==
    key[2] # CatalogSource /\ sourceStatus[key] # None =>
        LET facts == sourceStatus[key].payload
        IN  /\ sourceStatus'[key] # None =>
                  sourceStatus'[key].payload.lastAttempt >= facts.lastAttempt
            /\ key[2] # CardSource =>
                  /\ sourceStatus'[key] # None
                  /\ facts.lastSuccess # None =>
                        /\ sourceStatus'[key].payload.lastSuccess # None
                        /\ sourceStatus'[key].payload.lastSuccess >= facts.lastSuccess

(* The facts of a row, and what the columns can hold.                      *)
LEMMA StatusColumns ==
    ASSUME StatusTypeOK, NEW key \in StatusKeys, sourceStatus[key] # None
    PROVE  LET facts == sourceStatus[key].payload
           IN  /\ facts.lastAttempt \in Nat
               /\ facts.lastSuccess # None => facts.lastSuccess \in Nat
               /\ facts.staleAt # None => facts.staleAt \in Nat
BY TimeAssumption DEF StatusTypeOK, StatusRows, StatusFacts, Times

(* What an attempt leaves, by its outcome.                                 *)
LEMMA AttemptedFacts ==
    ASSUME NEW key \in StatusKeys, Attempted(key)
    PROVE  \E t \in Times, expected \in ExpectedBy(key[2]) :
              LET row   == sourceStatus[key]
                  facts == sourceStatus'[key].payload
              IN  \/ facts = SuccessFacts(t) /\ (row # None => Supersedes(t, row, expected))
                  \/ row # None /\ facts = row.payload
                  \/ /\ row # None => Supersedes(t, row, expected)
                     /\ facts.lastAttempt = t
                     /\ facts.lastSuccess = IF row = None THEN None ELSE row.payload.lastSuccess
                     /\ \/ /\ "stale" \in StatesBy(key[2])
                           /\ facts.staleAt = IF row = None THEN t ELSE Earlier(t, row.payload.staleAt)
                        \/ facts.staleAt = IF row = None THEN None ELSE row.payload.staleAt
<1>1. PICK t \in Times, expected \in ExpectedBy(key[2]) :
         \/ sourceStatus'[key].payload = AfterSuccess(key, t, expected)
         \/ \E state \in StatesBy(key[2]) :
               sourceStatus'[key].payload = AfterOutcome(key, state, t, expected)
  BY DEF Attempted
<1>2. CASE sourceStatus'[key].payload = AfterSuccess(key, t, expected)
  BY <1>2 DEF AfterSuccess
<1>3. ASSUME NEW state \in StatesBy(key[2]),
             sourceStatus'[key].payload = AfterOutcome(key, state, t, expected)
      PROVE  LET row   == sourceStatus[key]
                 facts == sourceStatus'[key].payload
             IN  \/ row # None /\ facts = row.payload
                 \/ /\ row # None => Supersedes(t, row, expected)
                    /\ facts.lastAttempt = t
                    /\ facts.lastSuccess = IF row = None THEN None ELSE row.payload.lastSuccess
                    /\ \/ /\ state = "stale"
                          /\ facts.staleAt = IF row = None THEN t ELSE Earlier(t, row.payload.staleAt)
                       \/ facts.staleAt = IF row = None THEN None ELSE row.payload.staleAt
  <2>1. CASE sourceStatus[key] = None
    BY <1>3, <2>1 DEF AfterOutcome
  <2>2. CASE sourceStatus[key] # None /\ ~Supersedes(t, sourceStatus[key], expected)
    BY <1>3, <2>2 DEF AfterOutcome
  <2>3. CASE sourceStatus[key] # None /\ Supersedes(t, sourceStatus[key], expected)
    BY <1>3, <2>3 DEF AfterOutcome
  <2> QED
    BY <2>1, <2>2, <2>3
<1> QED
  BY <1>1, <1>2, <1>3

LEMMA HealthStep ==
    ASSUME TypeOK, MovesForward, HealthOrdered, NEW key \in StatusKeys
    PROVE  /\ HealthForward(key)
           /\ key[2] # CatalogSource /\ sourceStatus'[key] # None =>
                 LET facts == sourceStatus'[key].payload
                 IN  facts.lastSuccess # None => facts.lastSuccess <= facts.lastAttempt
<1> DEFINE row   == sourceStatus[key]
           facts == sourceStatus'[key].payload
<1> SUFFICES ASSUME key[2] # CatalogSource
             PROVE  /\ HealthForward(key)
                    /\ sourceStatus'[key] # None /\ facts.lastSuccess # None =>
                          facts.lastSuccess <= facts.lastAttempt
  BY DEF HealthForward
<1>1. StatusTypeOK /\ StatusMoves(key)
  BY DEF TypeOK, MovesForward
<1>2. row # None =>
         /\ row.payload.lastAttempt \in Nat
         /\ row.payload.lastSuccess # None =>
               row.payload.lastSuccess \in Nat /\ row.payload.lastSuccess <= row.payload.lastAttempt
  BY <1>1, StatusColumns DEF HealthOrdered
<1>3. CASE sourceStatus'[key] = row
  BY <1>2, <1>3 DEF HealthForward
<1>4. CASE key[2] = CardSource /\ sourceStatus'[key] = None
  BY <1>4 DEF HealthForward
<1>5. CASE Attempted(key)
  <2>1. PICK t \in Times, expected \in ExpectedBy(key[2]) :
           \/ facts = SuccessFacts(t) /\ (row # None => Supersedes(t, row, expected))
           \/ row # None /\ facts = row.payload
           \/ /\ row # None => Supersedes(t, row, expected)
              /\ facts.lastAttempt = t
              /\ facts.lastSuccess = IF row = None THEN None ELSE row.payload.lastSuccess
    BY <1>5, AttemptedFacts
  <2>2. expected = None /\ t \in Nat /\ t # None
    BY TimeAssumption, NoTimeAssumption DEF ExpectedBy, Times
  <2>3. row # None /\ Supersedes(t, row, expected) => t >= row.payload.lastAttempt
    BY <2>2 DEF Supersedes
  <2>4. sourceStatus'[key] # None
    BY <1>5 DEF Attempted
  <2> HIDE DEF row, facts
  <2>5. CASE facts = SuccessFacts(t) /\ (row # None => Supersedes(t, row, expected))
    <3>1. facts.lastAttempt = t /\ facts.lastSuccess = t
      BY <2>5 DEF SuccessFacts
    <3> QED
      BY <1>2, <2>2, <2>3, <2>4, <2>5, <3>1 DEF HealthForward, row, facts
  <2>6. CASE row # None /\ facts = row.payload
    BY <1>2, <2>4, <2>6 DEF HealthForward, row, facts
  <2>7. CASE /\ row # None => Supersedes(t, row, expected)
             /\ facts.lastAttempt = t
             /\ facts.lastSuccess = IF row = None THEN None ELSE row.payload.lastSuccess
    BY <1>2, <2>2, <2>3, <2>4, <2>7 DEF HealthForward, row, facts
  <2> QED
    BY <2>1, <2>5, <2>6, <2>7
<1> QED
  BY <1>1, <1>3, <1>4, <1>5 DEF StatusMoves

LEMMA HealthKeeps ==
    ASSUME TypeOK, [Next]_vars, HealthOrdered
    PROVE  HealthOrdered' /\ \A key \in StatusKeys : HealthForward(key)
<1>1. MovesForward
  BY NextMoves
<1> QED
  BY <1>1, HealthStep DEF HealthOrdered

(* A deadline is set by a success or an attempt and never moved later.     *)
LEMMA DeadlineStep ==
    ASSUME TypeOK, MovesForward, DeadlineBacked, CatalogHasNoDeadline, NEW key \in StatusKeys,
           sourceStatus'[key] # None
    PROVE  LET facts == sourceStatus'[key].payload
           IN  /\ IF facts.lastSuccess # None
                  THEN facts.staleAt # None /\ facts.staleAt <= facts.lastSuccess + Freshness
                  ELSE facts.staleAt # None => facts.staleAt <= facts.lastAttempt
               /\ key[2] = CatalogSource /\ facts.lastSuccess = None => facts.staleAt = None
<1> DEFINE row   == sourceStatus[key]
           facts == sourceStatus'[key].payload
           Backed(f) == IF f.lastSuccess # None
                        THEN f.staleAt # None /\ f.staleAt <= f.lastSuccess + Freshness
                        ELSE f.staleAt # None => f.staleAt <= f.lastAttempt
           Undated(f) == key[2] = CatalogSource /\ f.lastSuccess = None => f.staleAt = None
<1> SUFFICES Backed(facts) /\ Undated(facts)
  OBVIOUS
<1>1. StatusTypeOK /\ StatusMoves(key)
  BY DEF TypeOK, MovesForward
<1>2. row # None => Backed(row.payload) /\ Undated(row.payload)
  BY DEF DeadlineBacked, CatalogHasNoDeadline
<1>3. row # None => /\ row.payload.lastAttempt \in Nat
                    /\ row.payload.lastSuccess # None => row.payload.lastSuccess \in Nat
                    /\ row.payload.staleAt # None => row.payload.staleAt \in Nat
  BY <1>1, StatusColumns
<1>4. CASE sourceStatus'[key] = row
  BY <1>2, <1>4
<1>5. CASE Attempted(key)
  <2>1. PICK t \in Times, expected \in ExpectedBy(key[2]) :
           \/ facts = SuccessFacts(t)
           \/ row # None /\ facts = row.payload
           \/ /\ row # None => Supersedes(t, row, expected)
              /\ facts.lastAttempt = t
              /\ facts.lastSuccess = IF row = None THEN None ELSE row.payload.lastSuccess
              /\ \/ /\ "stale" \in StatesBy(key[2])
                    /\ facts.staleAt = IF row = None THEN t ELSE Earlier(t, row.payload.staleAt)
                 \/ facts.staleAt = IF row = None THEN None ELSE row.payload.staleAt
    BY <1>5, AttemptedFacts
  <2>2. t \in Nat /\ t # None /\ Freshness \in Nat
    BY TimeAssumption, NoTimeAssumption DEF Times
  <2>3. "stale" \in StatesBy(key[2]) => key[2] # CatalogSource
    BY FaultAssumption DEF StatesBy
  <2>4. key[2] # CatalogSource /\ row # None /\ Supersedes(t, row, expected) => t >= row.payload.lastAttempt
    BY DEF Supersedes, ExpectedBy
  <2> HIDE DEF row, facts
  <2>5. CASE facts = SuccessFacts(t)
    <3>1. facts.lastSuccess = t /\ facts.staleAt = t + Freshness /\ t + Freshness # None
      BY <2>2, <2>5, NoTimeAssumption DEF SuccessFacts
    <3> QED
      BY <2>2, <3>1
  <2>6. CASE row # None /\ facts = row.payload
    BY <1>2, <2>6
  <2>7. CASE /\ row # None => Supersedes(t, row, expected)
             /\ facts.lastAttempt = t
             /\ facts.lastSuccess = IF row = None THEN None ELSE row.payload.lastSuccess
             /\ "stale" \in StatesBy(key[2])
             /\ facts.staleAt = IF row = None THEN t ELSE Earlier(t, row.payload.staleAt)
    <3>1. CASE row = None
      BY <2>2, <2>3, <2>7, <3>1
    <3>2. CASE row # None
      <4>1. facts.staleAt \in Nat /\ facts.staleAt # None /\ facts.staleAt <= t
        BY <1>3, <2>2, <2>7, <3>2, NoTimeAssumption DEF Earlier
      <4>2. row.payload.staleAt # None => facts.staleAt <= row.payload.staleAt
        BY <1>3, <2>2, <2>7, <3>2 DEF Earlier
      <4> HIDE DEF Backed
      <4>3. CASE row.payload.lastSuccess = None
        BY <2>3, <2>7, <3>2, <4>1, <4>3 DEF Backed
      <4>4. CASE row.payload.lastSuccess # None
        <5>1. /\ row.payload.staleAt # None
              /\ row.payload.staleAt <= row.payload.lastSuccess + Freshness
          BY <1>2, <3>2, <4>4 DEF Backed
        <5> QED
          BY <1>3, <2>2, <2>3, <2>7, <3>2, <4>1, <4>2, <4>4, <5>1 DEF Backed
      <4> QED
        BY <4>3, <4>4
    <3> QED
      BY <3>1, <3>2
  <2>8. CASE /\ row # None => Supersedes(t, row, expected)
             /\ facts.lastAttempt = t
             /\ facts.lastSuccess = IF row = None THEN None ELSE row.payload.lastSuccess
             /\ facts.staleAt = IF row = None THEN None ELSE row.payload.staleAt
    <3>1. CASE row = None
      BY <2>8, <3>1
    <3>2. CASE row # None /\ row.payload.lastSuccess # None
      BY <1>2, <2>8, <3>2
    <3>3. CASE row # None /\ row.payload.lastSuccess = None
      BY <1>2, <1>3, <2>2, <2>4, <2>8, <3>3
    <3> QED
      BY <3>1, <3>2, <3>3
  <2> QED
    BY <2>1, <2>5, <2>6, <2>7, <2>8
<1> QED
  BY <1>1, <1>4, <1>5 DEF StatusMoves

LEMMA DeadlinesKept ==
    ASSUME TypeOK, [Next]_vars, DeadlineBacked, CatalogHasNoDeadline
    PROVE  DeadlineBacked' /\ CatalogHasNoDeadline'
<1>1. MovesForward
  BY NextMoves
<1> QED
  BY <1>1, DeadlineStep DEF DeadlineBacked, CatalogHasNoDeadline

-----------------------------------------------------------------------------
(* Daily usage.  A marker is no newer than the last success of its source, *)
(* which is no newer than its last attempt, which the fence compares.      *)
UsageInv == HealthOrdered /\ RowsUnderCoverage /\ CoverageBacked

(* The days an import covers.                                              *)
LEMMA InRangeDays ==
    ASSUME NEW provider, NEW range,
           NEW K, K \in {UsageKeys, CostKeys}, NEW key \in K
    PROVE  /\ DayOf(key) \in DayKeys
           /\ DayOf(key) \in InRange(DayKeys, provider, range) <=> key \in InRange(K, provider, range)
           /\ DayOf(key)[2] = key[2]
BY DEF DayOf, DayKeys, UsageKeys, CostKeys, InRange

LEMMA DaysAfterImport ==
    ASSUME NEW provider, NEW source, NEW range, NEW t, NEW key \in DayKeys
    PROVE  CoverageAfter(InRange(DayKeys, provider, range), source, t)[key] =
              IF key \in InRange(DayKeys, provider, range)
              THEN [payload |-> [source |-> source], importedAt |-> t]
              ELSE coverage[key]
BY DEF CoverageAfter

LEMMA WithoutExpired ==
    ASSUME NEW table, NEW day, NEW key \in DOMAIN table
    PROVE  /\ key \in DOMAIN Without(table, Expired(table, day))
           /\ Without(table, Expired(table, day))[key] =
                 IF key[2] < day THEN None ELSE table[key]
BY DEF Without, Expired

LEMMA RowsUnderCoverageKept ==
    ASSUME TypeOK, RowsUnderCoverage, UsageMoves
    PROVE  RowsUnderCoverage'
<1> DEFINE Under(key) ==
              IF usage[key] = None THEN convention[key] = None
              ELSE /\ coverage[DayOf(key)] # None
                   /\ usage[key].payload.source = coverage[DayOf(key)].payload.source
                   /\ convention[key] = usage[key].payload
<1> SUFFICES ASSUME NEW key \in UsageKeys PROVE Under(key)'
  BY DEF RowsUnderCoverage
<1>1. Under(key)
  BY DEF RowsUnderCoverage
<1>2. /\ usage \in [UsageKeys -> UsageRows \cup {None}]
      /\ convention \in [UsageKeys -> UsagePayloads \cup {None}]
      /\ coverage \in [DayKeys -> CoverageRows \cup {None}]
  BY DEF TypeOK, DailyTypeOK
<1>3. DayOf(key) \in DayKeys /\ DayOf(key)[2] = key[2]
  BY InRangeDays
<1>4. CASE UNCHANGED <<usage, convention, coverage>>
  BY <1>1, <1>4
<1>5. ASSUME NEW day \in Nat,
             usage' = Without(usage, Expired(usage, day)),
             convention' = Without(convention, Expired(convention, day)),
             coverage' = Without(coverage, Expired(coverage, day))
      PROVE  Under(key)'
  <2>1. /\ usage'[key] = IF key[2] < day THEN None ELSE usage[key]
        /\ convention'[key] = IF key[2] < day THEN None ELSE convention[key]
        /\ coverage'[DayOf(key)] = IF key[2] < day THEN None ELSE coverage[DayOf(key)]
    BY <1>2, <1>3, <1>5, WithoutExpired
  <2> QED
    BY <1>1, <2>1
<1>6. ASSUME NEW provider \in Providers, NEW source \in UsageSources,
             NEW range \in SUBSET Days, NEW t \in Times,
             NEW rows \in [InRange(UsageKeys, provider, range) -> Values \cup {None}],
             UsageImported(provider, source, range, rows, t)
      PROVE  Under(key)'
  <2> DEFINE keys == InRange(DayKeys, provider, range)
             after == UsagePayload(source, rows[key])
  <2>1. /\ usage' = UsageAfter(rows, source)
        /\ convention' = ConventionAfter(rows, source)
        /\ coverage' = CoverageAfter(keys, source, t)
    BY <1>6 DEF UsageImported
  <2>2. coverage'[DayOf(key)] = IF DayOf(key) \in keys
                                THEN [payload |-> [source |-> source], importedAt |-> t]
                                ELSE coverage[DayOf(key)]
    BY <1>3, <2>1, DaysAfterImport
  <2>3. DayOf(key) \in keys <=> key \in DOMAIN rows
    BY InRangeDays
  <2>4. CASE key \notin DOMAIN rows
    <3>1. usage'[key] = usage[key] /\ convention'[key] = convention[key]
      BY <2>1, <2>4 DEF UsageAfter, ConventionAfter, DeletedUsage, WrittenUsage
    <3> QED
      BY <1>1, <2>2, <2>3, <2>4, <3>1
  <2>5. CASE key \in DOMAIN rows
    <3>1. /\ coverage'[DayOf(key)] = [payload |-> [source |-> source], importedAt |-> t]
          /\ [payload |-> [source |-> source], importedAt |-> t] \in CoverageRows
      BY <2>2, <2>3, <2>5 DEF CoverageRows
    <3>2. coverage'[DayOf(key)] # None /\ coverage'[DayOf(key)].payload.source = source
      BY <3>1, NoRowAssumption
    <3>3. CASE key \in DeletedUsage(rows)
      BY <2>1, <3>3 DEF UsageAfter, ConventionAfter
    <3>4. CASE key \in WrittenUsage(rows, source)
      <4>1. key \notin DeletedUsage(rows)
        BY <3>4 DEF DeletedUsage, WrittenUsage
      <4>2. /\ usage'[key] = [payload |-> after, revision |-> NextRevision(UsageId(key))]
            /\ convention'[key] = after
        BY <2>1, <3>4, <4>1 DEF UsageAfter, ConventionAfter
      <4>3. usage'[key].payload = after /\ after.source = source
        BY <4>2 DEF UsagePayload
      <4>4. usage'[key] # None
        <5>1. UsageAfter(rows, source) \in [UsageKeys -> UsageRows \cup {None}]
          BY UsageAfterTyped
        <5>2. NextRevision(UsageId(key)) \in Nat \ {0}
          BY NextRevisionTyped DEF TypeOK
        <5>3. after \in UsagePayloads
          BY <2>5, <3>4 DEF WrittenUsage, UsagePayload, UsagePayloads
        <5>4. [payload |-> after, revision |-> NextRevision(UsageId(key))] \in UsageRows
          BY <5>2, <5>3 DEF UsageRows
        <5> QED
          BY <4>2, <5>4, NoRowAssumption
      <4> QED
        BY <3>2, <4>2, <4>3, <4>4
    <3>5. CASE key \notin DeletedUsage(rows) /\ key \notin WrittenUsage(rows, source)
      <4>1. usage'[key] = usage[key] /\ convention'[key] = convention[key]
        BY <2>1, <3>5 DEF UsageAfter, ConventionAfter
      <4>2. CASE rows[key] = None
        <5>1. usage[key] = None
          BY <2>5, <3>5, <4>2 DEF DeletedUsage
        <5> QED
          BY <1>1, <4>1, <5>1
      <4>3. CASE rows[key] # None
        <5>1. usage[key] # None /\ usage[key].payload = after /\ convention[key] = after
          BY <2>5, <3>5, <4>3 DEF WrittenUsage
        <5>2. after.source = source
          BY DEF UsagePayload
        <5> QED
          BY <3>2, <4>1, <5>1, <5>2
      <4> QED
        BY <4>2, <4>3
    <3> QED
      BY <3>3, <3>4, <3>5
  <2> QED
    BY <2>4, <2>5
<1> QED
  BY <1>4, <1>5, <1>6 DEF UsageMoves

(* A source of daily facts keeps its success, whoever writes.              *)
LEMMA SuccessKept ==
    ASSUME \A key \in StatusKeys : HealthForward(key),
           NEW provider \in Providers, NEW source \in UsageSources \cup CostSources,
           NEW time \in Nat,
           LET status == sourceStatus[<<provider, source>>]
           IN  /\ status # None
               /\ status.payload.lastSuccess # None
               /\ time <= status.payload.lastSuccess,
           StatusTypeOK, StatusTypeOK'
    PROVE  LET status == sourceStatus'[<<provider, source>>]
           IN  /\ status # None
               /\ status.payload.lastSuccess # None
               /\ time <= status.payload.lastSuccess
<1> DEFINE key == <<provider, source>>
<1>1. key \in StatusKeys /\ key[2] = source
  BY DEF StatusKeys, Sources
<1>2. key[2] # CatalogSource /\ key[2] # CardSource
  BY <1>1, SourceAssumption
<1> HIDE DEF key
<1>3. /\ sourceStatus'[key] # None
      /\ sourceStatus'[key].payload.lastSuccess # None
      /\ sourceStatus'[key].payload.lastSuccess >= sourceStatus[key].payload.lastSuccess
  BY <1>1, <1>2 DEF HealthForward, key
<1>4. sourceStatus[key].payload.lastSuccess \in Nat
  BY <1>1, StatusColumns DEF key
<1>5. sourceStatus'[key].payload.lastSuccess \in Nat
  BY <1>1, <1>3, TimeAssumption DEF StatusTypeOK, StatusRows, StatusFacts, Times
<1> QED
  BY <1>3, <1>4, <1>5 DEF key

(* What a fenced import finds and leaves in the status of its source.      *)
LEMMA FencedFacts ==
    ASSUME StatusTypeOK, HealthOrdered, NEW provider \in Providers,
           NEW source \in UsageSources \cup CostSources, NEW t \in Times,
           Fenced(provider, source, t)
    PROVE  LET old == sourceStatus[<<provider, source>>]
               new == sourceStatus'[<<provider, source>>]
           IN  /\ new # None /\ new.payload.lastSuccess # None /\ new.payload.lastSuccess = t
               /\ old # None /\ old.payload.lastSuccess # None => old.payload.lastSuccess <= t
<1> DEFINE key == <<provider, source>>
<1>1. key \in StatusKeys /\ key[2] # CatalogSource
  BY SourceAssumption DEF StatusKeys, Sources
<1>2. t \in Nat /\ t # None
  BY TimeAssumption, NoTimeAssumption DEF Times
<1> HIDE DEF key
<1>3. sourceStatus'[key] # None /\ sourceStatus'[key].payload.lastSuccess = t
  BY DEF Fenced, SuccessFacts, key
<1>4. sourceStatus[key] # None => ~(sourceStatus[key].payload.lastAttempt > t)
  BY DEF Fenced, HasNewerAttempt, key
<1>5. sourceStatus[key] # None /\ sourceStatus[key].payload.lastSuccess # None =>
         sourceStatus[key].payload.lastSuccess <= t
  BY <1>1, <1>2, <1>4, StatusColumns DEF HealthOrdered
<1> QED
  BY <1>2, <1>3, <1>5 DEF key

LEMMA CoverageKept ==
    ASSUME TypeOK, TypeOK', HealthOrdered, CoverageBacked, UsageMoves,
           \A key \in StatusKeys : HealthForward(key), NEW day \in DayKeys
    PROVE  /\ coverage'[day] # None =>
                 LET status == sourceStatus'[<<day[1], coverage'[day].payload.source>>]
                 IN  /\ status # None
                     /\ status.payload.lastSuccess # None
                     /\ coverage'[day].importedAt <= status.payload.lastSuccess
           /\ coverage[day] # None /\ coverage'[day] # None
                /\ coverage'[day].payload.source = coverage[day].payload.source =>
                 coverage'[day].importedAt >= coverage[day].importedAt
<1> DEFINE old == coverage[day]
           new == coverage'[day]
<1>1. StatusTypeOK /\ StatusTypeOK' /\ coverage \in [DayKeys -> CoverageRows \cup {None}]
  BY DEF TypeOK, DailyTypeOK
<1>2. old # None => old.payload.source \in UsageSources /\ old.importedAt \in Nat
  BY <1>1, TimeAssumption DEF CoverageRows, Times
<1>3. day[1] \in Providers
  BY DEF DayKeys
<1>4. old # None =>
         LET status == sourceStatus[<<day[1], old.payload.source>>]
         IN  /\ status # None
             /\ status.payload.lastSuccess # None
             /\ old.importedAt <= status.payload.lastSuccess
  BY DEF CoverageBacked
<1>5. old # None =>
         LET status == sourceStatus'[<<day[1], old.payload.source>>]
         IN  /\ status # None
             /\ status.payload.lastSuccess # None
             /\ old.importedAt <= status.payload.lastSuccess
  BY <1>1, <1>2, <1>3, <1>4, SuccessKept
<1>6. CASE new = old
  BY <1>2, <1>5, <1>6
<1>7. CASE new = None
  BY <1>7
<1>8. ASSUME NEW provider \in Providers, NEW source \in UsageSources,
             NEW range \in SUBSET Days, NEW t \in Times,
             NEW rows \in [InRange(UsageKeys, provider, range) -> Values \cup {None}],
             UsageImported(provider, source, range, rows, t)
      PROVE  \/ new = old
             \/ /\ Fenced(provider, source, t) /\ provider = day[1]
                /\ new = [payload |-> [source |-> source], importedAt |-> t]
  <2>1. new = IF day \in InRange(DayKeys, provider, range)
              THEN [payload |-> [source |-> source], importedAt |-> t]
              ELSE old
    BY <1>8, DaysAfterImport DEF UsageImported
  <2> QED
    BY <1>8, <2>1 DEF UsageImported, InRange
<1>9. ASSUME NEW source \in UsageSources, NEW t \in Times, Fenced(day[1], source, t),
             new = [payload |-> [source |-> source], importedAt |-> t]
      PROVE  /\ LET status == sourceStatus'[<<day[1], new.payload.source>>]
                IN  /\ status # None
                    /\ status.payload.lastSuccess # None
                    /\ new.importedAt <= status.payload.lastSuccess
             /\ old # None /\ new.payload.source = old.payload.source => new.importedAt >= old.importedAt
  <2>1. new.payload.source = source /\ new.importedAt = t /\ t \in Nat
    BY <1>9, TimeAssumption DEF Times
  <2>2. LET before == sourceStatus[<<day[1], source>>]
            after  == sourceStatus'[<<day[1], source>>]
        IN  /\ after # None /\ after.payload.lastSuccess # None /\ after.payload.lastSuccess = t
            /\ before # None /\ before.payload.lastSuccess # None => before.payload.lastSuccess <= t
    BY <1>1, <1>3, <1>9, FencedFacts
  <2>3. <<day[1], source>> \in StatusKeys
    BY <1>3 DEF StatusKeys, Sources
  <2>4. LET before == sourceStatus[<<day[1], source>>]
        IN  before # None /\ before.payload.lastSuccess # None => before.payload.lastSuccess \in Nat
    BY <1>1, <2>3, StatusColumns
  <2> HIDE DEF new, old
  <2> QED
    BY <1>2, <1>4, <2>1, <2>2, <2>4
<1>10. CASE \E cutoff \in Nat : coverage' = Without(coverage, Expired(coverage, cutoff))
  <2>1. PICK cutoff \in Nat : coverage' = Without(coverage, Expired(coverage, cutoff))
    BY <1>10
  <2>2. new = None \/ new = old
    BY <1>1, <2>1, WithoutExpired
  <2> QED
    BY <1>6, <1>7, <2>2
<1>11. CASE \E provider \in Providers, source \in UsageSources, range \in SUBSET Days, t \in Times :
               \E rows \in [InRange(UsageKeys, provider, range) -> Values \cup {None}] :
                  UsageImported(provider, source, range, rows, t)
  <2>1. PICK provider \in Providers, source \in UsageSources, range \in SUBSET Days, t \in Times :
           \E rows \in [InRange(UsageKeys, provider, range) -> Values \cup {None}] :
              UsageImported(provider, source, range, rows, t)
    BY <1>11
  <2>2. \/ new = old
        \/ /\ Fenced(provider, source, t) /\ provider = day[1]
           /\ new = [payload |-> [source |-> source], importedAt |-> t]
    BY <1>8, <2>1
  <2> QED
    BY <1>6, <1>9, <2>2
<1> QED
  BY <1>6, <1>10, <1>11 DEF UsageMoves

LEMMA UsageKeeps ==
    ASSUME TypeOK, TypeOK', [Next]_vars, UsageInv
    PROVE  /\ UsageInv'
           /\ \A key \in DayKeys :
                 coverage[key] # None /\ coverage'[key] # None
                    /\ coverage'[key].payload.source = coverage[key].payload.source =>
                       coverage'[key].importedAt >= coverage[key].importedAt
<1>1. UsageMoves
  BY NextMoves DEF MovesForward
<1>2. HealthOrdered' /\ \A key \in StatusKeys : HealthForward(key)
  BY HealthKeeps DEF UsageInv
<1>3. RowsUnderCoverage'
  BY <1>1, RowsUnderCoverageKept DEF UsageInv
<1>4. CoverageBacked'
  BY <1>1, <1>2, CoverageKept DEF UsageInv, CoverageBacked
<1> QED
  BY <1>1, <1>2, <1>3, <1>4, CoverageKept DEF UsageInv

-----------------------------------------------------------------------------
(* Daily costs.                                                            *)
CostInv == HealthOrdered /\ CostsUnderCoverage

Backs(provider, source, time) ==
    LET status == sourceStatus[<<provider, source>>]
    IN  /\ status # None
        /\ status.payload.lastSuccess # None
        /\ time <= status.payload.lastSuccess

LEMMA CostMarkerKept ==
    ASSUME TypeOK, TypeOK', CostInv, CostMoves,
           \A key \in StatusKeys : HealthForward(key), NEW day \in DayKeys, costCoverage'[day] # None
    PROVE  \E source \in CostSources : Backs(day[1], source, costCoverage[day].importedAt)'
<1> DEFINE old == costCoverage[day]
           new == costCoverage'[day]
<1>1. StatusTypeOK /\ StatusTypeOK' /\ costCoverage \in [DayKeys -> CostCoverageRows \cup {None}]
  BY DEF TypeOK, DailyTypeOK
<1>2. old # None => old.importedAt \in Nat
  BY <1>1, TimeAssumption DEF CostCoverageRows, Times
<1>3. day[1] \in Providers
  BY DEF DayKeys
<1>4. old # None => \E source \in CostSources : Backs(day[1], source, old.importedAt)
  BY DEF CostInv, CostsUnderCoverage, Backs
<1>5. CASE new = old
  <2>1. PICK source \in CostSources : Backs(day[1], source, old.importedAt)
    BY <1>4, <1>5
  <2>2. Backs(day[1], source, costCoverage[day].importedAt)'
    BY <1>1, <1>2, <1>3, <1>5, <2>1, SuccessKept DEF Backs
  <2> QED
    BY <2>2
<1>6. CASE \E cutoff \in Nat : costCoverage' = Without(costCoverage, Expired(costCoverage, cutoff))
  <2>1. PICK cutoff \in Nat : costCoverage' = Without(costCoverage, Expired(costCoverage, cutoff))
    BY <1>6
  <2>2. new = None \/ new = old
    BY <1>1, <2>1, WithoutExpired
  <2> QED
    BY <1>5, <2>2
<1>7. ASSUME NEW provider \in Providers, NEW source \in CostSources,
             NEW range \in SUBSET Days, NEW t \in Times, NEW rows,
             CostImported(provider, source, range, rows, t)
      PROVE  \E s \in CostSources : Backs(day[1], s, costCoverage[day].importedAt)'
  <2>1. new = IF day \in InRange(DayKeys, provider, range)
              THEN [payload |-> [covered |-> TRUE], importedAt |-> t]
              ELSE old
    BY <1>7 DEF CostImported, CostCoverageAfter
  <2>2. CASE day \in InRange(DayKeys, provider, range)
    <3>1. Fenced(day[1], source, t) /\ new.importedAt = t /\ t \in Nat
      BY <1>7, <2>1, <2>2, TimeAssumption DEF CostImported, InRange, Times
    <3>2. LET after  == sourceStatus'[<<day[1], source>>]
          IN  /\ after # None /\ after.payload.lastSuccess # None /\ after.payload.lastSuccess = t
      BY <1>1, <1>3, <3>1, FencedFacts DEF CostInv
    <3>3. Backs(day[1], source, costCoverage[day].importedAt)'
      BY <3>1, <3>2 DEF Backs
    <3> QED
      BY <3>3
  <2>3. CASE day \notin InRange(DayKeys, provider, range)
    BY <1>5, <2>1, <2>3
  <2> QED
    BY <2>2, <2>3
<1> QED
  BY <1>5, <1>6, <1>7 DEF CostMoves

LEMMA CostRowKept ==
    ASSUME TypeOK, CostsUnderCoverage, CostMoves, NEW key \in CostKeys, cost'[key] # None
    PROVE  costCoverage'[DayOf(key)] # None
<1>1. /\ cost \in [CostKeys -> CostRows \cup {None}]
      /\ costCoverage \in [DayKeys -> CostCoverageRows \cup {None}]
  BY DEF TypeOK, DailyTypeOK
<1>2. DayOf(key) \in DayKeys /\ DayOf(key)[2] = key[2]
  BY InRangeDays
<1>3. cost[key] # None => costCoverage[DayOf(key)] # None
  BY DEF CostsUnderCoverage
<1>4. CASE UNCHANGED <<cost, costCoverage>>
  BY <1>3, <1>4
<1>5. ASSUME NEW day \in Nat,
             cost' = Without(cost, Expired(cost, day)),
             costCoverage' = Without(costCoverage, Expired(costCoverage, day))
      PROVE  costCoverage'[DayOf(key)] # None
  BY <1>1, <1>2, <1>3, <1>5, WithoutExpired
<1>6. ASSUME NEW provider \in Providers, NEW source \in CostSources,
             NEW range \in SUBSET Days, NEW t \in Times,
             NEW rows \in [InRange(CostKeys, provider, range) -> Values \cup {None}],
             CostImported(provider, source, range, rows, t)
      PROVE  costCoverage'[DayOf(key)] # None
  <2> DEFINE keys == InRange(DayKeys, provider, range)
  <2>1. cost' = CostAfter(rows) /\ costCoverage' = CostCoverageAfter(keys, t)
    BY <1>6 DEF CostImported
  <2>2. DayOf(key) \in keys <=> key \in DOMAIN rows
    BY InRangeDays
  <2>3. CASE key \in DOMAIN rows
    <3>1. costCoverage'[DayOf(key)] = [payload |-> [covered |-> TRUE], importedAt |-> t]
      BY <1>2, <2>1, <2>2, <2>3 DEF CostCoverageAfter
    <3>2. [payload |-> [covered |-> TRUE], importedAt |-> t] \in CostCoverageRows
      BY DEF CostCoverageRows, Covered
    <3> QED
      BY <3>1, <3>2, NoRowAssumption
  <2>4. CASE key \notin DOMAIN rows
    <3>1. cost'[key] = cost[key]
      BY <2>1, <2>4 DEF CostAfter, DeletedCosts, WrittenCosts
    <3>2. costCoverage'[DayOf(key)] = costCoverage[DayOf(key)]
      BY <1>2, <2>1, <2>2, <2>4 DEF CostCoverageAfter
    <3> QED
      BY <1>3, <3>1, <3>2
  <2> QED
    BY <2>3, <2>4
<1> QED
  BY <1>4, <1>5, <1>6 DEF CostMoves

LEMMA CostKeeps ==
    ASSUME TypeOK, TypeOK', [Next]_vars, CostInv
    PROVE  CostInv'
<1>1. CostMoves
  BY NextMoves DEF MovesForward
<1>2. HealthOrdered' /\ \A key \in StatusKeys : HealthForward(key)
  BY HealthKeeps DEF CostInv
<1>3. \A key \in CostKeys : cost'[key] # None => costCoverage'[DayOf(key)] # None
  BY <1>1, CostRowKept DEF CostInv
<1>4. \A key \in DayKeys : costCoverage'[key] # None =>
         \E source \in CostSources : Backs(key[1], source, costCoverage[key].importedAt)'
  BY <1>1, <1>2, CostMarkerKept
<1>5. CostsUnderCoverage'
  BY <1>3, <1>4 DEF CostsUnderCoverage, Backs, DayOf
<1> QED
  BY <1>2, <1>5 DEF CostInv

-----------------------------------------------------------------------------
(* Current facts.                                                          *)
RowForward(old, new) == old # None => new # None /\ new.observedAt >= old.observedAt

LEMMA ObservedForward ==
    ASSUME NEW row \in CurrentRows \cup {None}, NEW facts \in Facts, NEW t \in ObservationTimes,
           ~Older(row, t)
    PROVE  RowForward(row, Observed(row, facts, t))
<1>1. row # None => row.observedAt \in Nat
  BY CurrentAssumption DEF CurrentRows, ObservationTimes
<1>2. t \in Nat
  BY CurrentAssumption DEF ObservationTimes
<1>3. RowRevision(row, facts) \in Nat \ {0}
  <2>1. row # None => row.revision \in Nat \ {0}
    BY DEF CurrentRows
  <2> QED
    BY <2>1 DEF RowRevision
<1>4. Observed(row, facts, t) \in CurrentRows /\ Observed(row, facts, t).observedAt = t
  BY <1>3 DEF Observed, CurrentRows
<1> QED
  BY <1>1, <1>2, <1>4, NoRowAssumption DEF RowForward, Older

LEMMA StaledForward ==
    ASSUME NEW row \in CurrentRows
    PROVE  RowForward(row, Staled(row))
<1>1. row.revision + 1 \in Nat \ {0}
  <2>1. row.revision \in Nat \ {0}
    BY DEF CurrentRows
  <2> QED
    BY <2>1
<1>2. [row.payload EXCEPT !.stale = TRUE] \in Facts
  <2>1. row.payload \in Facts
    BY DEF CurrentRows
  <2> QED
    BY <2>1 DEF Facts
<1>3. Staled(row) = [row EXCEPT !.payload = [row.payload EXCEPT !.stale = TRUE], !.revision = row.revision + 1]
  BY DEF Staled, CurrentRows
<1>4. Staled(row) \in CurrentRows /\ Staled(row).observedAt = row.observedAt
  BY <1>1, <1>2, <1>3 DEF CurrentRows
<1>5. row.observedAt \in Nat
  BY CurrentAssumption DEF CurrentRows, ObservationTimes
<1> QED
  BY <1>4, <1>5, NoRowAssumption DEF RowForward

LEMMA SameForward ==
    ASSUME NEW row \in CurrentRows \cup {None}
    PROVE  RowForward(row, row)
BY CurrentAssumption DEF RowForward, CurrentRows, ObservationTimes

LEMMA CurrentForward ==
    ASSUME CurrentTypeOK, CurrentNext
    PROVE  /\ \A record \in Balances : RowForward(balance[record], balance'[record])
           /\ \A record \in Quotas : RowForward(quota[record], quota'[record])
<1> DEFINE Forward == /\ \A record \in Balances : RowForward(balance[record], balance'[record])
                      /\ \A record \in Quotas : RowForward(quota[record], quota'[record])
<1>1. /\ balance \in [Balances -> CurrentRows \cup {None}]
      /\ quota \in [Quotas -> CurrentRows \cup {None}]
  BY DEF CurrentTypeOK
<1>2. CASE UNCHANGED <<balance, quota>>
  BY <1>1, <1>2, SameForward
<1>3. ASSUME NEW facts \in Facts, NEW t \in ObservationTimes, NEW record \in Balances,
             RecordBalance(record, facts, t)
      PROVE  Forward
  <2>1. quota' = quota
    BY <1>3 DEF RecordBalance
  <2>2. \/ balance' = balance
        \/ /\ ~Older(balance[record], t)
           /\ balance' = [balance EXCEPT ![record] = Observed(balance[record], facts, t)]
    BY <1>3 DEF RecordBalance, Committed
  <2> QED
    BY <1>1, <2>1, <2>2, SameForward, ObservedForward
<1>4. ASSUME NEW facts \in Facts, NEW t \in ObservationTimes, NEW record \in Quotas,
             RecordQuota(record, facts, t)
      PROVE  Forward
  <2>1. balance' = balance
    BY <1>4 DEF RecordQuota
  <2>2. \/ quota' = quota
        \/ /\ ~Older(quota[record], t)
           /\ quota' = [quota EXCEPT ![record] = Observed(quota[record], facts, t)]
    BY <1>4 DEF RecordQuota, Committed
  <2> QED
    BY <1>1, <2>1, <2>2, SameForward, ObservedForward
<1>5. ASSUME NEW provider, NEW source, NEW t, MarkBalanceSourceStale(provider, source, t)
      PROVE  Forward
  <2>1. quota' = quota
    BY <1>5 DEF MarkBalanceSourceStale
  <2>2. \/ balance' = balance
        \/ balance' = [record \in Balances |->
                          IF record \in LiveOf(balance, provider, source) THEN Staled(balance[record])
                          ELSE balance[record]]
    BY <1>5 DEF MarkBalanceSourceStale, Committed
  <2>3. \A record \in LiveOf(balance, provider, source) : balance[record] # None
    BY DEF LiveOf
  <2> QED
    BY <1>1, <2>1, <2>2, <2>3, SameForward, StaledForward
<1>6. ASSUME NEW provider, NEW source, NEW t, MarkQuotaSourceStale(provider, source, t)
      PROVE  Forward
  <2> DEFINE marked == {record \in LiveOf(quota, provider, source) : quota[record].observedAt <= t}
  <2>1. balance' = balance
    BY <1>6 DEF MarkQuotaSourceStale
  <2>2. \/ quota' = quota
        \/ quota' = [record \in Quotas |->
                        IF record \in marked THEN Staled(quota[record]) ELSE quota[record]]
    BY <1>6 DEF MarkQuotaSourceStale, Committed
  <2>3. \A record \in marked : quota[record] # None
    BY DEF LiveOf
  <2> HIDE DEF marked
  <2> QED
    BY <1>1, <2>1, <2>2, <2>3, SameForward, StaledForward
<1>7. ASSUME NEW provider, NEW facts, UpsertProviderInstance(provider, facts)
      PROVE  Forward
  BY <1>2, <1>7 DEF UpsertProviderInstance
<1> QED
  BY <1>3, <1>4, <1>5, <1>6, <1>7 DEF CurrentNext

LEMMA FactsForward ==
    ASSUME TypeOK, [Next]_vars
    PROVE  /\ \A record \in Balances : RowForward(balance[record], balance'[record])
           /\ \A record \in Quotas : RowForward(quota[record], quota'[record])
<1>1. CurrentTypeOK
  BY DEF TypeOK
<1>2. CASE UNCHANGED <<balance, quota>>
  BY <1>1, <1>2, SameForward DEF CurrentTypeOK
<1>3. CASE CurrentNext
  BY <1>1, <1>3, CurrentForward
<1>4. CASE Retention
  BY <1>2, <1>4 DEF Retention, PurgeBefore
<1> QED
  BY <1>2, <1>3, <1>4 DEF Next, vars, currentVars

-----------------------------------------------------------------------------
LEMMA FactsInit ==
    ASSUME Init
    PROVE  UsageInv /\ CostInv /\ DeadlineBacked /\ CatalogHasNoDeadline
<1>1. \A key \in StatusKeys : sourceStatus[key] = None
  BY DEF Init, StatusInit
<1>2. /\ \A key \in UsageKeys : usage[key] = None /\ convention[key] = None
      /\ \A key \in DayKeys : coverage[key] = None /\ costCoverage[key] = None
      /\ \A key \in CostKeys : cost[key] = None
  BY DEF Init, DailyInit
<1>3. HealthOrdered /\ DeadlineBacked /\ CatalogHasNoDeadline
  BY <1>1 DEF HealthOrdered, DeadlineBacked, CatalogHasNoDeadline
<1>4. RowsUnderCoverage /\ CoverageBacked /\ CostsUnderCoverage
  BY <1>2 DEF RowsUnderCoverage, CoverageBacked, CostsUnderCoverage
<1> QED
  BY <1>3, <1>4 DEF UsageInv, CostInv

(* The numbers of a day come from one source, the one its marker names,    *)
(* and bind its token convention, whatever is imported, replaced, refused, *)
(* rolled back or expires.                                                 *)
THEOREM UsageIsCovered == Spec => []RowsUnderCoverage
<1>1. Init => UsageInv
  BY FactsInit
<1>2. TypeOK /\ TypeOK' /\ UsageInv /\ [Next]_vars => UsageInv'
  BY UsageKeeps
<1>3. UsageInv => RowsUnderCoverage
  BY DEF UsageInv
<1> QED
  BY <1>1, <1>2, <1>3, TypeCorrect, PTL DEF Spec

(* A covered day is backed by a success of its source as new as it: the    *)
(* import and the status that announces it are never seen apart.           *)
THEOREM UsageIsBacked == Spec => []CoverageBacked
<1>1. Init => UsageInv
  BY FactsInit
<1>2. TypeOK /\ TypeOK' /\ UsageInv /\ [Next]_vars => UsageInv'
  BY UsageKeeps
<1>3. UsageInv => CoverageBacked
  BY DEF UsageInv
<1> QED
  BY <1>1, <1>2, <1>3, TypeCorrect, PTL DEF Spec

(* A worker whose attempt is older than the last import of its source does *)
(* not replace what that imported.                                         *)
THEOREM ImportsMoveForward == Spec => NoOlderImport
<1>1. Init => UsageInv
  BY FactsInit
<1>2. TypeOK /\ TypeOK' /\ UsageInv /\ [Next]_vars => UsageInv'
  BY UsageKeeps
<1>3. TypeOK /\ TypeOK' /\ UsageInv /\ [Next]_vars =>
         [\A key \in DayKeys :
             /\ coverage[key] # None
             /\ coverage'[key] # None
             /\ coverage'[key].payload.source = coverage[key].payload.source
             => coverage'[key].importedAt >= coverage[key].importedAt]_vars
  BY UsageKeeps
<1> QED
  BY <1>1, <1>2, <1>3, TypeCorrect, PTL DEF Spec, NoOlderImport

(* Costs lie on covered days, and a covered day is backed by a success of  *)
(* a source of costs.                                                      *)
THEOREM CostsAreBacked == Spec => []CostsUnderCoverage
<1>1. Init => CostInv
  BY FactsInit
<1>2. TypeOK /\ TypeOK' /\ CostInv /\ [Next]_vars => CostInv'
  BY CostKeeps
<1>3. CostInv => CostsUnderCoverage
  BY DEF CostInv
<1> QED
  BY <1>1, <1>2, <1>3, TypeCorrect, PTL DEF Spec

(* No source is called fresh for longer than its last success allows,      *)
(* whatever order its attempts are recorded in.                            *)
THEOREM DeadlinesAreBacked == Spec => []DeadlineBacked
<1>1. Init => DeadlineBacked /\ CatalogHasNoDeadline
  BY FactsInit
<1>2. TypeOK /\ DeadlineBacked /\ CatalogHasNoDeadline /\ [Next]_vars
         => DeadlineBacked' /\ CatalogHasNoDeadline'
  BY DeadlinesKept
<1> QED
  BY <1>1, <1>2, TypeCorrect, PTL DEF Spec

(* Neither the health of a source nor a current fact moves back, in        *)
(* whatever order late workers write.                                      *)
THEOREM FactsMoveForward == Spec => NothingMovesBack
<1>1. Init => HealthOrdered
  BY FactsInit DEF UsageInv
<1>2. TypeOK /\ HealthOrdered /\ [Next]_vars => HealthOrdered'
  BY HealthKeeps
<1>3. TypeOK /\ HealthOrdered /\ [Next]_vars =>
         [\A key \in StatusKeys :
             /\ key[2] # CatalogSource
             /\ sourceStatus[key] # None
             /\ sourceStatus'[key] # None
             => sourceStatus'[key].payload.lastAttempt
                   >= sourceStatus[key].payload.lastAttempt]_vars
  BY HealthKeeps DEF HealthForward
<1>4. TypeOK /\ [Next]_vars =>
         [/\ \A record \in Balances :
                balance[record] # None =>
                   /\ balance'[record] # None
                   /\ balance'[record].observedAt >= balance[record].observedAt
          /\ \A record \in Quotas :
                quota[record] # None =>
                   /\ quota'[record] # None
                   /\ quota'[record].observedAt >= quota[record].observedAt]_vars
  BY FactsForward DEF RowForward
<1> QED
  BY <1>1, <1>2, <1>3, <1>4, TypeCorrect, PTL DEF Spec, NothingMovesBack, HealthMovesForward, ObservationsMoveForward

-----------------------------------------------------------------------------
(* Revisions.  The store numbers some changes from the log and some from   *)
(* the row they replace; the numbers agree because rows carry the latest   *)
(* one, and where there is no row because the UNIQUE index rejects the 1.  *)
CarryInv ==
    /\ RowsCarryLatestRevision
    /\ \A n \in SnapshotIds : snapshot[n] # None => RevisionsOf(SnapshotId(n)) # {}

(* A revision in the log comes with all smaller ones.                      *)
LEMMA RevisionsFill ==
    ASSUME changeLog \in Seq(Changes), RevisionsContinue, NEW record,
           NEW m \in RevisionsOf(record), NEW k \in 1..m
    PROVE  m \in Nat /\ k \in RevisionsOf(record)
<1> DEFINE R == RevisionsOf(record)
           I == {i \in 1..(m + 1 - k) : m + 1 - i \in R}
<1>1. \A i \in 1..Len(changeLog) : changeLog[i].revision \in Nat \ {0}
  <2>1. \A i \in 1..Len(changeLog) : changeLog[i] \in Changes
    OBVIOUS
  <2>2. \A c \in Changes : c.revision \in Nat \ {0}
    BY DEF Changes
  <2> QED
    BY <2>1, <2>2
<1>2. R \subseteq Nat \ {0}
  BY <1>1 DEF RevisionsOf, ChangesOf
<1>3. ASSUME NEW r \in R
      PROVE  r = 1 \/ r - 1 \in R
  <2>1. PICK i \in 1..Len(changeLog) : changeLog[i].record = record /\ changeLog[i].revision = r
    BY DEF RevisionsOf, ChangesOf
  <2>2. \/ changeLog[i].revision = 1
        \/ \E j \in 1..Len(changeLog) :
              /\ changeLog[j].record = changeLog[i].record
              /\ changeLog[j].revision = changeLog[i].revision - 1
    BY DEF RevisionsContinue
  <2> QED
    BY <2>1, <2>2 DEF RevisionsOf, ChangesOf
<1> HIDE DEF R
<1>4. m \in Nat /\ m \in R /\ k \in Nat /\ k >= 1 /\ k <= m
  BY <1>2 DEF R
<1>5. 1 \in I /\ I \in SUBSET (1..(m + 1 - k)) /\ m + 1 - k \in Nat
  BY <1>4
<1>6. PICK i \in I : \A j \in I : j <= i
  <2> HIDE DEF I
  <2> QED
    BY <1>5, Greatest
<1>7. i \in 1..(m + 1 - k) /\ m + 1 - i \in R
  OBVIOUS
<1>8. CASE m + 1 - i = k
  BY <1>4, <1>7, <1>8 DEF R
<1>9. CASE m + 1 - i # k
  <2>1. m + 1 - i > k /\ m + 1 - i # 1
    BY <1>4, <1>7, <1>9
  <2>2. (m + 1 - i) - 1 \in R
    BY <1>3, <1>7, <2>1
  <2>3. i + 1 \in 1..(m + 1 - k) /\ m + 1 - (i + 1) = (m + 1 - i) - 1
    BY <1>4, <1>7, <2>1
  <2>4. i + 1 \in I
    BY <2>2, <2>3
  <2> QED
    BY <1>6, <1>7, <2>4
<1> QED
  BY <1>8, <1>9

(* The first revision the log does not have is the next.                   *)
LEMMA FreshRevision ==
    ASSUME changeLog \in Seq(Changes), RevisionsContinue, NEW record,
           NEW n \in Nat \ {0}, n \notin RevisionsOf(record),
           n = 1 \/ n - 1 \in RevisionsOf(record)
    PROVE  n = NextRevision(record)
<1>1. Numbered(Changes)
  BY DEF Numbered, Changes
<1>2. Greatness(record)
  BY <1>1, LatestIsGreatest
<1> DEFINE m == LatestRevision(record)
<1>3. m \in Nat /\ m \in RevisionsOf(record) \cup {0} /\ \A r \in RevisionsOf(record) : r <= m
  BY <1>2 DEF Greatness
<1> HIDE DEF m
<1>4. m < n
  <2> SUFFICES ASSUME ~(m < n) PROVE FALSE
    OBVIOUS
  <2>1. m \in RevisionsOf(record) /\ n \in 1..m
    BY <1>3
  <2> QED
    BY <2>1, RevisionsFill
<1>5. m >= n - 1
  BY <1>3
<1> QED
  BY <1>3, <1>4, <1>5 DEF NextRevision, m

(* After a transaction a row carries the number of its change, if it has   *)
(* one, and what it carried before, if it has none.                        *)
Carries(record, changes) ==
    RowOf(record)' # None =>
        IF \E c \in changes : c.record = record
        THEN RowOf(record)'.revision = NextRevision(record)
        ELSE RowOf(record) # None /\ RowOf(record)'.revision = RowOf(record).revision

SnapshotsPublished(changes) ==
    \A n \in SnapshotIds :
        snapshot'[n] # None => snapshot[n] # None \/ \E c \in changes : c.record = SnapshotId(n)

LEMMA KeptCarries ==
    ASSUME NEW record, NEW changes, RowOf(record)' = RowOf(record),
           \A c \in changes : c.record # record
    PROVE  Carries(record, changes)
BY DEF Carries

LEMMA Accepted ==
    ASSUME NEW changes, NEW position, Commit(changes, position), ~raised'
    PROVE  \A c \in changes : c.revision \notin RevisionsOf(c.record)
BY DEF Commit, RollBack, Collides

LEMMA CarryStep ==
    ASSUME TypeOK, TypeOK', CarryInv, NEW changes, NEW position,
           Transaction(changes, position), Commit(changes, position),
           raised' => \A record \in RecordIds : RowOf(record)' = RowOf(record),
           ~raised' => /\ Continues(changes)
                       /\ \A record \in RecordIds :
                             record[1] \in Revisioned => Carries(record, changes)
                       /\ SnapshotsPublished(changes)
    PROVE  CarryInv'
<1>1. \A n \in SnapshotIds : SnapshotId(n) \in RecordIds
  BY DEF RecordIds
<1>2. Numbered(Changes) /\ Numbered(Changes)'
  BY DEF TypeOK, Numbered, Changes
<1>3. CASE raised'
  <2>1. changeLog' = changeLog
    BY <1>3 DEF Commit, RollBack
  <2>2. \A record : RevisionsOf(record)' = RevisionsOf(record)
    BY <2>1 DEF RevisionsOf, ChangesOf
  <2>3. \A record : LatestRevision(record)' = LatestRevision(record)
    BY <2>2 DEF LatestRevision
  <2>4. RevisionsContinue'
    BY <2>1 DEF CarryInv, RowsCarryLatestRevision, RevisionsContinue
  <2>5. RowsCarryLatestRevision'
    BY <1>3, <2>3, <2>4 DEF CarryInv, RowsCarryLatestRevision
  <2>6. \A n \in SnapshotIds : snapshot'[n] = snapshot[n]
    BY <1>1, <1>3, StoredRows
  <2> QED
    BY <2>2, <2>5, <2>6 DEF CarryInv
<1>4. CASE ~raised'
  <2>1. Sortable(changes, position)
    BY TransactionSortable
  <2>2. changes \in SUBSET Changes /\ OnePerRecord(changes) /\ changeLog \in Seq(Changes)
    BY DEF Transaction, TypeOK
  <2>3. Appends(changes)
    BY <1>4, <2>1, <2>2, CommitAppends
  <2>4. RevisionsContinue'
    BY <1>2, <1>4, <2>2, <2>3, AppendsContinue DEF CarryInv, RowsCarryLatestRevision
  <2>5. ASSUME NEW record
        PROVE  /\ \A c \in changes : c.record = record => LatestRevision(record)' = NextRevision(record)
               /\ (\A c \in changes : c.record # record) => LatestRevision(record)' = LatestRevision(record)
    <3>1. \A c \in changes : c.record = record => c.revision = NextRevision(record)
      BY <1>4 DEF Continues, NextRevision
    <3> QED
      BY <1>2, <1>4, <2>2, <2>3, <3>1, AppendsLatest
  <2>6. ASSUME NEW record \in RecordIds, record[1] \in Revisioned, RowOf(record)' # None
        PROVE  RowOf(record)'.revision = LatestRevision(record)'
    <3>1. Carries(record, changes)
      BY <1>4, <2>6
    <3>2. CASE \E c \in changes : c.record = record
      BY <2>5, <2>6, <3>1, <3>2 DEF Carries
    <3>3. CASE \A c \in changes : c.record # record
      BY <2>5, <2>6, <3>1, <3>3 DEF Carries, CarryInv, RowsCarryLatestRevision
    <3> QED
      BY <3>2, <3>3
  <2>7. ASSUME NEW n \in SnapshotIds, snapshot'[n] # None
        PROVE  RevisionsOf(SnapshotId(n))' # {}
    <3>1. RevisionsOf(SnapshotId(n))' = RevisionsOf(SnapshotId(n))
             \cup {c.revision : c \in {d \in changes : d.record = SnapshotId(n)}}
      BY <2>3, AppendsRevisionsOf
    <3>2. \/ RevisionsOf(SnapshotId(n)) # {}
          \/ \E c \in changes : c.record = SnapshotId(n)
      BY <1>4, <2>7 DEF SnapshotsPublished, CarryInv
    <3> QED
      BY <3>1, <3>2
  <2> QED
    BY <2>4, <2>6, <2>7 DEF CarryInv, RowsCarryLatestRevision
<1> QED
  BY <1>3, <1>4

(* A step that neither publishes nor changes a row.                        *)
LEMMA CarryIdle ==
    ASSUME CarryInv, changeLog' = changeLog,
           \A record \in RecordIds : RowOf(record)' = RowOf(record)
    PROVE  CarryInv'
<1>1. \A n \in SnapshotIds : SnapshotId(n) \in RecordIds
  BY DEF RecordIds
<1>2. \A record : RevisionsOf(record)' = RevisionsOf(record)
  BY DEF RevisionsOf, ChangesOf
<1>3. \A record : LatestRevision(record)' = LatestRevision(record)
  BY <1>2 DEF LatestRevision
<1>4. RevisionsContinue'
  BY DEF CarryInv, RowsCarryLatestRevision, RevisionsContinue
<1>5. RowsCarryLatestRevision'
  BY <1>3, <1>4 DEF CarryInv, RowsCarryLatestRevision
<1>6. \A n \in SnapshotIds : snapshot'[n] = snapshot[n]
  BY <1>1, StoredRows
<1> QED
  BY <1>2, <1>5, <1>6 DEF CarryInv

(* Rows of tables a step leaves alone.                                     *)
LEMMA RowsStay ==
    /\ sourceStatus' = sourceStatus => \A k : RowOf(StatusId(k))' = RowOf(StatusId(k))
    /\ usage' = usage => \A k : RowOf(UsageId(k))' = RowOf(UsageId(k))
    /\ coverage' = coverage => \A k : RowOf(CoverageId(k))' = RowOf(CoverageId(k))
    /\ cost' = cost => \A k : RowOf(CostId(k))' = RowOf(CostId(k))
    /\ costCoverage' = costCoverage => \A k : RowOf(CostCoverageId(k))' = RowOf(CostCoverageId(k))
    /\ instance' = instance => \A k : RowOf(InstanceId(k))' = RowOf(InstanceId(k))
    /\ balance' = balance => \A k : RowOf(BalanceId(k))' = RowOf(BalanceId(k))
    /\ quota' = quota => \A k : RowOf(QuotaId(k))' = RowOf(QuotaId(k))
    /\ snapshot' = snapshot => \A k : RowOf(SnapshotId(k))' = RowOf(SnapshotId(k))
BY StoredRows

Still ==
    UNCHANGED <<sourceStatus, usage, coverage, cost, costCoverage, instance, balance, quota, snapshot>>

LEMMA StillRows ==
    ASSUME Still, NEW record \in RecordIds
    PROVE  RowOf(record)' = RowOf(record)
BY RecordKinds, RowsStay DEF Still

LEMMA SnapshotsStay ==
    ASSUME snapshot' = snapshot, NEW changes
    PROVE  SnapshotsPublished(changes)
BY DEF SnapshotsPublished

(* Which kinds carry revisions, by the table they are of.                  *)
LEMMA RevisionedKinds ==
    ASSUME NEW record \in RecordIds, record[1] \in Revisioned
    PROVE  \/ \E key \in StatusKeys : record = StatusId(key)
           \/ \E key \in UsageKeys : record = UsageId(key)
           \/ \E key \in CostKeys : record = CostId(key)
           \/ \E key \in Providers : record = InstanceId(key)
           \/ \E key \in Balances : record = BalanceId(key)
           \/ \E key \in Quotas : record = QuotaId(key)
BY RecordKinds DEF Revisioned, RecordId, CoverageId, CostCoverageId, SnapshotId

LEMMA RowCarries ==
    ASSUME CarryInv
    PROVE  /\ \A k \in StatusKeys : sourceStatus[k] # None =>
                 sourceStatus[k].revision = LatestRevision(StatusId(k))
           /\ \A k \in Balances : balance[k] # None =>
                 balance[k].revision = LatestRevision(BalanceId(k))
           /\ \A k \in Quotas : quota[k] # None =>
                 quota[k].revision = LatestRevision(QuotaId(k))
<1>1. \A record \in RecordIds : record[1] \in Revisioned /\ RowOf(record) # None =>
         RowOf(record).revision = LatestRevision(record)
  BY DEF CarryInv, RowsCarryLatestRevision
<1>2. /\ \A k \in StatusKeys : StatusId(k) \in RecordIds /\ StatusId(k)[1] = "source_status"
      /\ \A k \in Balances : BalanceId(k) \in RecordIds /\ BalanceId(k)[1] = "balance"
      /\ \A k \in Quotas : QuotaId(k) \in RecordIds /\ QuotaId(k)[1] = "quota"
  BY DEF RecordIds, StatusId, BalanceId, QuotaId, RecordId
<1> QED
  BY <1>1, <1>2, StoredRows DEF Revisioned

-----------------------------------------------------------------------------
(* Status.                                                                 *)
LEMMA StatusContinues ==
    ASSUME TypeOK, CarryInv, NEW key \in StatusKeys, NEW facts \in StatusFacts,
           \A c \in StatusChanges(key, facts) : c.revision \notin RevisionsOf(c.record)
    PROVE  Continues(StatusChanges(key, facts))
<1> DEFINE n == StatusRevision(key)
<1>1. changeLog \in Seq(Changes) /\ StatusTypeOK /\ RevisionsContinue
  BY DEF TypeOK, CarryInv, RowsCarryLatestRevision
<1>2. \A c \in StatusChanges(key, facts) : c.record = StatusId(key) /\ c.revision = n
  BY ChangeFields DEF StatusChanges
<1>3. CASE StatusChanges(key, facts) = {}
  BY <1>3 DEF Continues
<1>4. CASE StatusChanges(key, facts) # {}
  <2>1. n \notin RevisionsOf(StatusId(key))
    BY <1>2, <1>4
  <2>2. CASE sourceStatus[key] = None
    <3>1. n = 1
      BY <2>2 DEF StatusRevision
    <3>2. n = NextRevision(StatusId(key))
      BY <1>1, <2>1, <3>1, FreshRevision
    <3> QED
      BY <1>2, <3>2 DEF Continues, NextRevision
  <2>3. CASE sourceStatus[key] # None
    <3>1. n = LatestRevision(StatusId(key)) + 1
      BY <2>3, RowCarries DEF StatusRevision
    <3> QED
      BY <1>2, <3>1 DEF Continues
  <2> QED
    BY <2>2, <2>3
<1> QED
  BY <1>3, <1>4

LEMMA StatusCarries ==
    ASSUME StatusTypeOK, NEW key \in StatusKeys, NEW facts \in StatusFacts,
           Continues(StatusChanges(key, facts)),
           sourceStatus' = WithStatus(key, facts), NEW k \in StatusKeys
    PROVE  Carries(StatusId(k), StatusChanges(key, facts))
<1> DEFINE changes == StatusChanges(key, facts)
<1>1. RowOf(StatusId(k)) = sourceStatus[k] /\ RowOf(StatusId(k))' = sourceStatus'[k]
  BY StoredRows
<1>2. \A c \in changes : c.record = StatusId(key)
  BY StatusChangesTyped
<1>3. CASE k # key
  <2>1. sourceStatus'[k] = sourceStatus[k]
    BY <1>3, WithStatusStores
  <2>2. \A c \in changes : c.record # StatusId(k)
    BY <1>2, <1>3, IdsDiffer
  <2> QED
    BY <1>1, <2>1, <2>2, KeptCarries
<1>4. CASE k = key /\ StatusUnchanged(key, facts)
  <2>1. changes = {} /\ sourceStatus' = sourceStatus
    BY <1>4 DEF StatusChanges, WithStatus
  <2> QED
    BY <1>1, <2>1, KeptCarries
<1>5. CASE k = key /\ ~StatusUnchanged(key, facts)
  <2> DEFINE c == Change(StatusId(key), StatusRevision(key),
                         IF sourceStatus[key] = None THEN "insert" ELSE "update", facts)
  <2>1. c \in changes /\ c.record = StatusId(key) /\ c.revision = StatusRevision(key)
    BY <1>5, ChangeFields DEF StatusChanges
  <2>2. sourceStatus'[key].revision = StatusRevision(key)
    BY <1>5 DEF WithStatus, StatusTypeOK
  <2>3. c.revision = NextRevision(StatusId(key))
    BY <2>1 DEF Continues, NextRevision
  <2> HIDE DEF c, changes
  <2> QED
    BY <1>1, <1>5, <2>1, <2>2, <2>3 DEF Carries, changes
<1> QED
  BY <1>3, <1>4, <1>5

LEMMA StatusCarry ==
    ASSUME TypeOK, TypeOK', CarryInv, NEW key \in StatusKeys, NEW facts \in StatusFacts,
           Commit(StatusChanges(key, facts), AtOnce(StatusChanges(key, facts))),
           sourceStatus' = Committed(WithStatus(key, facts), sourceStatus),
           UNCHANGED <<dailyVars, currentVars>>
    PROVE  CarryInv'
<1> DEFINE changes == StatusChanges(key, facts)
<1>1. StatusTypeOK
  BY DEF TypeOK
<1>2. /\ changes \in SUBSET Changes
      /\ OnePerRecord(changes)
      /\ \A c \in changes : c.record = StatusId(key)
  BY <1>1, StatusChangesTyped
<1>3. Transaction(changes, AtOnce(changes))
  BY <1>2, AtOnceTransaction
<1>4. UNCHANGED <<usage, coverage, cost, costCoverage, instance, balance, quota, snapshot>>
  BY DEF dailyVars, usageVars, costVars, currentVars
<1>5. raised' => \A record \in RecordIds : RowOf(record)' = RowOf(record)
  BY <1>4, StillRows DEF Still, Committed
<1>6. ASSUME ~raised'
      PROVE  /\ Continues(changes)
             /\ \A record \in RecordIds : record[1] \in Revisioned => Carries(record, changes)
             /\ SnapshotsPublished(changes)
  <2>1. Continues(changes)
    BY <1>6, Accepted, StatusContinues
  <2>2. sourceStatus' = WithStatus(key, facts)
    BY <1>6 DEF Committed
  <2>3. \A k \in StatusKeys : Carries(StatusId(k), changes)
    BY <1>1, <2>1, <2>2, StatusCarries
  <2>4. ASSUME NEW record \in RecordIds, \A k \in StatusKeys : record # StatusId(k)
        PROVE  Carries(record, changes)
    <3>1. RowOf(record)' = RowOf(record)
      BY <1>4, <2>4, RecordKinds, RowsStay
    <3> QED
      BY <1>2, <2>4, <3>1, KeptCarries
  <2> QED
    BY <1>4, <2>1, <2>3, <2>4, SnapshotsStay
<1> QED
  BY <1>3, <1>5, <1>6, CarryStep

LEMMA DeleteStatusCarry ==
    ASSUME TypeOK, TypeOK', CarryInv, NEW key \in StatusKeys, NEW t \in Times,
           DeleteSourceStatus(key, t), UNCHANGED <<dailyVars, currentVars>>
    PROVE  CarryInv'
<1> DEFINE changes == StatusTombstones(key, t)
           c == Change(StatusId(key), sourceStatus[key].revision + 1, "delete", None)
<1>1. /\ Commit(changes, AtOnce(changes))
      /\ sourceStatus' = Committed(IF changes = {} THEN sourceStatus
                                   ELSE [sourceStatus EXCEPT ![key] = None], sourceStatus)
  BY DEF DeleteSourceStatus
<1>2. StatusTypeOK
  BY DEF TypeOK
<1>3. UNCHANGED <<usage, coverage, cost, costCoverage, instance, balance, quota, snapshot>>
  BY DEF dailyVars, usageVars, costVars, currentVars
<1>4. raised' => \A record \in RecordIds : RowOf(record)' = RowOf(record)
  BY <1>1, <1>3, StillRows DEF Still, Committed
<1>5. CASE changes = {}
  <2>1. Transaction(changes, AtOnce(changes))
    BY <1>5, AtOnceTransaction DEF OnePerRecord
  <2>2. \A record \in RecordIds : RowOf(record)' = RowOf(record)
    BY <1>1, <1>3, <1>5, StillRows DEF Still, Committed
  <2>3. \A record \in RecordIds : Carries(record, changes)
    BY <1>5, <2>2, KeptCarries
  <2>4. Continues(changes)
    BY <1>5 DEF Continues
  <2> QED
    BY <1>1, <1>3, <1>4, <2>1, <2>3, <2>4, CarryStep, SnapshotsStay
<1>6. CASE changes # {}
  <2>1. changes = {c} /\ sourceStatus[key] # None
    BY <1>6 DEF StatusTombstones
  <2>2. /\ c.record = StatusId(key)
        /\ c.revision = sourceStatus[key].revision + 1
        /\ c.revision = LatestRevision(StatusId(key)) + 1
    BY <2>1, ChangeFields, RowCarries
  <2>3. c \in Changes
    <3>1. sourceStatus[key].revision + 1 \in Nat \ {0}
      <4>1. sourceStatus[key].revision \in Nat \ {0}
        BY <1>2, <2>1 DEF StatusTypeOK, StatusRows
      <4> QED
        BY <4>1
    <3>2. StatusId(key) \in RecordIds /\ None \in Payloads /\ "delete" \in Operations
      BY DEF RecordIds, Payloads, Operations
    <3> QED
      BY <3>1, <3>2, ChangeTyped
  <2> HIDE DEF c, changes
  <2>4. Transaction(changes, AtOnce(changes))
    BY <2>1, <2>3, AtOnceTransaction DEF OnePerRecord
  <2>5. Continues(changes)
    BY <2>1, <2>2 DEF Continues
  <2>6. ASSUME ~raised', NEW record \in RecordIds
        PROVE  Carries(record, changes)
    <3>1. sourceStatus' = [sourceStatus EXCEPT ![key] = None]
      BY <1>1, <1>6, <2>6 DEF Committed
    <3>2. CASE record = StatusId(key)
      <4>1. RowOf(record)' = None
        BY <1>2, <3>1, <3>2, StoredRows DEF StatusTypeOK
      <4> QED
        BY <4>1 DEF Carries
    <3>3. CASE record # StatusId(key)
      <4>1. RowOf(record)' = RowOf(record)
        <5>1. CASE \E k \in StatusKeys : record = StatusId(k)
          BY <1>2, <3>1, <3>3, <5>1, StoredRows DEF StatusTypeOK
        <5>2. CASE \A k \in StatusKeys : record # StatusId(k)
          BY <1>3, <5>2, RecordKinds, RowsStay
        <5> QED
          BY <5>1, <5>2
      <4> QED
        BY <2>1, <2>2, <3>3, <4>1, KeptCarries
    <3> QED
      BY <3>2, <3>3
  <2> QED
    BY <1>1, <1>3, <1>4, <2>4, <2>5, <2>6, CarryStep, SnapshotsStay
<1> QED
  BY <1>5, <1>6

LEMMA StatusNextCarry ==
    ASSUME TypeOK, TypeOK', CarryInv, StatusNext, UNCHANGED <<dailyVars, currentVars>>
    PROVE  CarryInv'
<1>1. PICK key \in StatusKeys, t \in Times :
         \/ \E expected \in ExpectedBy(key[2]) :
               \/ RecordSourceSuccess(key, t, expected)
               \/ \E state \in StatesBy(key[2]) :
                     RecordSourceStatus(key, state, t, expected)
         \/ key[2] = CardSource /\ DeleteSourceStatus(key, t)
  BY DEF StatusNext
<1>2. StatusTypeOK
  BY DEF TypeOK
<1>3. ASSUME NEW expected, RecordSourceSuccess(key, t, expected)
      PROVE  CarryInv'
  <2>1. AfterSuccess(key, t, expected) \in StatusFacts
    BY <1>2, SuccessTyped
  <2> QED
    BY <1>3, <2>1, StatusCarry DEF RecordSourceSuccess
<1>4. ASSUME NEW expected, NEW state \in StatesBy(key[2]),
             RecordSourceStatus(key, state, t, expected)
      PROVE  CarryInv'
  <2>1. state \in Faults \cup {"stale"}
    BY DEF StatesBy
  <2>2. AfterOutcome(key, state, t, expected) \in StatusFacts
    BY <1>2, <2>1, OutcomeTyped
  <2> QED
    BY <1>4, <2>2, StatusCarry DEF RecordSourceStatus
<1>5. CASE DeleteSourceStatus(key, t)
  BY <1>5, DeleteStatusCarry
<1> QED
  BY <1>1, <1>3, <1>4, <1>5

-----------------------------------------------------------------------------
(* Imports.                                                                *)
LEMMA UsageImportCarry ==
    ASSUME TypeOK, TypeOK', CarryInv, NEW provider \in Providers, NEW source \in UsageSources,
           NEW range \in SUBSET Days, NEW t \in Times, NEW revision,
           NEW rows \in [InRange(UsageKeys, provider, range) -> Values \cup {None}],
           CommitUsageImport(provider, source, range, rows, t, revision),
           UNCHANGED costVars, UNCHANGED currentVars
    PROVE  CarryInv'
<1> DEFINE status == <<provider, source>>
           keys   == InRange(DayKeys, provider, range)
           facts  == AfterSuccess(status, t, None)
           usages == UsageChanges(rows, keys, source)
           health == StatusChanges(status, facts)
           changes == usages \cup health
<1>1. UNCHANGED <<cost, costCoverage, instance, balance, quota, snapshot>>
  BY DEF costVars, currentVars
<1>2. CASE HasNewerAttempt(status, t)
  BY <1>1, <1>2, StillRows, CarryIdle DEF CommitUsageImport, NothingPublished, usageVars, Still
<1>3. CASE ~HasNewerAttempt(status, t)
  <2>1. /\ Commit(changes, InImportOrder(changes))
        /\ usage' = Committed(UsageAfter(rows, source), usage)
        /\ coverage' = Committed(CoverageAfter(keys, source, t), coverage)
        /\ sourceStatus' = Committed(WithStatus(status, facts), sourceStatus)
    BY <1>3 DEF CommitUsageImport
  <2>2. status \in StatusKeys /\ StatusTypeOK /\ usage \in [UsageKeys -> UsageRows \cup {None}]
    BY DEF StatusKeys, Sources, TypeOK, DailyTypeOK
  <2>3. facts \in StatusFacts
    BY <2>2, SuccessTyped
  <2>4. /\ health \subseteq Changes /\ OnePerRecord(health)
        /\ \A c \in health : c.record = StatusId(status)
    BY <2>2, <2>3, StatusChangesTyped
  <2>5. /\ usages \subseteq Changes /\ OnePerRecord(usages)
        /\ \A c \in usages : \/ \E k \in UsageKeys : c.record = UsageId(k)
                             \/ \E k \in DayKeys : c.record = CoverageId(k)
    BY UsageChangesTyped
  <2>6. \A k, l : /\ StatusId(k) # UsageId(l) /\ StatusId(k) # CoverageId(l)
                  /\ UsageId(k) # CoverageId(l)
                  /\ UsageId(k) = UsageId(l) => k = l
    BY IdsDiffer
  <2>7. \A c \in usages : c.revision = NextRevision(c.record)
    BY ChangeFields DEF UsageChanges
  <2>8. \A k \in UsageKeys : (\E c \in usages : c.record = UsageId(k)) <=>
           k \in DeletedUsage(rows) \cup WrittenUsage(rows, source)
    <3> DEFINE D(key) == Change(UsageId(key), NextRevision(UsageId(key)), "delete", None)
               W(key) == Change(UsageId(key), NextRevision(UsageId(key)),
                                IF usage[key] = None THEN "insert" ELSE "update",
                                UsagePayload(source, rows[key]))
               M(key) == Change(CoverageId(key), NextRevision(CoverageId(key)),
                                IF coverage[key] = None THEN "insert" ELSE "update",
                                [source |-> source])
    <3>1. \A c \in usages : \/ \E key \in DeletedUsage(rows) : c = D(key)
                            \/ \E key \in WrittenUsage(rows, source) : c = W(key)
                            \/ \E key \in MarkedDays(keys, source) : c = M(key)
      BY DEF UsageChanges
    <3>2. /\ \A key \in DeletedUsage(rows) : D(key) \in usages
          /\ \A key \in WrittenUsage(rows, source) : W(key) \in usages
      BY DEF UsageChanges
    <3>3. \A key : /\ D(key).record = UsageId(key)
                   /\ W(key).record = UsageId(key)
                   /\ M(key).record = CoverageId(key)
      BY ChangeFields
    <3> HIDE DEF usages, keys, D, W, M
    <3>4. ASSUME NEW k, NEW c \in usages, c.record = UsageId(k)
          PROVE  k \in DeletedUsage(rows) \cup WrittenUsage(rows, source)
      <4>1. CASE \E key \in DeletedUsage(rows) : c = D(key)
        <5>1. PICK key \in DeletedUsage(rows) : c = D(key)
          BY <4>1
        <5>2. UsageId(key) = UsageId(k)
          BY <3>3, <3>4, <5>1
        <5> QED
          BY <2>6, <5>1, <5>2
      <4>2. CASE \E key \in WrittenUsage(rows, source) : c = W(key)
        <5>1. PICK key \in WrittenUsage(rows, source) : c = W(key)
          BY <4>2
        <5>2. UsageId(key) = UsageId(k)
          BY <3>3, <3>4, <5>1
        <5> QED
          BY <2>6, <5>1, <5>2
      <4>3. CASE \E key \in MarkedDays(keys, source) : c = M(key)
        BY <2>6, <3>3, <3>4, <4>3
      <4> QED
        BY <3>1, <4>1, <4>2, <4>3
    <3>5. ASSUME NEW k \in DeletedUsage(rows) \cup WrittenUsage(rows, source)
          PROVE  \E c \in usages : c.record = UsageId(k)
      <4>1. CASE k \in DeletedUsage(rows)
        BY <3>2, <3>3, <4>1
      <4>2. CASE k \in WrittenUsage(rows, source)
        BY <3>2, <3>3, <4>2
      <4> QED
        BY <4>1, <4>2
    <3> QED
      BY <3>4, <3>5
  <2> HIDE DEF keys, facts, usages, health, status
  <2>9. Transaction(changes, InImportOrder(changes))
    <3>1. changes \subseteq Changes /\ OnePerRecord(changes)
      BY <2>4, <2>5, <2>6 DEF OnePerRecord
    <3>2. \A c \in changes : ImportPosition(c) \in Nat
      BY <2>2, <2>4, <2>5, ImportPositionTyped
    <3> QED
      BY <3>1, <3>2 DEF Transaction, InImportOrder
  <2>10. raised' => \A record \in RecordIds : RowOf(record)' = RowOf(record)
    BY <1>1, <2>1, StillRows DEF Still, Committed
  <2>11. ASSUME ~raised'
         PROVE  /\ Continues(changes)
                /\ \A record \in RecordIds : record[1] \in Revisioned => Carries(record, changes)
                /\ SnapshotsPublished(changes)
    <3>1. \A c \in changes : c.revision \notin RevisionsOf(c.record)
      BY <2>1, <2>11, Accepted
    <3>2. Continues(health)
      BY <2>2, <2>3, <3>1, StatusContinues DEF health
    <3>3. Continues(changes)
      BY <2>7, <3>2 DEF Continues, NextRevision
    <3>4. usage' = UsageAfter(rows, source) /\ sourceStatus' = WithStatus(status, facts)
      BY <2>1, <2>11 DEF Committed
    <3>5. ASSUME NEW k \in StatusKeys
          PROVE  Carries(StatusId(k), changes)
      <4>1. Carries(StatusId(k), health)
        BY <2>2, <2>3, <3>2, <3>4, StatusCarries DEF health
      <4>2. (\E c \in changes : c.record = StatusId(k)) <=> \E c \in health : c.record = StatusId(k)
        BY <2>5, <2>6
      <4> HIDE DEF changes
      <4> QED
        BY <4>1, <4>2 DEF Carries
    <3>6. ASSUME NEW k \in UsageKeys
          PROVE  Carries(UsageId(k), changes)
      <4>1. RowOf(UsageId(k)) = usage[k] /\ RowOf(UsageId(k))' = usage'[k]
        BY StoredRows
      <4>2. (\E c \in changes : c.record = UsageId(k)) <=>
               k \in DeletedUsage(rows) \cup WrittenUsage(rows, source)
        BY <2>4, <2>6, <2>8
      <4> HIDE DEF changes
      <4>3. CASE k \in DeletedUsage(rows)
        <5>1. usage'[k] = None
          BY <3>4, <4>3 DEF UsageAfter
        <5> QED
          BY <4>1, <5>1 DEF Carries
      <4>4. CASE k \notin DeletedUsage(rows) /\ k \in WrittenUsage(rows, source)
        <5>1. usage'[k].revision = NextRevision(UsageId(k))
          BY <3>4, <4>4 DEF UsageAfter
        <5> QED
          BY <4>1, <4>2, <4>4, <5>1 DEF Carries
      <4>5. CASE k \notin DeletedUsage(rows) /\ k \notin WrittenUsage(rows, source)
        <5>1. usage'[k] = usage[k]
          BY <3>4, <4>5 DEF UsageAfter
        <5> QED
          BY <4>1, <4>2, <4>5, <5>1 DEF Carries
      <4> QED
        BY <4>3, <4>4, <4>5
    <3>7. ASSUME NEW record \in RecordIds, record[1] \in Revisioned,
                 \A k \in StatusKeys : record # StatusId(k),
                 \A k \in UsageKeys : record # UsageId(k)
          PROVE  Carries(record, changes)
      <4>1. RowOf(record)' = RowOf(record)
        BY <1>1, <3>7, RevisionedKinds, RowsStay
      <4>2. \A k \in DayKeys : record # CoverageId(k)
        BY <3>7 DEF Revisioned, CoverageId, RecordId
      <4>3. \A c \in changes : c.record # record
        BY <2>2, <2>4, <2>5, <3>7, <4>2
      <4> QED
        BY <4>1, <4>3, KeptCarries
    <3> QED
      BY <1>1, <3>3, <3>5, <3>6, <3>7, SnapshotsStay
  <2> HIDE DEF changes
  <2> QED
    BY <2>1, <2>9, <2>10, <2>11, CarryStep
<1> QED
  BY <1>2, <1>3

LEMMA CostImportCarry ==
    ASSUME TypeOK, TypeOK', CarryInv, NEW provider \in Providers, NEW source \in CostSources,
           NEW range \in SUBSET Days, NEW t \in Times,
           NEW rows \in [InRange(CostKeys, provider, range) -> Values \cup {None}],
           CommitCostImport(provider, source, range, rows, t),
           UNCHANGED usageVars, UNCHANGED currentVars
    PROVE  CarryInv'
<1> DEFINE status == <<provider, source>>
           keys   == InRange(DayKeys, provider, range)
           facts  == AfterSuccess(status, t, None)
           costs  == CostChanges(rows, keys)
           health == StatusChanges(status, facts)
           changes == costs \cup health
<1>1. UNCHANGED <<usage, coverage, instance, balance, quota, snapshot>>
  BY DEF usageVars, currentVars
<1>2. CASE HasNewerAttempt(status, t)
  BY <1>1, <1>2, StillRows, CarryIdle DEF CommitCostImport, NothingPublished, costVars, Still
<1>3. CASE ~HasNewerAttempt(status, t)
  <2>1. /\ Commit(changes, InImportOrder(changes))
        /\ cost' = Committed(CostAfter(rows), cost)
        /\ costCoverage' = Committed(CostCoverageAfter(keys, t), costCoverage)
        /\ sourceStatus' = Committed(WithStatus(status, facts), sourceStatus)
    BY <1>3 DEF CommitCostImport
  <2>2. status \in StatusKeys /\ StatusTypeOK /\ cost \in [CostKeys -> CostRows \cup {None}]
    BY DEF StatusKeys, Sources, TypeOK, DailyTypeOK
  <2>3. facts \in StatusFacts
    BY <2>2, SuccessTyped
  <2>4. /\ health \subseteq Changes /\ OnePerRecord(health)
        /\ \A c \in health : c.record = StatusId(status)
    BY <2>2, <2>3, StatusChangesTyped
  <2>5. /\ costs \subseteq Changes /\ OnePerRecord(costs)
        /\ \A c \in costs : \/ \E k \in CostKeys : c.record = CostId(k)
                            \/ \E k \in DayKeys : c.record = CostCoverageId(k)
    BY CostChangesTyped
  <2>6. \A k, l : /\ StatusId(k) # CostId(l) /\ StatusId(k) # CostCoverageId(l)
                  /\ CostId(k) # CostCoverageId(l)
                  /\ CostId(k) = CostId(l) => k = l
    BY IdsDiffer
  <2>7. \A c \in costs : c.revision = NextRevision(c.record)
    BY ChangeFields DEF CostChanges
  <2>8. \A k \in CostKeys : (\E c \in costs : c.record = CostId(k)) <=>
           k \in DeletedCosts(rows) \cup WrittenCosts(rows)
    <3> DEFINE D(key) == Change(CostId(key), NextRevision(CostId(key)), "delete", None)
               W(key) == Change(CostId(key), NextRevision(CostId(key)),
                                IF cost[key] = None THEN "insert" ELSE "update", rows[key])
               M(key) == Change(CostCoverageId(key), NextRevision(CostCoverageId(key)),
                                "insert", [covered |-> TRUE])
    <3>1. \A c \in costs : \/ \E key \in DeletedCosts(rows) : c = D(key)
                           \/ \E key \in WrittenCosts(rows) : c = W(key)
                           \/ \E key \in {day \in keys : costCoverage[day] = None} : c = M(key)
      BY DEF CostChanges
    <3>2. /\ \A key \in DeletedCosts(rows) : D(key) \in costs
          /\ \A key \in WrittenCosts(rows) : W(key) \in costs
      BY DEF CostChanges
    <3>3. \A key : /\ D(key).record = CostId(key)
                   /\ W(key).record = CostId(key)
                   /\ M(key).record = CostCoverageId(key)
      BY ChangeFields
    <3> HIDE DEF costs, keys, D, W, M
    <3>4. ASSUME NEW k, NEW c \in costs, c.record = CostId(k)
          PROVE  k \in DeletedCosts(rows) \cup WrittenCosts(rows)
      <4>1. CASE \E key \in DeletedCosts(rows) : c = D(key)
        <5>1. PICK key \in DeletedCosts(rows) : c = D(key)
          BY <4>1
        <5>2. CostId(key) = CostId(k)
          BY <3>3, <3>4, <5>1
        <5> QED
          BY <2>6, <5>1, <5>2
      <4>2. CASE \E key \in WrittenCosts(rows) : c = W(key)
        <5>1. PICK key \in WrittenCosts(rows) : c = W(key)
          BY <4>2
        <5>2. CostId(key) = CostId(k)
          BY <3>3, <3>4, <5>1
        <5> QED
          BY <2>6, <5>1, <5>2
      <4>3. CASE \E key \in {day \in keys : costCoverage[day] = None} : c = M(key)
        BY <2>6, <3>3, <3>4, <4>3
      <4> QED
        BY <3>1, <4>1, <4>2, <4>3
    <3>5. ASSUME NEW k \in DeletedCosts(rows) \cup WrittenCosts(rows)
          PROVE  \E c \in costs : c.record = CostId(k)
      <4>1. CASE k \in DeletedCosts(rows)
        BY <3>2, <3>3, <4>1
      <4>2. CASE k \in WrittenCosts(rows)
        BY <3>2, <3>3, <4>2
      <4> QED
        BY <4>1, <4>2
    <3> QED
      BY <3>4, <3>5
  <2> HIDE DEF keys, facts, costs, health, status
  <2>9. Transaction(changes, InImportOrder(changes))
    <3>1. changes \subseteq Changes /\ OnePerRecord(changes)
      BY <2>4, <2>5, <2>6 DEF OnePerRecord
    <3>2. \A c \in changes : ImportPosition(c) \in Nat
      BY <2>2, <2>4, <2>5, ImportPositionTyped
    <3> QED
      BY <3>1, <3>2 DEF Transaction, InImportOrder
  <2>10. raised' => \A record \in RecordIds : RowOf(record)' = RowOf(record)
    BY <1>1, <2>1, StillRows DEF Still, Committed
  <2>11. ASSUME ~raised'
         PROVE  /\ Continues(changes)
                /\ \A record \in RecordIds : record[1] \in Revisioned => Carries(record, changes)
                /\ SnapshotsPublished(changes)
    <3>1. \A c \in changes : c.revision \notin RevisionsOf(c.record)
      BY <2>1, <2>11, Accepted
    <3>2. Continues(health)
      BY <2>2, <2>3, <3>1, StatusContinues DEF health
    <3>3. Continues(changes)
      BY <2>7, <3>2 DEF Continues, NextRevision
    <3>4. cost' = CostAfter(rows) /\ sourceStatus' = WithStatus(status, facts)
      BY <2>1, <2>11 DEF Committed
    <3>5. ASSUME NEW k \in StatusKeys
          PROVE  Carries(StatusId(k), changes)
      <4>1. Carries(StatusId(k), health)
        BY <2>2, <2>3, <3>2, <3>4, StatusCarries DEF health
      <4>2. (\E c \in changes : c.record = StatusId(k)) <=> \E c \in health : c.record = StatusId(k)
        BY <2>5, <2>6
      <4> HIDE DEF changes
      <4> QED
        BY <4>1, <4>2 DEF Carries
    <3>6. ASSUME NEW k \in CostKeys
          PROVE  Carries(CostId(k), changes)
      <4>1. RowOf(CostId(k)) = cost[k] /\ RowOf(CostId(k))' = cost'[k]
        BY StoredRows
      <4>2. (\E c \in changes : c.record = CostId(k)) <=> k \in DeletedCosts(rows) \cup WrittenCosts(rows)
        BY <2>4, <2>6, <2>8
      <4> HIDE DEF changes
      <4>3. CASE k \in DeletedCosts(rows)
        <5>1. cost'[k] = None
          BY <3>4, <4>3 DEF CostAfter
        <5> QED
          BY <4>1, <5>1 DEF Carries
      <4>4. CASE k \notin DeletedCosts(rows) /\ k \in WrittenCosts(rows)
        <5>1. cost'[k].revision = NextRevision(CostId(k))
          BY <3>4, <4>4 DEF CostAfter
        <5> QED
          BY <4>1, <4>2, <4>4, <5>1 DEF Carries
      <4>5. CASE k \notin DeletedCosts(rows) /\ k \notin WrittenCosts(rows)
        <5>1. cost'[k] = cost[k]
          BY <3>4, <4>5 DEF CostAfter
        <5> QED
          BY <4>1, <4>2, <4>5, <5>1 DEF Carries
      <4> QED
        BY <4>3, <4>4, <4>5
    <3>7. ASSUME NEW record \in RecordIds, record[1] \in Revisioned,
                 \A k \in StatusKeys : record # StatusId(k),
                 \A k \in CostKeys : record # CostId(k)
          PROVE  Carries(record, changes)
      <4>1. RowOf(record)' = RowOf(record)
        BY <1>1, <3>7, RevisionedKinds, RowsStay
      <4>2. \A k \in DayKeys : record # CostCoverageId(k)
        BY <3>7 DEF Revisioned, CostCoverageId, RecordId
      <4>3. \A c \in changes : c.record # record
        BY <2>2, <2>4, <2>5, <3>7, <4>2
      <4> QED
        BY <4>1, <4>3, KeptCarries
    <3> QED
      BY <1>1, <3>3, <3>5, <3>6, <3>7, SnapshotsStay
  <2> HIDE DEF changes
  <2> QED
    BY <2>1, <2>9, <2>10, <2>11, CarryStep
<1> QED
  BY <1>2, <1>3

-----------------------------------------------------------------------------
(* Current facts.                                                          *)
LEMMA UpsertCarry ==
    ASSUME TypeOK, TypeOK', CarryInv, NEW provider \in Providers, NEW facts \in Instances,
           UpsertProviderInstance(provider, facts), UNCHANGED <<sourceStatus, dailyVars>>
    PROVE  CarryInv'
<1> DEFINE revision == NextRevision(InstanceId(provider))
           change   == Change(InstanceId(provider), revision, "upsert", facts)
           table    == [instance EXCEPT ![provider] = [payload |-> facts, revision |-> revision]]
<1>1. UNCHANGED <<sourceStatus, usage, coverage, cost, costCoverage, balance, quota, snapshot>>
  BY DEF UpsertProviderInstance, dailyVars, usageVars, costVars
<1>2. CASE UNCHANGED instance /\ changeLog' = changeLog
  BY <1>1, <1>2, StillRows, CarryIdle DEF Still
<1>3. CASE /\ Commit({change}, AtOnce({change}))
           /\ instance' = Committed(table, instance)
  <2>1. changeLog \in Seq(Changes) /\ instance \in [Providers -> InstanceRows \cup {None}]
    BY DEF TypeOK, CurrentTypeOK
  <2>2. change.record = InstanceId(provider) /\ change.revision = NextRevision(change.record)
    BY ChangeFields
  <2>3. change \in Changes
    <3>1. InstanceId(provider) \in RecordIds
      BY DEF RecordIds
    <3>2. facts \in Payloads /\ "upsert" \in Operations
      BY DEF Payloads, Operations
    <3>3. revision \in Nat \ {0}
      BY <2>1, NextRevisionTyped
    <3> QED
      BY <3>1, <3>2, <3>3, ChangeTyped
  <2>4. /\ table[provider].revision = NextRevision(InstanceId(provider))
        /\ \A k \in Providers : k # provider => table[k] = instance[k]
    BY <2>1
  <2>5. \A k : RowOf(InstanceId(k)) = instance[k] /\ RowOf(InstanceId(k))' = instance'[k]
    BY StoredRows
  <2> HIDE DEF revision, change, table
  <2>6. Transaction({change}, AtOnce({change}))
    BY <2>3, AtOnceTransaction DEF OnePerRecord
  <2>7. raised' => \A record \in RecordIds : RowOf(record)' = RowOf(record)
    BY <1>1, <1>3, StillRows DEF Still, Committed
  <2>8. ASSUME ~raised', NEW record \in RecordIds, record[1] \in Revisioned
        PROVE  Carries(record, {change})
    <3>1. CASE record = InstanceId(provider)
      <4>1. RowOf(record)'.revision = NextRevision(record)
        BY <1>3, <2>4, <2>5, <2>8, <3>1 DEF Committed
      <4> QED
        BY <2>2, <3>1, <4>1 DEF Carries
    <3>2. CASE \E k \in Providers : k # provider /\ record = InstanceId(k)
      <4>1. PICK k \in Providers : k # provider /\ record = InstanceId(k)
        BY <3>2
      <4>2. RowOf(record)' = RowOf(record)
        BY <1>3, <2>4, <2>5, <2>8, <4>1 DEF Committed
      <4>3. record # InstanceId(provider)
        BY <4>1, IdsDiffer
      <4> QED
        BY <2>2, <4>2, <4>3, KeptCarries
    <3>3. CASE \A k \in Providers : record # InstanceId(k)
      <4>1. RowOf(record)' = RowOf(record)
        BY <1>1, <2>8, <3>3, RevisionedKinds, RowsStay
      <4> QED
        BY <2>2, <3>3, <4>1, KeptCarries
    <3> QED
      BY <3>1, <3>2, <3>3
  <2>9. Continues({change})
    BY <2>2 DEF Continues, NextRevision
  <2> QED
    BY <1>1, <1>3, <2>6, <2>7, <2>8, <2>9, CarryStep, SnapshotsStay
<1> QED
  BY <1>2, <1>3 DEF UpsertProviderInstance, RollBack, NothingPublished

(* An observation that is accepted has the next revision, and so has its   *)
(* row.                                                                    *)
LEMMA ObservationCarries ==
    ASSUME TypeOK, CarryInv, NEW record, NEW row, NEW facts, NEW t,
           row # None => row.revision = LatestRevision(record),
           \A c \in ObservationChanges(record, row, facts) : c.revision \notin RevisionsOf(c.record)
    PROVE  /\ \A c \in ObservationChanges(record, row, facts) :
                 c.record = record /\ c.revision = NextRevision(record)
           /\ ObservationChanges(record, row, facts) = {} =>
                 row # None /\ Observed(row, facts, t).revision = row.revision
           /\ ObservationChanges(record, row, facts) # {} =>
                 Observed(row, facts, t).revision = NextRevision(record)
<1> DEFINE n == RowRevision(row, facts)
           changes == ObservationChanges(record, row, facts)
<1>1. changeLog \in Seq(Changes) /\ RevisionsContinue
  BY DEF TypeOK, CarryInv, RowsCarryLatestRevision
<1>2. \A c \in changes : c.record = record /\ c.revision = n
  BY ChangeFields DEF ObservationChanges
<1>3. Observed(row, facts, t).revision = n
  BY DEF Observed
<1>4. CASE changes = {}
  <2>1. ~Changed(row, facts)
    BY <1>4 DEF ObservationChanges
  <2>2. row # None /\ n = row.revision
    BY <2>1 DEF Changed, RowRevision
  <2> QED
    BY <1>3, <1>4, <2>2
<1>5. CASE changes # {}
  <2>1. Changed(row, facts)
    BY <1>5 DEF ObservationChanges
  <2>2. n \notin RevisionsOf(record)
    BY <1>2, <1>5
  <2>3. n = NextRevision(record)
    <3>1. CASE row = None
      <4>1. n = 1
        BY <3>1 DEF RowRevision
      <4> QED
        BY <1>1, <2>2, <4>1, FreshRevision
    <3>2. CASE row # None
      BY <2>1, <3>2 DEF RowRevision, NextRevision
    <3> QED
      BY <3>1, <3>2
  <2> HIDE DEF n, changes
  <2> QED
    BY <1>2, <1>3, <1>5, <2>3 DEF changes
<1> QED
  BY <1>4, <1>5

LEMMA RecordBalanceCarry ==
    ASSUME TypeOK, TypeOK', CarryInv, NEW record \in Balances, NEW facts \in Facts,
           NEW t \in ObservationTimes,
           RecordBalance(record, facts, t), UNCHANGED <<sourceStatus, dailyVars>>
    PROVE  CarryInv'
<1> DEFINE row     == balance[record]
           changes == ObservationChanges(BalanceId(record), row, facts)
           new     == Observed(row, facts, t)
           table   == [balance EXCEPT ![record] = new]
<1>1. UNCHANGED <<sourceStatus, usage, coverage, cost, costCoverage, instance, quota, snapshot>>
  BY DEF RecordBalance, dailyVars, usageVars, costVars
<1>2. CASE Older(row, t)
  BY <1>1, <1>2, StillRows, CarryIdle DEF RecordBalance, NothingPublished, Still
<1>3. CASE ~Older(row, t)
  <2>1. Commit(changes, AtOnce(changes)) /\ balance' = Committed(table, balance)
    BY <1>3 DEF RecordBalance
  <2>2. balance \in [Balances -> CurrentRows \cup {None}]
    BY DEF TypeOK, CurrentTypeOK
  <2>3. row \in CurrentRows \cup {None} /\ BalanceId(record) \in RecordIds
    BY <2>2 DEF RecordIds
  <2>4. row # None => row.revision = LatestRevision(BalanceId(record))
    BY RowCarries
  <2>5. table[record] = new /\ \A k \in Balances : k # record => table[k] = balance[k]
    BY <2>2
  <2>6. \A k : RowOf(BalanceId(k)) = balance[k] /\ RowOf(BalanceId(k))' = balance'[k]
    BY StoredRows
  <2>7. row = RowOf(BalanceId(record))
    BY <2>6
  <2> HIDE DEF row
  <2>8. changes \in SUBSET Changes /\ OnePerRecord(changes)
        /\ \A c \in changes : c.record = BalanceId(record)
    BY <2>3, ObservationTyped
  <2>9. Transaction(changes, AtOnce(changes))
    BY <2>8, AtOnceTransaction
  <2>10. raised' => \A r \in RecordIds : RowOf(r)' = RowOf(r)
    BY <1>1, <2>1, StillRows DEF Still, Committed
  <2>11. ASSUME ~raised'
         PROVE  /\ \A c \in changes : c.revision = NextRevision(BalanceId(record))
                /\ changes = {} => row # None /\ new.revision = row.revision
                /\ changes # {} => new.revision = NextRevision(BalanceId(record))
    <3>1. \A c \in ObservationChanges(BalanceId(record), row, facts) :
             c.revision \notin RevisionsOf(c.record)
      BY <2>1, <2>11, Accepted
    <3> HIDE DEF changes, new
    <3>2. /\ \A c \in ObservationChanges(BalanceId(record), row, facts) :
                /\ c.record = BalanceId(record)
                /\ c.revision = NextRevision(BalanceId(record))
          /\ ObservationChanges(BalanceId(record), row, facts) = {} =>
                row # None /\ Observed(row, facts, t).revision = row.revision
          /\ ObservationChanges(BalanceId(record), row, facts) # {} =>
                Observed(row, facts, t).revision = NextRevision(BalanceId(record))
      BY <2>4, <3>1, ObservationCarries
    <3> QED
      BY <3>2 DEF changes, new
  <2> HIDE DEF changes, new, table
  <2>12. ASSUME ~raised', NEW r \in RecordIds, r[1] \in Revisioned
         PROVE  Carries(r, changes)
    <3>1. CASE r = BalanceId(record)
      <4>1. RowOf(r)' = new
        BY <2>1, <2>5, <2>6, <2>12, <3>1 DEF Committed
      <4>2. (\E c \in changes : c.record = r) <=> changes # {}
        BY <2>8, <3>1
      <4> QED
        BY <2>7, <2>11, <2>12, <3>1, <4>1, <4>2 DEF Carries
    <3>2. CASE \E k \in Balances : k # record /\ r = BalanceId(k)
      <4>1. PICK k \in Balances : k # record /\ r = BalanceId(k)
        BY <3>2
      <4>2. RowOf(r)' = RowOf(r)
        BY <2>1, <2>5, <2>6, <2>12, <4>1 DEF Committed
      <4>3. r # BalanceId(record)
        BY <4>1, IdsDiffer
      <4> QED
        BY <2>8, <4>2, <4>3, KeptCarries
    <3>3. CASE \A k \in Balances : r # BalanceId(k)
      <4>1. RowOf(r)' = RowOf(r)
        BY <1>1, <2>12, <3>3, RevisionedKinds, RowsStay
      <4> QED
        BY <2>8, <3>3, <4>1, KeptCarries
    <3> QED
      BY <3>1, <3>2, <3>3
  <2>13. ~raised' => Continues(changes)
    BY <2>8, <2>11 DEF Continues, NextRevision
  <2> QED
    BY <1>1, <2>1, <2>9, <2>10, <2>12, <2>13, CarryStep, SnapshotsStay
<1> QED
  BY <1>2, <1>3

(* Marking a row stale publishes the row's next revision.                  *)
LEMMA StaleCarries ==
    ASSUME NEW record, NEW row \in CurrentRows, row.revision = LatestRevision(record)
    PROVE  /\ StaleChange(record, row).record = record
           /\ StaleChange(record, row).revision = NextRevision(record)
           /\ Staled(row).revision = NextRevision(record)
<1>1. /\ StaleChange(record, row).record = record
      /\ StaleChange(record, row).revision = row.revision + 1
  BY ChangeFields DEF StaleChange
<1>2. Staled(row).revision = row.revision + 1
  BY DEF Staled, CurrentRows
<1> QED
  BY <1>1, <1>2 DEF NextRevision

LEMMA MarkBalanceCarry ==
    ASSUME TypeOK, TypeOK', CarryInv, NEW provider, NEW source, NEW t,
           MarkBalanceSourceStale(provider, source, t),
           UNCHANGED <<sourceStatus, dailyVars>>
    PROVE  CarryInv'
<1> DEFINE marked  == LiveOf(balance, provider, source)
           changes == {StaleChange(BalanceId(record), balance[record]) : record \in marked}
           table   == [record \in Balances |->
                          IF record \in marked THEN Staled(balance[record])
                          ELSE balance[record]]
<1>1. Commit(changes, AtOnce(changes)) /\ balance' = Committed(table, balance)
  BY DEF MarkBalanceSourceStale
<1>2. balance \in [Balances -> CurrentRows \cup {None}]
  BY DEF TypeOK, CurrentTypeOK
<1>3. ASSUME NEW k \in marked
      PROVE  /\ k \in Balances
             /\ StaleChange(BalanceId(k), balance[k]) \in Changes
             /\ StaleChange(BalanceId(k), balance[k]).record = BalanceId(k)
             /\ StaleChange(BalanceId(k), balance[k]).revision = NextRevision(BalanceId(k))
             /\ Staled(balance[k]).revision = NextRevision(BalanceId(k))
  <2>1. k \in Balances /\ balance[k] # None /\ balance[k] \in CurrentRows
    BY <1>2 DEF LiveOf
  <2>2. BalanceId(k) \in RecordIds
    BY <2>1 DEF RecordIds
  <2>3. balance[k].revision = LatestRevision(BalanceId(k))
    BY <2>1, RowCarries
  <2> QED
    BY <2>1, <2>2, <2>3, StaledTyped, StaleCarries
<1>4. \A k, l : BalanceId(k) = BalanceId(l) => k = l
  BY IdsDiffer
<1>5. \A c \in changes : \E k \in marked : c = StaleChange(BalanceId(k), balance[k])
  OBVIOUS
<1>6. \A k \in marked : StaleChange(BalanceId(k), balance[k]) \in changes
  OBVIOUS
<1>7. \A k \in Balances : table[k] = IF k \in marked THEN Staled(balance[k]) ELSE balance[k]
  OBVIOUS
<1>8. UNCHANGED <<sourceStatus, usage, coverage, cost, costCoverage, instance, quota, snapshot>>
  BY DEF MarkBalanceSourceStale, dailyVars, usageVars, costVars
<1> HIDE DEF changes, table, marked
<1>9. changes \in SUBSET Changes /\ OnePerRecord(changes)
  BY <1>3, <1>4, <1>5 DEF OnePerRecord
<1>10. Transaction(changes, AtOnce(changes))
  BY <1>9, AtOnceTransaction
<1>11. raised' => \A r \in RecordIds : RowOf(r)' = RowOf(r)
  BY <1>1, <1>8, StillRows DEF Still, Committed
<1>12. Continues(changes)
  BY <1>3, <1>5 DEF Continues, NextRevision
<1>13. \A k : RowOf(BalanceId(k)) = balance[k] /\ RowOf(BalanceId(k))' = balance'[k]
  BY StoredRows
<1>14. ASSUME ~raised', NEW r \in RecordIds, r[1] \in Revisioned
       PROVE  Carries(r, changes)
  <2>1. CASE \E k \in marked : r = BalanceId(k)
    <3>1. PICK k \in marked : r = BalanceId(k)
      BY <2>1
    <3>2. RowOf(r)'.revision = NextRevision(r)
      BY <1>1, <1>3, <1>7, <1>13, <1>14, <3>1 DEF Committed
    <3>3. \E c \in changes : c.record = r
      BY <1>3, <1>6, <3>1
    <3> QED
      BY <3>2, <3>3 DEF Carries
  <2>2. CASE \E k \in Balances : k \notin marked /\ r = BalanceId(k)
    <3>1. PICK k \in Balances : k \notin marked /\ r = BalanceId(k)
      BY <2>2
    <3>2. RowOf(r)' = RowOf(r)
      BY <1>1, <1>7, <1>13, <1>14, <3>1 DEF Committed
    <3>3. \A c \in changes : c.record # r
      BY <1>3, <1>4, <1>5, <3>1
    <3> QED
      BY <3>2, <3>3, KeptCarries
  <2>3. CASE \A k \in Balances : r # BalanceId(k)
    <3>1. RowOf(r)' = RowOf(r)
      BY <1>8, <1>14, <2>3, RevisionedKinds, RowsStay
    <3>2. \A c \in changes : c.record # r
      BY <1>3, <1>5, <2>3
    <3> QED
      BY <3>1, <3>2, KeptCarries
  <2> QED
    BY <1>3, <2>1, <2>2, <2>3
<1> QED
  BY <1>1, <1>8, <1>10, <1>11, <1>12, <1>14, CarryStep, SnapshotsStay

LEMMA MarkQuotaCarry ==
    ASSUME TypeOK, TypeOK', CarryInv, NEW provider, NEW source, NEW t,
           MarkQuotaSourceStale(provider, source, t),
           UNCHANGED <<sourceStatus, dailyVars>>
    PROVE  CarryInv'
<1> DEFINE marked  == {record \in LiveOf(quota, provider, source) : quota[record].observedAt <= t}
           changes == {StaleChange(QuotaId(record), quota[record]) : record \in marked}
           table   == [record \in Quotas |->
                          IF record \in marked THEN Staled(quota[record])
                          ELSE quota[record]]
<1>1. Commit(changes, AtOnce(changes)) /\ quota' = Committed(table, quota)
  BY DEF MarkQuotaSourceStale
<1>2. quota \in [Quotas -> CurrentRows \cup {None}]
  BY DEF TypeOK, CurrentTypeOK
<1>3. ASSUME NEW k \in marked
      PROVE  /\ k \in Quotas
             /\ StaleChange(QuotaId(k), quota[k]) \in Changes
             /\ StaleChange(QuotaId(k), quota[k]).record = QuotaId(k)
             /\ StaleChange(QuotaId(k), quota[k]).revision = NextRevision(QuotaId(k))
             /\ Staled(quota[k]).revision = NextRevision(QuotaId(k))
  <2>1. k \in Quotas /\ quota[k] # None /\ quota[k] \in CurrentRows
    BY <1>2 DEF LiveOf
  <2>2. QuotaId(k) \in RecordIds
    BY <2>1 DEF RecordIds
  <2>3. quota[k].revision = LatestRevision(QuotaId(k))
    BY <2>1, RowCarries
  <2> QED
    BY <2>1, <2>2, <2>3, StaledTyped, StaleCarries
<1>4. \A k, l : QuotaId(k) = QuotaId(l) => k = l
  BY IdsDiffer
<1>5. \A c \in changes : \E k \in marked : c = StaleChange(QuotaId(k), quota[k])
  OBVIOUS
<1>6. \A k \in marked : StaleChange(QuotaId(k), quota[k]) \in changes
  OBVIOUS
<1>7. \A k \in Quotas : table[k] = IF k \in marked THEN Staled(quota[k]) ELSE quota[k]
  OBVIOUS
<1>8. UNCHANGED <<sourceStatus, usage, coverage, cost, costCoverage, instance, balance, snapshot>>
  BY DEF MarkQuotaSourceStale, dailyVars, usageVars, costVars
<1> HIDE DEF changes, table, marked
<1>9. changes \in SUBSET Changes /\ OnePerRecord(changes)
  BY <1>3, <1>4, <1>5 DEF OnePerRecord
<1>10. Transaction(changes, AtOnce(changes))
  BY <1>9, AtOnceTransaction
<1>11. raised' => \A r \in RecordIds : RowOf(r)' = RowOf(r)
  BY <1>1, <1>8, StillRows DEF Still, Committed
<1>12. Continues(changes)
  BY <1>3, <1>5 DEF Continues, NextRevision
<1>13. \A k : RowOf(QuotaId(k)) = quota[k] /\ RowOf(QuotaId(k))' = quota'[k]
  BY StoredRows
<1>14. ASSUME ~raised', NEW r \in RecordIds, r[1] \in Revisioned
       PROVE  Carries(r, changes)
  <2>1. CASE \E k \in marked : r = QuotaId(k)
    <3>1. PICK k \in marked : r = QuotaId(k)
      BY <2>1
    <3>2. RowOf(r)'.revision = NextRevision(r)
      BY <1>1, <1>3, <1>7, <1>13, <1>14, <3>1 DEF Committed
    <3>3. \E c \in changes : c.record = r
      BY <1>3, <1>6, <3>1
    <3> QED
      BY <3>2, <3>3 DEF Carries
  <2>2. CASE \E k \in Quotas : k \notin marked /\ r = QuotaId(k)
    <3>1. PICK k \in Quotas : k \notin marked /\ r = QuotaId(k)
      BY <2>2
    <3>2. RowOf(r)' = RowOf(r)
      BY <1>1, <1>7, <1>13, <1>14, <3>1 DEF Committed
    <3>3. \A c \in changes : c.record # r
      BY <1>3, <1>4, <1>5, <3>1
    <3> QED
      BY <3>2, <3>3, KeptCarries
  <2>3. CASE \A k \in Quotas : r # QuotaId(k)
    <3>1. RowOf(r)' = RowOf(r)
      BY <1>8, <1>14, <2>3, RevisionedKinds, RowsStay
    <3>2. \A c \in changes : c.record # r
      BY <1>3, <1>5, <2>3
    <3> QED
      BY <3>1, <3>2, KeptCarries
  <2> QED
    BY <1>3, <2>1, <2>2, <2>3
<1> QED
  BY <1>1, <1>8, <1>10, <1>11, <1>12, <1>14, CarryStep, SnapshotsStay

LEMMA RecordQuotaCarry ==
    ASSUME TypeOK, TypeOK', CarryInv, NEW record \in Quotas, NEW facts \in Facts,
           NEW t \in ObservationTimes,
           RecordQuota(record, facts, t), UNCHANGED <<sourceStatus, dailyVars>>
    PROVE  CarryInv'
<1> DEFINE row     == quota[record]
           late    == Older(row, t)
           n       == lastSnapshot + 1
           payload == SnapshotPayload(record, facts, t)
           entry   == Change(SnapshotId(n), 1, "insert", payload)
           history == SnapshotChanges(record, facts, t)
           current == ObservationChanges(QuotaId(record), row, facts)
           seen    == IF late THEN {} ELSE current
           changes == history \cup seen
           new     == Observed(row, facts, t)
           quotas  == IF late THEN quota ELSE [quota EXCEPT ![record] = new]
           entries == IF history = {} THEN snapshot
                      ELSE [snapshot EXCEPT ![n] = [payload |-> payload]]
<1>1. /\ Commit(changes, SnapshotFirst(changes))
      /\ quota' = Committed(quotas, quota)
      /\ snapshot' = Committed(entries, snapshot)
      /\ lastSnapshot < MaxSnapshots
  BY DEF RecordQuota
<1>2. /\ changeLog \in Seq(Changes)
      /\ quota \in [Quotas -> CurrentRows \cup {None}]
      /\ snapshot \in [SnapshotIds -> SnapshotRows \cup {None}]
      /\ lastSnapshot \in 0..MaxSnapshots
  BY DEF TypeOK, CurrentTypeOK
<1>3. row \in CurrentRows \cup {None} /\ QuotaId(record) \in RecordIds
  BY <1>2 DEF RecordIds
<1>4. row # None => row.revision = LatestRevision(QuotaId(record))
  BY RowCarries
<1>5. n \in SnapshotIds
  BY <1>1, <1>2, CurrentAssumption DEF SnapshotIds
<1>6. entry \in Changes
  <2>1. SnapshotId(n) \in RecordIds
    BY <1>5 DEF RecordIds
  <2>2. payload \in Payloads /\ "insert" \in Operations
    BY DEF SnapshotPayload, SnapshotFacts, Payloads, Operations
  <2> QED
    BY <2>1, <2>2, ChangeTyped
<1>7. entry.record = SnapshotId(n) /\ entry.revision = 1
  BY ChangeFields
<1>8. history = {} \/ history = {entry}
  BY DEF SnapshotChanges
<1>9. \A k : /\ RowOf(QuotaId(k)) = quota[k]
             /\ RowOf(QuotaId(k))' = quota'[k]
  BY StoredRows
<1>10. row = RowOf(QuotaId(record))
  BY <1>9
<1> HIDE DEF row
<1>11. /\ current \in SUBSET Changes
       /\ OnePerRecord(current)
       /\ \A c \in current : c.record = QuotaId(record)
  BY <1>3, ObservationTyped
<1>12. /\ quotas[record] = IF late THEN quota[record] ELSE new
       /\ \A k \in Quotas : k # record => quotas[k] = quota[k]
  BY <1>2
<1>13. \A k \in SnapshotIds :
          entries[k] # None => snapshot[k] # None \/ (history # {} /\ k = n)
  BY <1>2, <1>5
<1>14. \A k, l : /\ QuotaId(k) = QuotaId(l) => k = l
                 /\ SnapshotId(k) = SnapshotId(l) => k = l
                 /\ QuotaId(k) # SnapshotId(l)
  BY IdsDiffer
<1>15. UNCHANGED <<sourceStatus, usage, coverage, cost, costCoverage, instance, balance>>
  BY DEF RecordQuota, dailyVars, usageVars, costVars
<1> HIDE DEF current, new, entry, history, payload, quotas, entries, late, n
<1>16. /\ changes \subseteq Changes
       /\ \A c \in changes : c \in history \/ (~late /\ c \in current)
       /\ ~late => seen = current
       /\ history \subseteq changes /\ seen \subseteq changes
  BY <1>6, <1>8, <1>11
<1>17. OnePerRecord(changes)
  BY <1>7, <1>8, <1>11, <1>14, <1>16 DEF OnePerRecord
<1> HIDE DEF changes, seen
<1>18. Transaction(changes, SnapshotFirst(changes))
  BY <1>16, <1>17 DEF Transaction, SnapshotFirst
<1>19. \A r \in RecordIds : r[1] \in Revisioned => \A k : r # SnapshotId(k)
  BY DEF Revisioned, SnapshotId, RecordId
<1>20. raised' => \A r \in RecordIds : RowOf(r)' = RowOf(r)
  BY <1>1, <1>15, StillRows DEF Still, Committed
<1>21. ASSUME ~raised'
       PROVE  /\ Continues(changes)
              /\ \A r \in RecordIds : r[1] \in Revisioned => Carries(r, changes)
              /\ SnapshotsPublished(changes)
  <2>1. \A c \in changes : c.revision \notin RevisionsOf(c.record)
    BY <1>1, <1>21, Accepted
  <2>2. ~late => \A c \in current : c.revision \notin RevisionsOf(c.record)
    BY <1>16, <2>1
  <2>3. ASSUME ~late
        PROVE  /\ \A c \in current : c.revision = NextRevision(QuotaId(record))
               /\ current = {} => row # None /\ new.revision = row.revision
               /\ current # {} => new.revision = NextRevision(QuotaId(record))
    <3>1. /\ \A c \in ObservationChanges(QuotaId(record), row, facts) :
                /\ c.record = QuotaId(record)
                /\ c.revision = NextRevision(QuotaId(record))
          /\ ObservationChanges(QuotaId(record), row, facts) = {} =>
                row # None /\ Observed(row, facts, t).revision = row.revision
          /\ ObservationChanges(QuotaId(record), row, facts) # {} =>
                Observed(row, facts, t).revision = NextRevision(QuotaId(record))
      <4>1. \A c \in ObservationChanges(QuotaId(record), row, facts) :
               c.revision \notin RevisionsOf(c.record)
        BY <2>2, <2>3 DEF current
      <4> QED
        BY <1>4, <4>1, ObservationCarries
    <3> QED
      BY <3>1 DEF current, new
  <2>4. history # {} => 1 = NextRevision(SnapshotId(n))
    <3> SUFFICES ASSUME history # {} PROVE 1 = NextRevision(SnapshotId(n))
      OBVIOUS
    <3>1. 1 \notin RevisionsOf(SnapshotId(n))
      BY <1>7, <1>8, <1>16, <2>1
    <3>2. RevisionsContinue
      BY DEF CarryInv, RowsCarryLatestRevision
    <3> QED
      BY <1>2, <3>1, <3>2, FreshRevision
  <2>5. Continues(changes)
    <3>1. \A c \in changes : c.revision = NextRevision(c.record)
      BY <1>7, <1>8, <1>11, <1>16, <2>3, <2>4
    <3> QED
      BY <3>1 DEF Continues, NextRevision
  <2>6. ASSUME NEW r \in RecordIds, r[1] \in Revisioned
        PROVE  Carries(r, changes)
    <3>1. CASE r = QuotaId(record) /\ late
      <4>1. RowOf(r)' = RowOf(r)
        BY <1>1, <1>9, <1>12, <1>21, <3>1 DEF Committed
      <4>2. \A c \in changes : c.record # r
        BY <1>7, <1>8, <1>14, <1>16, <3>1
      <4> QED
        BY <4>1, <4>2, KeptCarries
    <3>2. CASE r = QuotaId(record) /\ ~late
      <4>1. RowOf(r)' = new
        BY <1>1, <1>9, <1>12, <1>21, <3>2 DEF Committed
      <4>2. (\E c \in changes : c.record = r) <=> current # {}
        BY <1>7, <1>8, <1>11, <1>14, <1>16, <3>2
      <4> QED
        BY <1>10, <2>3, <3>2, <4>1, <4>2 DEF Carries
    <3>3. CASE \E k \in Quotas : k # record /\ r = QuotaId(k)
      <4>1. PICK k \in Quotas : k # record /\ r = QuotaId(k)
        BY <3>3
      <4>2. RowOf(r)' = RowOf(r)
        BY <1>1, <1>9, <1>12, <1>21, <4>1 DEF Committed
      <4>3. \A c \in changes : c.record # r
        BY <1>7, <1>8, <1>11, <1>14, <1>16, <4>1
      <4> QED
        BY <4>2, <4>3, KeptCarries
    <3>4. CASE \A k \in Quotas : r # QuotaId(k)
      <4>1. RowOf(r)' = RowOf(r)
        BY <1>15, <2>6, <3>4, RevisionedKinds, RowsStay
      <4>2. \A c \in changes : c.record # r
        BY <1>7, <1>8, <1>11, <1>16, <1>19, <2>6, <3>4
      <4> QED
        BY <4>1, <4>2, KeptCarries
    <3> QED
      BY <3>1, <3>2, <3>3, <3>4
  <2>7. SnapshotsPublished(changes)
    <3>1. snapshot' = entries
      BY <1>1, <1>21 DEF Committed
    <3>2. history # {} => \E c \in changes : c.record = SnapshotId(n)
      BY <1>7, <1>8, <1>16
    <3> QED
      BY <1>13, <3>1, <3>2 DEF SnapshotsPublished
  <2> QED
    BY <2>5, <2>6, <2>7
<1> QED
  BY <1>1, <1>18, <1>20, <1>21, CarryStep

-----------------------------------------------------------------------------
(* Retention.  A snapshot's tombstone is revision 2, and it is published.  *)
LEMMA PurgeCarry ==
    ASSUME TypeOK, TypeOK', CarryInv, NEW day, NEW time, PurgeBefore(day, time)
    PROVE  CarryInv'
<1> DEFINE changes  == PurgeChanges(day, time)
           position == [c \in changes |-> PurgePosition(c)]
           costs    == Expired(cost, day)
           usages   == Expired(usage, day)
           entries  == ExpiredSnapshots(time)
<1>1. /\ Commit(changes, position)
      /\ usage' = Committed(Without(usage, usages), usage)
      /\ coverage' = Committed(Without(coverage, Expired(coverage, day)), coverage)
      /\ cost' = Committed(Without(cost, costs), cost)
      /\ costCoverage' = Committed(Without(costCoverage, Expired(costCoverage, day)), costCoverage)
      /\ snapshot' = Committed(Without(snapshot, entries), snapshot)
      /\ UNCHANGED <<sourceStatus, instance, balance, quota>>
  BY DEF PurgeBefore
<1>2. /\ changeLog \in Seq(Changes)
      /\ usage \in [UsageKeys -> UsageRows \cup {None}]
      /\ cost \in [CostKeys -> CostRows \cup {None}]
      /\ snapshot \in [SnapshotIds -> SnapshotRows \cup {None}]
  BY DEF TypeOK, DailyTypeOK, CurrentTypeOK
<1>3. /\ Transaction(changes, position)
      /\ \A c \in changes :
            \/ \E k \in costs : c.record = CostId(k)
            \/ \E k \in Expired(costCoverage, day) : c.record = CostCoverageId(k)
            \/ \E k \in usages : c.record = UsageId(k)
            \/ \E k \in Expired(coverage, day) : c.record = CoverageId(k)
            \/ \E k \in entries : c.record = SnapshotId(k)
  BY PurgeChangesTyped
<1>4. /\ Without(usage, usages) \in [UsageKeys -> UsageRows \cup {None}]
      /\ \A k \in UsageKeys :
            Without(usage, usages)[k] = IF k \in usages THEN None ELSE usage[k]
  BY <1>2 DEF Without
<1>5. /\ Without(cost, costs) \in [CostKeys -> CostRows \cup {None}]
      /\ \A k \in CostKeys : Without(cost, costs)[k] = IF k \in costs THEN None ELSE cost[k]
  BY <1>2 DEF Without
<1>6. \A k \in SnapshotIds : Without(snapshot, entries)[k] # None => snapshot[k] # None
  BY <1>2 DEF Without
<1>7. \A c \in changes : \/ \E r : c = Tombstone(r)
                         \/ \E k \in entries : c = Change(SnapshotId(k), 2, "delete", None)
  BY DEF PurgeChanges
<1>8. \A k \in entries : k \in SnapshotIds /\ snapshot[k] # None
  BY DEF ExpiredSnapshots
<1> HIDE DEF changes, position, costs, usages, entries
<1>9. raised' => \A record \in RecordIds : RowOf(record)' = RowOf(record)
  <2> SUFFICES ASSUME raised' PROVE Still
    BY StillRows
  <2> QED
    BY <1>1 DEF Still, Committed
<1>10. ASSUME ~raised'
       PROVE  Continues(changes)
  <2>1. \A c \in changes : c.revision \notin RevisionsOf(c.record)
    BY <1>1, <1>10, Accepted
  <2>2. RevisionsContinue
    BY DEF CarryInv, RowsCarryLatestRevision
  <2>3. ASSUME NEW c \in changes PROVE c.revision = NextRevision(c.record)
    <3>1. CASE \E r : c = Tombstone(r)
      BY <3>1, ChangeFields DEF Tombstone
    <3>2. CASE \E k \in entries : c = Change(SnapshotId(k), 2, "delete", None)
      <4>1. PICK k \in entries : c = Change(SnapshotId(k), 2, "delete", None)
        BY <3>2
      <4>2. c.record = SnapshotId(k) /\ c.revision = 2
        BY <4>1, ChangeFields
      <4>3. PICK m \in RevisionsOf(SnapshotId(k)) : TRUE
        BY <1>8 DEF CarryInv
      <4>4. m \in Nat \ {0}
        <5>1. PICK i \in 1..Len(changeLog) : changeLog[i].revision = m
          BY DEF RevisionsOf, ChangesOf
        <5>2. changeLog[i] \in Changes
          BY <1>2
        <5> QED
          BY <5>1, <5>2 DEF Changes
      <4>5. 1 \in 1..m
        BY <4>4
      <4>6. 1 \in RevisionsOf(SnapshotId(k))
        BY <1>2, <2>2, <4>5, RevisionsFill
      <4>7. 2 \notin RevisionsOf(SnapshotId(k)) /\ 2 - 1 = 1 /\ 2 \in Nat \ {0}
        BY <2>1, <4>2
      <4>8. 2 = NextRevision(SnapshotId(k))
        BY <1>2, <2>2, <4>6, <4>7, FreshRevision
      <4> QED
        BY <4>2, <4>8
    <3> QED
      BY <1>7, <3>1, <3>2
  <2> QED
    BY <2>3 DEF Continues, NextRevision
<1>11. \A k, l : /\ CostId(k) = CostId(l) => k = l
                 /\ UsageId(k) = UsageId(l) => k = l
                 /\ UsageId(k) \notin {CoverageId(l), CostId(l), CostCoverageId(l), SnapshotId(l)}
                 /\ CostId(k) \notin {CoverageId(l), CostCoverageId(l), SnapshotId(l)}
  <2>1. \A k, l : /\ CostId(k) = CostId(l) => k = l
                  /\ UsageId(k) = UsageId(l) => k = l
                  /\ UsageId(k) \notin {CoverageId(l), CostId(l), CostCoverageId(l), SnapshotId(l)}
    BY IdsDiffer
  <2>2. \A k, l : CostId(k) \notin {CoverageId(l), CostCoverageId(l), SnapshotId(l)}
    BY DEF CostId, CoverageId, CostCoverageId, SnapshotId, RecordId
  <2> QED
    BY <2>1, <2>2
<1>12. ASSUME ~raised', NEW r \in RecordIds, r[1] \in Revisioned
       PROVE  Carries(r, changes)
  <2>1. CASE \E k \in CostKeys : r = CostId(k)
    <3>1. PICK k \in CostKeys : r = CostId(k)
      BY <2>1
    <3>2. RowOf(r) = cost[k] /\ RowOf(r)' = cost'[k]
      BY <3>1, StoredRows
    <3>3. CASE k \in costs
      <4>1. RowOf(r)' = None
        BY <1>1, <1>5, <1>12, <3>2, <3>3 DEF Committed
      <4> QED
        BY <4>1 DEF Carries
    <3>4. CASE k \notin costs
      <4>1. RowOf(r)' = RowOf(r)
        BY <1>1, <1>5, <1>12, <3>2, <3>4 DEF Committed
      <4>2. \A c \in changes : c.record # r
        BY <1>3, <1>11, <3>1, <3>4
      <4> QED
        BY <4>1, <4>2, KeptCarries
    <3> QED
      BY <3>3, <3>4
  <2>2. CASE \E k \in UsageKeys : r = UsageId(k)
    <3>1. PICK k \in UsageKeys : r = UsageId(k)
      BY <2>2
    <3>2. RowOf(r) = usage[k] /\ RowOf(r)' = usage'[k]
      BY <3>1, StoredRows
    <3>3. CASE k \in usages
      <4>1. RowOf(r)' = None
        BY <1>1, <1>4, <1>12, <3>2, <3>3 DEF Committed
      <4> QED
        BY <4>1 DEF Carries
    <3>4. CASE k \notin usages
      <4>1. RowOf(r)' = RowOf(r)
        BY <1>1, <1>4, <1>12, <3>2, <3>4 DEF Committed
      <4>2. \A c \in changes : c.record # r
        BY <1>3, <1>11, <3>1, <3>4
      <4> QED
        BY <4>1, <4>2, KeptCarries
    <3> QED
      BY <3>3, <3>4
  <2>3. CASE (\A k \in CostKeys : r # CostId(k)) /\ (\A k \in UsageKeys : r # UsageId(k))
    <3>1. RowOf(r)' = RowOf(r)
      BY <1>1, <1>12, <2>3, RevisionedKinds, RowsStay
    <3>2. costs \subseteq CostKeys /\ usages \subseteq UsageKeys
      BY <1>2 DEF costs, usages, Expired
    <3>3. \A k : r # CostCoverageId(k) /\ r # CoverageId(k) /\ r # SnapshotId(k)
      BY <1>12 DEF Revisioned, CostCoverageId, CoverageId, SnapshotId, RecordId
    <3>4. \A c \in changes : c.record # r
      BY <1>3, <2>3, <3>2, <3>3
    <3> QED
      BY <3>1, <3>4, KeptCarries
  <2> QED
    BY <2>1, <2>2, <2>3
<1>13. ~raised' => SnapshotsPublished(changes)
  BY <1>1, <1>6 DEF SnapshotsPublished, Committed
<1> QED
  BY <1>1, <1>3, <1>9, <1>10, <1>12, <1>13, CarryStep

-----------------------------------------------------------------------------
(* Every step.                                                             *)
LEMMA DailyNextCarry ==
    ASSUME TypeOK, TypeOK', CarryInv, DailyNext, UNCHANGED currentVars
    PROVE  CarryInv'
<1>1. CASE UsageImports /\ UNCHANGED costVars
  <2>1. PICK provider \in Providers, source \in UsageSources, range \in Ranges,
             t \in Times, revision \in Contracts \cup {None} :
           \E rows \in [InRange(UsageKeys, provider, range) -> Values \cup {None}] :
              CommitUsageImport(provider, source, range, rows, t, revision)
    BY <1>1 DEF UsageImports
  <2>2. PICK rows \in [InRange(UsageKeys, provider, range) -> Values \cup {None}] :
           CommitUsageImport(provider, source, range, rows, t, revision)
    BY <2>1
  <2>3. range \in SUBSET Days
    BY RangesAreDays
  <2> QED
    BY <1>1, <2>2, <2>3, UsageImportCarry
<1>2. CASE CostImports /\ UNCHANGED usageVars
  <2>1. PICK provider \in Providers, source \in CostSources, range \in Ranges, t \in Times :
           \E rows \in [InRange(CostKeys, provider, range) -> Values \cup {None}] :
              CommitCostImport(provider, source, range, rows, t)
    BY <1>2 DEF CostImports
  <2>2. PICK rows \in [InRange(CostKeys, provider, range) -> Values \cup {None}] :
           CommitCostImport(provider, source, range, rows, t)
    BY <2>1
  <2>3. range \in SUBSET Days
    BY RangesAreDays
  <2> QED
    BY <1>2, <2>2, <2>3, CostImportCarry
<1> QED
  BY <1>1, <1>2 DEF DailyNext

LEMMA CurrentNextCarry ==
    ASSUME TypeOK, TypeOK', CarryInv, CurrentNext, UNCHANGED <<sourceStatus, dailyVars>>
    PROVE  CarryInv'
<1>1. ASSUME NEW provider \in Providers, NEW facts \in Instances,
             UpsertProviderInstance(provider, facts)
      PROVE  CarryInv'
  BY <1>1, UpsertCarry
<1>2. ASSUME NEW facts \in Facts, NEW t \in ObservationTimes, NEW record \in Balances,
             RecordBalance(record, facts, t)
      PROVE  CarryInv'
  BY <1>2, RecordBalanceCarry
<1>3. ASSUME NEW facts \in Facts, NEW t \in ObservationTimes, NEW record \in Quotas,
             RecordQuota(record, facts, t)
      PROVE  CarryInv'
  BY <1>3, RecordQuotaCarry
<1>4. ASSUME NEW provider, NEW source, NEW t, MarkBalanceSourceStale(provider, source, t)
      PROVE  CarryInv'
  BY <1>4, MarkBalanceCarry
<1>5. ASSUME NEW provider, NEW source, NEW t, MarkQuotaSourceStale(provider, source, t)
      PROVE  CarryInv'
  BY <1>5, MarkQuotaCarry
<1> QED
  BY <1>1, <1>2, <1>3, <1>4, <1>5 DEF CurrentNext

LEMMA NextCarry ==
    ASSUME TypeOK, TypeOK', CarryInv, [Next]_vars
    PROVE  CarryInv'
<1>1. CASE StatusNext /\ UNCHANGED <<dailyVars, currentVars>>
  BY <1>1, StatusNextCarry
<1>2. CASE DailyNext /\ UNCHANGED currentVars
  BY <1>2, DailyNextCarry
<1>3. CASE CurrentNext /\ UNCHANGED <<sourceStatus, dailyVars>>
  BY <1>3, CurrentNextCarry
<1>4. CASE Retention
  BY <1>4, PurgeCarry DEF Retention
<1>5. CASE UNCHANGED vars
  <2>1. changeLog' = changeLog /\ Still
    BY <1>5 DEF vars, feedVars, dailyVars, usageVars, costVars, currentVars, Still
  <2> QED
    BY <2>1, StillRows, CarryIdle
<1> QED
  BY <1>1, <1>2, <1>3, <1>4, <1>5 DEF Next

LEMMA InitCarries ==
    ASSUME Init
    PROVE  CarryInv
<1>1. changeLog = << >> /\ Len(changeLog) = 0
  BY DEF Init
<1>2. RevisionsContinue
  BY <1>1 DEF RevisionsContinue
<1>3. /\ \A key \in StatusKeys : sourceStatus[key] = None
      /\ \A key \in UsageKeys : usage[key] = None
      /\ \A key \in CostKeys : cost[key] = None
      /\ \A key \in Providers : instance[key] = None
      /\ \A key \in Balances : balance[key] = None
      /\ \A key \in Quotas : quota[key] = None
      /\ \A key \in SnapshotIds : snapshot[key] = None
  BY DEF Init, StatusInit, DailyInit, CurrentInit
<1>4. \A record \in RecordIds : record[1] \in Revisioned => RowOf(record) = None
  BY <1>3, RevisionedKinds, StoredRows
<1> QED
  BY <1>2, <1>3, <1>4 DEF CarryInv, RowsCarryLatestRevision

(* The revisions of every record count its changes without a gap, across   *)
(* deletion and re-insertion, although the store numbers some changes from *)
(* the log and some from the row it is about to replace; and every row     *)
(* carries the revision its last change was published with.                *)
THEOREM RevisionsAreCarried == Spec => []RowsCarryLatestRevision
<1>1. Init => CarryInv
  BY InitCarries
<1>2. TypeOK /\ TypeOK' /\ CarryInv /\ [Next]_vars => CarryInv'
  BY NextCarry
<1>3. CarryInv => RowsCarryLatestRevision
  BY DEF CarryInv
<1> QED
  BY <1>1, <1>2, <1>3, TypeCorrect, PTL DEF Spec

-----------------------------------------------------------------------------
(* The history of quotas.  What is in the history table was published with *)
(* it, and is of a quota whose row is at least as new: so a row that needs *)
(* no new entry still has a published one that is not an hour old.         *)
EntryPublished ==
    \A n \in SnapshotIds :
        snapshot[n] # None =>
            \E j \in SnapshotChangesOf(snapshot[n].payload.record) :
                changeLog[j].payload = snapshot[n].payload

EntryBehind ==
    \A n \in SnapshotIds :
        snapshot[n] # None =>
            LET row == quota[snapshot[n].payload.record]
            IN  row # None /\ snapshot[n].payload.observedAt <= row.observedAt

HistoryInv == EntryPublished /\ EntryBehind /\ HistoryKeepsUp

(* A step that keeps the log and adds some of these changes.               *)
Grows(changes) ==
    /\ Len(changeLog) \in Nat /\ Len(changeLog') \in Nat
    /\ Len(changeLog) <= Len(changeLog')
    /\ \A i \in 1..Len(changeLog) : changeLog'[i] = changeLog[i]
    /\ \A i \in (Len(changeLog) + 1)..Len(changeLog') : changeLog'[i] \in changes

(* A transaction grows the log, whether it commits or not.                 *)
LEMMA LogGrows ==
    ASSUME TypeOK, NEW changes, NEW position,
           Transaction(changes, position), Commit(changes, position)
    PROVE  Grows(changes) /\ (~raised' => Appends(changes))
<1>1. changeLog \in Seq(Changes)
  BY DEF TypeOK
<1>2. CASE raised'
  <2>1. changeLog' = changeLog
    BY <1>2 DEF Commit, RollBack
  <2>2. Len(changeLog) \in Nat
    BY <1>1, LenProperties
  <2> QED
    BY <1>2, <2>1, <2>2 DEF Grows
<1>3. CASE ~raised'
  <2>1. Sortable(changes, position) /\ changes \in SUBSET Changes
    BY TransactionSortable DEF Transaction
  <2>2. Appends(changes)
    BY <1>1, <1>3, <2>1, CommitAppends
  <2> QED
    BY <2>2 DEF Appends, Grows
<1> QED
  BY <1>2, <1>3

(* A step that publishes nothing grows it by nothing.                      *)
LEMMA IdleGrows ==
    ASSUME TypeOK, changeLog' = changeLog
    PROVE  Grows({})
<1>1. Len(changeLog) \in Nat
  BY LenProperties DEF TypeOK
<1> QED
  BY <1>1 DEF Grows

(* The history that was published stays published.                         *)
LEMMA PublishedStays ==
    ASSUME NEW changes, Grows(changes), NEW record
    PROVE  \A j \in SnapshotChangesOf(record) :
              j \in SnapshotChangesOf(record)' /\ changeLog'[j] = changeLog[j]
BY DEF Grows, SnapshotChangesOf

(* What a quota publishes stays in the history if the step publishes no    *)
(* live value of it, and its observations if no later one is taken.        *)
LiveQuotas(changes) ==
    {c \in changes : (\E k \in Quotas : c.record = QuotaId(k)) /\ ~c.payload.stale}

(* The first half of the property where no live value is published.        *)
LEMMA LivePublished ==
    ASSUME HistoryInv, NEW changes, Grows(changes), NEW record \in Quotas,
           \A c \in LiveQuotas(changes) : c.record # QuotaId(record)
    PROVE  \A i \in ChangesOf(QuotaId(record))' :
              ~changeLog'[i].payload.stale =>
                  \E j \in SnapshotChangesOf(record)' :
                      j < i /\ changeLog'[j].payload.facts = changeLog'[i].payload
<1> TAKE i \in ChangesOf(QuotaId(record))'
<1> HAVE ~changeLog'[i].payload.stale
<1>1. i \in 1..Len(changeLog') /\ changeLog'[i].record = QuotaId(record)
  BY DEF ChangesOf
<1>2. i \notin (Len(changeLog) + 1)..Len(changeLog')
  BY <1>1 DEF Grows, LiveQuotas
<1>3. i \in 1..Len(changeLog)
  BY <1>1, <1>2 DEF Grows
<1>4. i \in ChangesOf(QuotaId(record)) /\ changeLog'[i] = changeLog[i]
  BY <1>1, <1>3 DEF Grows, ChangesOf
<1>5. PICK j \in SnapshotChangesOf(record) :
         j < i /\ changeLog[j].payload.facts = changeLog[i].payload
  BY <1>4 DEF HistoryInv, HistoryKeepsUp
<1> QED
  BY <1>4, <1>5, PublishedStays

ObservedSame(record) ==
    quota[record] # None =>
        quota'[record] # None /\ quota'[record].observedAt = quota[record].observedAt

(* A quiet step that keeps the times of the rows and adds no entry.        *)
LEMMA HistoryStays ==
    ASSUME TypeOK, HistoryInv, NEW changes, Grows(changes), LiveQuotas(changes) = {},
           \A record \in Quotas : ObservedSame(record),
           \A record \in Quotas : quota[record] = None => quota'[record] = None,
           \A n \in SnapshotIds : snapshot'[n] # None => snapshot'[n] = snapshot[n]
    PROVE  HistoryInv'
<1>1. snapshot \in [SnapshotIds -> SnapshotRows \cup {None}]
  BY DEF TypeOK, CurrentTypeOK
<1>2. EntryPublished'
  <2> SUFFICES ASSUME NEW n \in SnapshotIds, snapshot'[n] # None
               PROVE  (\E j \in SnapshotChangesOf(snapshot[n].payload.record) :
                          changeLog[j].payload = snapshot[n].payload)'
    BY DEF EntryPublished
  <2>1. snapshot'[n] = snapshot[n]
    OBVIOUS
  <2>2. PICK record \in Quotas : snapshot[n].payload.record = record
    BY <1>1, <2>1 DEF SnapshotRows, SnapshotFacts
  <2>3. PICK j \in SnapshotChangesOf(record) : changeLog[j].payload = snapshot[n].payload
    BY <2>1, <2>2 DEF HistoryInv, EntryPublished
  <2>4. j \in SnapshotChangesOf(record)' /\ changeLog'[j].payload = snapshot'[n].payload
    BY <2>1, <2>3, PublishedStays
  <2> QED
    BY <2>1, <2>2, <2>4 DEF SnapshotChangesOf
<1>3. EntryBehind'
  <2> SUFFICES ASSUME NEW n \in SnapshotIds, snapshot'[n] # None
               PROVE  /\ quota'[snapshot'[n].payload.record] # None
                      /\ snapshot'[n].payload.observedAt
                            <= quota'[snapshot'[n].payload.record].observedAt
    BY DEF EntryBehind
  <2>1. snapshot'[n] = snapshot[n] /\ snapshot[n].payload.record \in Quotas
    BY <1>1 DEF SnapshotRows, SnapshotFacts
  <2> QED
    BY <2>1 DEF HistoryInv, EntryBehind, ObservedSame
<1>4. HistoryKeepsUp'
  <2> SUFFICES ASSUME NEW record \in Quotas
               PROVE  /\ \A i \in ChangesOf(QuotaId(record))' :
                            ~changeLog'[i].payload.stale =>
                                \E j \in SnapshotChangesOf(record)' :
                                    j < i /\ changeLog'[j].payload.facts = changeLog'[i].payload
                      /\ quota'[record] # None =>
                            \E j \in SnapshotChangesOf(record)' :
                                /\ changeLog'[j].payload.observedAt <= quota'[record].observedAt
                                /\ quota'[record].observedAt - changeLog'[j].payload.observedAt
                                      < Heartbeat
    BY DEF HistoryKeepsUp
  <2>1. \A i \in ChangesOf(QuotaId(record))' :
           ~changeLog'[i].payload.stale =>
               \E j \in SnapshotChangesOf(record)' :
                   j < i /\ changeLog'[j].payload.facts = changeLog'[i].payload
    BY LivePublished
  <2>2. ASSUME quota'[record] # None
        PROVE  \E j \in SnapshotChangesOf(record)' :
                  /\ changeLog'[j].payload.observedAt <= quota'[record].observedAt
                  /\ quota'[record].observedAt - changeLog'[j].payload.observedAt < Heartbeat
    <3>1. quota[record] # None /\ quota'[record].observedAt = quota[record].observedAt
      BY <2>2 DEF ObservedSame
    <3>2. PICK j \in SnapshotChangesOf(record) :
             /\ changeLog[j].payload.observedAt <= quota[record].observedAt
             /\ quota[record].observedAt - changeLog[j].payload.observedAt < Heartbeat
      BY <3>1 DEF HistoryInv, HistoryKeepsUp
    <3> QED
      BY <3>1, <3>2, PublishedStays
  <2> QED
    BY <2>1, <2>2
<1> QED
  BY <1>2, <1>3, <1>4 DEF HistoryInv


(* Every writer but that of quotas leaves what they published alone.       *)
Quiet == \E changes : Grows(changes) /\ LiveQuotas(changes) = {}

(* A transaction about no quota is quiet.                                  *)
LEMMA QuietCommit ==
    ASSUME TypeOK, NEW changes, NEW position,
           Transaction(changes, position), Commit(changes, position),
           \A c \in changes : \A k : c.record # QuotaId(k)
    PROVE  Quiet
<1>1. Grows(changes)
  BY LogGrows
<1>2. LiveQuotas(changes) = {}
  BY DEF LiveQuotas
<1> QED
  BY <1>1, <1>2 DEF Quiet

LEMMA QuietIdle ==
    ASSUME TypeOK, changeLog' = changeLog
    PROVE  Quiet
BY IdleGrows DEF Quiet, LiveQuotas

(* And those of current facts publish no health.                           *)
Unstated == \E changes : Grows(changes) /\ \A c \in changes : \A k : c.record # StatusId(k)

LEMMA UnstatedCommit ==
    ASSUME TypeOK, NEW changes, NEW position,
           Transaction(changes, position), Commit(changes, position),
           \A c \in changes : \A k : c.record # StatusId(k)
    PROVE  Unstated
BY LogGrows DEF Unstated

LEMMA UnstatedIdle ==
    ASSUME TypeOK, changeLog' = changeLog
    PROVE  Unstated
BY IdleGrows DEF Unstated

(* A report or an import publishes the health of its own source at most.   *)
StatesOnly(key) ==
    \E changes : Grows(changes) /\ \A c \in changes : \A k : c.record = StatusId(k) => k = key

LEMMA StatesCommit ==
    ASSUME TypeOK, NEW changes, NEW position, NEW key,
           Transaction(changes, position), Commit(changes, position),
           \A c \in changes : \A k : c.record = StatusId(k) => k = key
    PROVE  StatesOnly(key)
BY LogGrows DEF StatesOnly

LEMMA StatesIdle ==
    ASSUME TypeOK, NEW key, changeLog' = changeLog
    PROVE  StatesOnly(key)
BY IdleGrows DEF StatesOnly

(* Health, imports, retention, instances and balances are quiet.           *)
LEMMA StatusQuiet ==
    ASSUME TypeOK, NEW key \in StatusKeys, NEW facts \in StatusFacts,
           Commit(StatusChanges(key, facts), AtOnce(StatusChanges(key, facts)))
    PROVE  Quiet /\ StatesOnly(key)
<1> DEFINE changes == StatusChanges(key, facts)
<1>1. /\ changes \in SUBSET Changes
      /\ OnePerRecord(changes)
      /\ \A c \in changes : c.record = StatusId(key)
  BY StatusChangesTyped DEF TypeOK
<1>2. Transaction(changes, AtOnce(changes))
  BY <1>1, AtOnceTransaction
<1>3. \A k : StatusId(key) # QuotaId(k) /\ (StatusId(key) = StatusId(k) => k = key)
  BY IdsDiffer
<1> HIDE DEF changes
<1>4. \A c \in changes : \A k : c.record # QuotaId(k) /\ (c.record = StatusId(k) => k = key)
  BY <1>1, <1>3
<1> QED
  BY <1>2, <1>4, QuietCommit, StatesCommit DEF changes

LEMMA DeleteQuiet ==
    ASSUME TypeOK, NEW key \in StatusKeys, NEW t, DeleteSourceStatus(key, t)
    PROVE  Quiet /\ StatesOnly(key)
<1> DEFINE changes == StatusTombstones(key, t)
           tombstone == Change(StatusId(key), sourceStatus[key].revision + 1, "delete", None)
<1>1. Commit(changes, AtOnce(changes))
  BY DEF DeleteSourceStatus
<1>2. changes = {} \/ (sourceStatus[key] # None /\ changes = {tombstone})
  BY DEF StatusTombstones
<1>3. sourceStatus[key] # None => tombstone \in Changes
  <2>1. sourceStatus[key] # None => sourceStatus[key].revision \in Nat \ {0}
    BY DEF TypeOK, StatusTypeOK, StatusRows
  <2>2. sourceStatus[key] # None => sourceStatus[key].revision + 1 \in Nat \ {0}
    BY <2>1
  <2>3. StatusId(key) \in RecordIds /\ None \in Payloads /\ "delete" \in Operations
    BY DEF RecordIds, Payloads, Operations
  <2> QED
    BY <2>2, <2>3, ChangeTyped
<1>4. \A k : tombstone.record # QuotaId(k) /\ (tombstone.record = StatusId(k) => k = key)
  BY ChangeFields, IdsDiffer
<1> HIDE DEF changes, tombstone
<1>5. Transaction(changes, AtOnce(changes))
  BY <1>2, <1>3, AtOnceTransaction DEF OnePerRecord
<1> QED
  BY <1>1, <1>2, <1>4, <1>5, QuietCommit, StatesCommit

LEMMA StatusNextQuiet ==
    ASSUME TypeOK, StatusNext
    PROVE  Quiet
<1>1. PICK key \in StatusKeys, t \in Times :
         \/ \E expected \in ExpectedBy(key[2]) :
               \/ RecordSourceSuccess(key, t, expected)
               \/ \E state \in StatesBy(key[2]) :
                     RecordSourceStatus(key, state, t, expected)
         \/ key[2] = CardSource /\ DeleteSourceStatus(key, t)
  BY DEF StatusNext
<1>2. StatusTypeOK
  BY DEF TypeOK
<1>3. ASSUME NEW expected, RecordSourceSuccess(key, t, expected)
      PROVE  Quiet
  <2>1. AfterSuccess(key, t, expected) \in StatusFacts
    BY <1>2, SuccessTyped
  <2> QED
    BY <1>3, <2>1, StatusQuiet DEF RecordSourceSuccess
<1>4. ASSUME NEW expected, NEW state \in StatesBy(key[2]),
             RecordSourceStatus(key, state, t, expected)
      PROVE  Quiet
  <2>1. state \in Faults \cup {"stale"}
    BY DEF StatesBy
  <2>2. AfterOutcome(key, state, t, expected) \in StatusFacts
    BY <1>2, <2>1, OutcomeTyped
  <2> QED
    BY <1>4, <2>2, StatusQuiet DEF RecordSourceStatus
<1>5. CASE DeleteSourceStatus(key, t)
  BY <1>5, DeleteQuiet
<1> QED
  BY <1>1, <1>3, <1>4, <1>5

LEMMA UsageImportQuiet ==
    ASSUME TypeOK, NEW provider \in Providers, NEW source \in UsageSources,
           NEW range \in SUBSET Days, NEW t \in Times, NEW revision,
           NEW rows \in [InRange(UsageKeys, provider, range) -> Values \cup {None}],
           CommitUsageImport(provider, source, range, rows, t, revision)
    PROVE  Quiet /\ StatesOnly(<<provider, source>>)
<1> DEFINE status == <<provider, source>>
           facts  == AfterSuccess(status, t, None)
           usages == UsageChanges(rows, InRange(DayKeys, provider, range), source)
           health == StatusChanges(status, facts)
           changes == usages \cup health
<1>1. CASE HasNewerAttempt(status, t)
  BY <1>1, QuietIdle, StatesIdle DEF CommitUsageImport, NothingPublished
<1>2. CASE ~HasNewerAttempt(status, t)
  <2>1. Commit(changes, InImportOrder(changes))
    BY <1>2 DEF CommitUsageImport
  <2>2. status \in StatusKeys /\ StatusTypeOK
    BY DEF StatusKeys, Sources, TypeOK
  <2>3. facts \in StatusFacts
    BY <2>2, SuccessTyped
  <2>4. /\ health \subseteq Changes
        /\ OnePerRecord(health)
        /\ \A c \in health : c.record = StatusId(status)
    BY <2>2, <2>3, StatusChangesTyped
  <2>5. /\ usages \subseteq Changes
        /\ OnePerRecord(usages)
        /\ \A c \in usages : \/ \E k \in UsageKeys : c.record = UsageId(k)
                             \/ \E k \in DayKeys : c.record = CoverageId(k)
    BY UsageChangesTyped
  <2>6. \A k, l : /\ StatusId(k) # UsageId(l) /\ StatusId(k) # CoverageId(l)
                  /\ StatusId(k) # QuotaId(l) /\ UsageId(k) # QuotaId(l)
                  /\ CoverageId(k) # QuotaId(l)
                  /\ StatusId(k) = StatusId(l) => k = l
    BY IdsDiffer
  <2> HIDE DEF facts, usages, health, status
  <2>7. changes \subseteq Changes /\ OnePerRecord(changes)
    BY <2>4, <2>5, <2>6 DEF OnePerRecord
  <2>8. \A c \in changes :
           /\ ImportPosition(c) \in Nat
           /\ \A k : c.record # QuotaId(k) /\ (c.record = StatusId(k) => k = status)
    BY <2>2, <2>4, <2>5, <2>6, ImportPositionTyped
  <2>9. Transaction(changes, InImportOrder(changes))
    BY <2>7, <2>8 DEF Transaction, InImportOrder
  <2> QED
    BY <2>1, <2>8, <2>9, QuietCommit, StatesCommit DEF status
<1> QED
  BY <1>1, <1>2

LEMMA CostImportQuiet ==
    ASSUME TypeOK, NEW provider \in Providers, NEW source \in CostSources,
           NEW range \in SUBSET Days, NEW t \in Times,
           NEW rows \in [InRange(CostKeys, provider, range) -> Values \cup {None}],
           CommitCostImport(provider, source, range, rows, t)
    PROVE  Quiet /\ StatesOnly(<<provider, source>>)
<1> DEFINE status == <<provider, source>>
           facts  == AfterSuccess(status, t, None)
           costs  == CostChanges(rows, InRange(DayKeys, provider, range))
           health == StatusChanges(status, facts)
           changes == costs \cup health
<1>1. CASE HasNewerAttempt(status, t)
  BY <1>1, QuietIdle, StatesIdle DEF CommitCostImport, NothingPublished
<1>2. CASE ~HasNewerAttempt(status, t)
  <2>1. Commit(changes, InImportOrder(changes))
    BY <1>2 DEF CommitCostImport
  <2>2. status \in StatusKeys /\ StatusTypeOK
    BY DEF StatusKeys, Sources, TypeOK
  <2>3. facts \in StatusFacts
    BY <2>2, SuccessTyped
  <2>4. /\ health \subseteq Changes
        /\ OnePerRecord(health)
        /\ \A c \in health : c.record = StatusId(status)
    BY <2>2, <2>3, StatusChangesTyped
  <2>5. /\ costs \subseteq Changes
        /\ OnePerRecord(costs)
        /\ \A c \in costs : \/ \E k \in CostKeys : c.record = CostId(k)
                            \/ \E k \in DayKeys : c.record = CostCoverageId(k)
    BY CostChangesTyped
  <2>6. \A k, l : /\ StatusId(k) # CostId(l) /\ StatusId(k) # CostCoverageId(l)
                  /\ StatusId(k) # QuotaId(l) /\ CostId(k) # QuotaId(l)
                  /\ CostCoverageId(k) # QuotaId(l)
                  /\ StatusId(k) = StatusId(l) => k = l
    BY IdsDiffer
  <2> HIDE DEF facts, costs, health, status
  <2>7. changes \subseteq Changes /\ OnePerRecord(changes)
    BY <2>4, <2>5, <2>6 DEF OnePerRecord
  <2>8. \A c \in changes :
           /\ ImportPosition(c) \in Nat
           /\ \A k : c.record # QuotaId(k) /\ (c.record = StatusId(k) => k = status)
    BY <2>2, <2>4, <2>5, <2>6, ImportPositionTyped
  <2>9. Transaction(changes, InImportOrder(changes))
    BY <2>7, <2>8 DEF Transaction, InImportOrder
  <2> QED
    BY <2>1, <2>8, <2>9, QuietCommit, StatesCommit DEF status
<1> QED
  BY <1>1, <1>2

LEMMA DailyNextQuiet ==
    ASSUME TypeOK, DailyNext
    PROVE  Quiet
<1>1. CASE UsageImports
  <2>1. PICK provider \in Providers, source \in UsageSources, range \in Ranges,
             t \in Times, revision \in Contracts \cup {None} :
           \E rows \in [InRange(UsageKeys, provider, range) -> Values \cup {None}] :
              CommitUsageImport(provider, source, range, rows, t, revision)
    BY <1>1 DEF UsageImports
  <2>2. range \in SUBSET Days
    BY RangesAreDays
  <2> QED
    BY <2>1, <2>2, UsageImportQuiet
<1>2. CASE CostImports
  <2>1. PICK provider \in Providers, source \in CostSources, range \in Ranges, t \in Times :
           \E rows \in [InRange(CostKeys, provider, range) -> Values \cup {None}] :
              CommitCostImport(provider, source, range, rows, t)
    BY <1>2 DEF CostImports
  <2>2. range \in SUBSET Days
    BY RangesAreDays
  <2> QED
    BY <2>1, <2>2, CostImportQuiet
<1> QED
  BY <1>1, <1>2 DEF DailyNext

LEMMA PurgeQuiet ==
    ASSUME TypeOK, NEW day, NEW time, PurgeBefore(day, time)
    PROVE  Quiet /\ Unstated
<1> DEFINE changes  == PurgeChanges(day, time)
           position == [c \in changes |-> PurgePosition(c)]
<1>1. Commit(changes, position)
  BY DEF PurgeBefore
<1>2. /\ Transaction(changes, position)
      /\ \A c \in changes :
            \E k : c.record \in {CostId(k), CostCoverageId(k), UsageId(k), CoverageId(k),
                                 SnapshotId(k)}
  BY PurgeChangesTyped
<1>3. \A k, l : {QuotaId(l), StatusId(l)}
                   \cap {CostId(k), CostCoverageId(k), UsageId(k), CoverageId(k), SnapshotId(k)} = {}
  BY IdsDiffer
<1> HIDE DEF changes, position
<1>4. \A c \in changes : \A k : c.record # QuotaId(k) /\ c.record # StatusId(k)
  BY <1>2, <1>3
<1> QED
  BY <1>1, <1>2, <1>4, QuietCommit, UnstatedCommit

LEMMA UpsertQuiet ==
    ASSUME TypeOK, NEW provider \in Providers, NEW facts \in Instances,
           UpsertProviderInstance(provider, facts)
    PROVE  Quiet /\ Unstated
<1> DEFINE revision == NextRevision(InstanceId(provider))
           change   == Change(InstanceId(provider), revision, "upsert", facts)
<1>1. CASE changeLog' = changeLog
  BY <1>1, QuietIdle, UnstatedIdle
<1>2. CASE Commit({change}, AtOnce({change}))
  <2>1. revision \in Nat \ {0}
    BY NextRevisionTyped DEF TypeOK
  <2>2. InstanceId(provider) \in RecordIds /\ facts \in Payloads /\ "upsert" \in Operations
    BY DEF RecordIds, Payloads, Operations
  <2>3. change \in Changes /\ change.record = InstanceId(provider)
    BY <2>1, <2>2, ChangeTyped, ChangeFields
  <2>4. \A k : InstanceId(provider) # QuotaId(k) /\ InstanceId(provider) # StatusId(k)
    BY IdsDiffer
  <2> HIDE DEF change
  <2>5. Transaction({change}, AtOnce({change}))
    BY <2>3, AtOnceTransaction DEF OnePerRecord
  <2> QED
    BY <1>2, <2>3, <2>4, <2>5, QuietCommit, UnstatedCommit
<1> QED
  BY <1>1, <1>2 DEF UpsertProviderInstance, RollBack, NothingPublished

LEMMA BalanceQuiet ==
    ASSUME TypeOK, NEW record \in Balances, NEW facts \in Facts, NEW t \in ObservationTimes,
           RecordBalance(record, facts, t)
    PROVE  Quiet /\ Unstated
<1> DEFINE row     == balance[record]
           changes == ObservationChanges(BalanceId(record), row, facts)
<1>1. CASE Older(row, t)
  BY <1>1, QuietIdle, UnstatedIdle DEF RecordBalance, NothingPublished
<1>2. CASE ~Older(row, t)
  <2>1. Commit(changes, AtOnce(changes))
    BY <1>2 DEF RecordBalance
  <2>2. row \in CurrentRows \cup {None} /\ BalanceId(record) \in RecordIds
    BY DEF TypeOK, CurrentTypeOK, RecordIds
  <2> HIDE DEF row
  <2>3. /\ changes \in SUBSET Changes
        /\ OnePerRecord(changes)
        /\ \A c \in changes : c.record = BalanceId(record)
    BY <2>2, ObservationTyped
  <2>4. \A k : BalanceId(record) # QuotaId(k) /\ BalanceId(record) # StatusId(k)
    BY IdsDiffer
  <2> HIDE DEF changes
  <2>5. Transaction(changes, AtOnce(changes))
    BY <2>3, AtOnceTransaction
  <2>6. \A c \in changes : \A k : c.record # QuotaId(k) /\ c.record # StatusId(k)
    BY <2>3, <2>4
  <2> QED
    BY <2>1, <2>5, <2>6, QuietCommit, UnstatedCommit
<1> QED
  BY <1>1, <1>2

LEMMA MarkBalanceQuiet ==
    ASSUME TypeOK, NEW provider, NEW source, NEW t, MarkBalanceSourceStale(provider, source, t)
    PROVE  Quiet /\ Unstated
<1> DEFINE marked  == LiveOf(balance, provider, source)
           changes == {StaleChange(BalanceId(record), balance[record]) : record \in marked}
<1>1. Commit(changes, AtOnce(changes))
  BY DEF MarkBalanceSourceStale
<1>2. ASSUME NEW k \in marked
      PROVE  /\ StaleChange(BalanceId(k), balance[k]) \in Changes
             /\ StaleChange(BalanceId(k), balance[k]).record = BalanceId(k)
  <2>1. k \in Balances /\ balance[k] \in CurrentRows
    BY DEF LiveOf, TypeOK, CurrentTypeOK
  <2>2. BalanceId(k) \in RecordIds
    BY <2>1 DEF RecordIds
  <2> QED
    BY <2>1, <2>2, StaledTyped
<1>3. \A k, l : /\ BalanceId(k) = BalanceId(l) => k = l
                /\ QuotaId(k) # BalanceId(l) /\ StatusId(k) # BalanceId(l)
  BY IdsDiffer
<1>4. \A c \in changes : \E k \in marked : c = StaleChange(BalanceId(k), balance[k])
  OBVIOUS
<1> HIDE DEF changes, marked
<1>5. changes \in SUBSET Changes /\ OnePerRecord(changes)
  BY <1>2, <1>3, <1>4 DEF OnePerRecord
<1>6. Transaction(changes, AtOnce(changes))
  BY <1>5, AtOnceTransaction
<1>7. \A c \in changes : \A k : c.record # QuotaId(k) /\ c.record # StatusId(k)
  BY <1>2, <1>3, <1>4
<1> QED
  BY <1>1, <1>6, <1>7, QuietCommit, UnstatedCommit

(* Quotas marked stale publish no live value and stay as old as they are.  *)
LEMMA MarkQuotaQuiet ==
    ASSUME TypeOK, NEW provider, NEW source, NEW t, MarkQuotaSourceStale(provider, source, t)
    PROVE  /\ Quiet /\ Unstated
           /\ \A record \in Quotas :
                 /\ ObservedSame(record)
                 /\ quota[record] = None => quota'[record] = None
<1> DEFINE marked  == {record \in LiveOf(quota, provider, source) : quota[record].observedAt <= t}
           changes == {StaleChange(QuotaId(record), quota[record]) : record \in marked}
           table   == [record \in Quotas |->
                          IF record \in marked THEN Staled(quota[record]) ELSE quota[record]]
<1>1. Commit(changes, AtOnce(changes)) /\ quota' = Committed(table, quota)
  BY DEF MarkQuotaSourceStale
<1>2. ASSUME NEW k \in marked
      PROVE  /\ k \in Quotas /\ quota[k] # None
             /\ StaleChange(QuotaId(k), quota[k]) \in Changes
             /\ StaleChange(QuotaId(k), quota[k]).record = QuotaId(k)
             /\ StaleChange(QuotaId(k), quota[k]).payload.stale
             /\ Staled(quota[k]) # None
             /\ Staled(quota[k]).observedAt = quota[k].observedAt
  <2>1. k \in Quotas /\ quota[k] # None /\ quota[k] \in CurrentRows
    BY DEF LiveOf, TypeOK, CurrentTypeOK
  <2>2. QuotaId(k) \in RecordIds
    BY <2>1 DEF RecordIds
  <2>3. StaleChange(QuotaId(k), quota[k]).payload = [quota[k].payload EXCEPT !.stale = TRUE]
    BY ChangeFields DEF StaleChange
  <2>4. quota[k].payload \in Facts
    BY <2>1 DEF CurrentRows
  <2>5. StaleChange(QuotaId(k), quota[k]).payload.stale = TRUE
    BY <2>3, <2>4 DEF Facts
  <2>6. Staled(quota[k]).observedAt = quota[k].observedAt
    BY <2>1 DEF Staled, CurrentRows
  <2> QED
    BY <2>1, <2>2, <2>5, <2>6, StaledTyped
<1>3. \A k, l : QuotaId(k) = QuotaId(l) => k = l
  BY IdsDiffer
<1>4. \A c \in changes : \E k \in marked : c = StaleChange(QuotaId(k), quota[k])
  OBVIOUS
<1>5. \A k \in Quotas : table[k] = IF k \in marked THEN Staled(quota[k]) ELSE quota[k]
  OBVIOUS
<1> HIDE DEF changes, marked, table
<1>6. changes \in SUBSET Changes /\ OnePerRecord(changes)
  BY <1>2, <1>3, <1>4 DEF OnePerRecord
<1>7. Transaction(changes, AtOnce(changes))
  BY <1>6, AtOnceTransaction
<1>8. LiveQuotas(changes) = {}
  BY <1>2, <1>4 DEF LiveQuotas
<1>9. Quiet /\ Unstated
  <2>1. \A k, l : StatusId(k) # QuotaId(l)
    BY IdsDiffer
  <2>2. \A c \in changes : \A k : c.record # StatusId(k)
    BY <1>2, <1>4, <2>1
  <2> QED
    BY <1>1, <1>7, <1>8, <2>2, LogGrows, UnstatedCommit DEF Quiet
<1>10. quota' = quota \/ quota' = table
  BY <1>1 DEF Committed
<1> QED
  BY <1>2, <1>5, <1>9, <1>10 DEF ObservedSame

(* An observation of a quota.                                              *)
Recorded(entry) ==
    /\ entry.record \in Quotas
    /\ \E j \in SnapshotChangesOf(entry.record) : changeLog[j].payload = entry
    /\ quota[entry.record] # None
    /\ entry.observedAt <= quota[entry.record].observedAt

KeepsUp(record) ==
    /\ \A i \in ChangesOf(QuotaId(record)) :
          ~changeLog[i].payload.stale =>
              \E j \in SnapshotChangesOf(record) :
                  j < i /\ changeLog[j].payload.facts = changeLog[i].payload
    /\ quota[record] # None =>
          \E j \in SnapshotChangesOf(record) :
              /\ changeLog[j].payload.observedAt <= quota[record].observedAt
              /\ quota[record].observedAt - changeLog[j].payload.observedAt < Heartbeat

(* The invariant by entry and by record.                                   *)
LEMMA HistoryParts ==
    ASSUME TypeOK
    PROVE  HistoryInv <=>
              /\ \A n \in SnapshotIds : snapshot[n] # None => Recorded(snapshot[n].payload)
              /\ \A record \in Quotas : KeepsUp(record)
<1>1. \A n \in SnapshotIds : snapshot[n] # None => snapshot[n].payload.record \in Quotas
  BY DEF TypeOK, CurrentTypeOK, SnapshotRows, SnapshotFacts
<1> QED
  BY <1>1 DEF HistoryInv, EntryPublished, EntryBehind, HistoryKeepsUp, Recorded, KeepsUp

LEMMA HistoryNew ==
    ASSUME TypeOK',
           \A n \in SnapshotIds :
              snapshot'[n] # None => \E entry : entry = snapshot'[n].payload /\ Recorded(entry)',
           \A record \in Quotas : KeepsUp(record)'
    PROVE  HistoryInv'
<1>1. HistoryKeepsUp'
  BY DEF HistoryKeepsUp, KeepsUp
<1>2. EntryPublished' /\ EntryBehind'
  <2>1. ASSUME NEW n \in SnapshotIds, snapshot'[n] # None
        PROVE  (/\ \E j \in SnapshotChangesOf(snapshot[n].payload.record) :
                      changeLog[j].payload = snapshot[n].payload
                /\ quota[snapshot[n].payload.record] # None
                /\ snapshot[n].payload.observedAt
                      <= quota[snapshot[n].payload.record].observedAt)'
    <3>1. PICK entry : entry = snapshot'[n].payload /\ Recorded(entry)'
      BY <2>1
    <3> QED
      BY <3>1 DEF Recorded, SnapshotChangesOf
  <2> QED
    BY <2>1 DEF EntryPublished, EntryBehind
<1> QED
  BY <1>1, <1>2 DEF HistoryInv

(* No row moves back.                                                      *)
Forward(record) ==
    quota[record] # None =>
        quota'[record] # None /\ quota[record].observedAt <= quota'[record].observedAt

(* An entry stays published, and behind a row that moves forward.          *)
LEMMA RecordedStays ==
    ASSUME TypeOK, TypeOK', NEW changes, Grows(changes), NEW entry, entry.observedAt \in Nat,
           Recorded(entry), Forward(entry.record)
    PROVE  Recorded(entry)'
<1>1. PICK j \in SnapshotChangesOf(entry.record) : changeLog[j].payload = entry
  BY DEF Recorded
<1>2. j \in SnapshotChangesOf(entry.record)' /\ changeLog'[j].payload = entry
  BY <1>1, PublishedStays
<1>3. quota[entry.record].observedAt \in Nat /\ quota'[entry.record].observedAt \in Nat
  <2>1. quota[entry.record] \in CurrentRows /\ quota'[entry.record] \in CurrentRows
    BY DEF Recorded, Forward, TypeOK, CurrentTypeOK
  <2> QED
    BY <2>1, CurrentAssumption DEF CurrentRows, ObservationTimes
<1> QED
  BY <1>2, <1>3 DEF Recorded, Forward

(* A quota whose row stays and of which nothing live is published.         *)
LEMMA KeptUp ==
    ASSUME TypeOK, HistoryInv, NEW changes, Grows(changes), NEW record \in Quotas,
           \A c \in LiveQuotas(changes) : c.record # QuotaId(record),
           quota'[record] = quota[record]
    PROVE  KeepsUp(record)'
<1>1. \A i \in ChangesOf(QuotaId(record))' :
         ~changeLog'[i].payload.stale =>
             \E j \in SnapshotChangesOf(record)' :
                 j < i /\ changeLog'[j].payload.facts = changeLog'[i].payload
  BY LivePublished
<1>2. ASSUME quota'[record] # None
      PROVE  \E j \in SnapshotChangesOf(record)' :
                /\ changeLog'[j].payload.observedAt <= quota'[record].observedAt
                /\ quota'[record].observedAt - changeLog'[j].payload.observedAt < Heartbeat
  <2>1. PICK j \in SnapshotChangesOf(record) :
           /\ changeLog[j].payload.observedAt <= quota[record].observedAt
           /\ quota[record].observedAt - changeLog[j].payload.observedAt < Heartbeat
    BY <1>2 DEF HistoryInv, HistoryKeepsUp
  <2> QED
    BY <2>1, PublishedStays
<1> QED
  BY <1>1, <1>2 DEF KeepsUp

(* Entries that were in the table, whether they still are or not.          *)
LEMMA EntriesStay ==
    ASSUME TypeOK, TypeOK', HistoryInv, NEW changes, Grows(changes),
           \A k \in Quotas : Forward(k)
    PROVE  \A m \in SnapshotIds :
              snapshot[m] # None =>
                  \E entry : entry = snapshot[m].payload /\ Recorded(entry)'
<1>1. \A m \in SnapshotIds : snapshot[m] # None => Recorded(snapshot[m].payload)
  BY HistoryParts
<1>2. \A m \in SnapshotIds : snapshot[m] # None =>
         snapshot[m].payload.observedAt \in Nat /\ snapshot[m].payload.record \in Quotas
  BY CurrentAssumption DEF TypeOK, CurrentTypeOK, SnapshotRows, SnapshotFacts, ObservationTimes
<1> TAKE m \in SnapshotIds
<1> HAVE snapshot[m] # None
<1>3. PICK entry : entry = snapshot[m].payload
  OBVIOUS
<1>4. Recorded(entry) /\ entry.observedAt \in Nat /\ entry.record \in Quotas
  BY <1>1, <1>2, <1>3
<1>5. Recorded(entry)'
  BY <1>4, RecordedStays
<1> QED
  BY <1>3, <1>5

(* An observation that needs no entry is as good as one the table has.     *)
LEMMA SeenBefore ==
    ASSUME TypeOK, TypeOK', HistoryInv, Grows({}), NEW record \in Quotas,
           NEW t \in ObservationTimes, snapshot' = snapshot,
           NEW n \in SnapshotsOf(record), t - snapshot[n].payload.observedAt < Heartbeat,
           quota[record].observedAt <= t,
           quota'[record] # None, quota'[record].observedAt = t,
           \A k \in Quotas : k # record => quota'[k] = quota[k]
    PROVE  HistoryInv'
<1>1. /\ \A m \in SnapshotIds : snapshot[m] # None => Recorded(snapshot[m].payload)
      /\ \A k \in Quotas : KeepsUp(k)
  BY HistoryParts
<1>2. ASSUME NEW k \in Quotas, quota[k] # None
      PROVE  quota[k].observedAt \in Nat
  <2>1. quota[k] \in CurrentRows
    BY <1>2 DEF TypeOK, CurrentTypeOK
  <2> QED
    BY <2>1, CurrentAssumption DEF CurrentRows, ObservationTimes
<1>3. \A m \in SnapshotIds : snapshot[m] # None =>
         snapshot[m].payload.observedAt \in Nat /\ snapshot[m].payload.record \in Quotas
  BY CurrentAssumption DEF TypeOK, CurrentTypeOK, SnapshotRows, SnapshotFacts, ObservationTimes
<1>4. \A k \in Quotas : Forward(k)
  BY <1>2 DEF Forward
<1>6. ASSUME NEW m \in SnapshotIds, snapshot'[m] # None
      PROVE  \E entry : entry = snapshot'[m].payload /\ Recorded(entry)'
  BY <1>4, <1>6, EntriesStay
<1>7. ASSUME NEW k \in Quotas, k # record
      PROVE  KeepsUp(k)'
  <2>1. quota'[k] = quota[k] /\ \A c \in LiveQuotas({}) : c.record # QuotaId(k)
    BY <1>7 DEF LiveQuotas
  <2> QED
    BY <2>1, KeptUp
<1>8. KeepsUp(record)'
  <2>1. \A c \in LiveQuotas({}) : c.record # QuotaId(record)
    BY DEF LiveQuotas
  <2>2. \A i \in ChangesOf(QuotaId(record))' :
           ~changeLog'[i].payload.stale =>
               \E j \in SnapshotChangesOf(record)' :
                   j < i /\ changeLog'[j].payload.facts = changeLog'[i].payload
    BY <2>1, LivePublished
  <2>3. PICK entry : entry = snapshot[n].payload
    OBVIOUS
  <2>4. Recorded(entry) /\ entry.record = record /\ entry.observedAt \in Nat
    BY <1>1, <1>3, <2>3 DEF SnapshotsOf
  <2>5. PICK j \in SnapshotChangesOf(record) : changeLog[j].payload = entry
    BY <2>4 DEF Recorded
  <2>6. j \in SnapshotChangesOf(record)' /\ changeLog'[j].payload = entry
    BY <2>5, PublishedStays
  <2>7. entry.observedAt <= t
    <3>1. entry.observedAt <= quota[record].observedAt /\ quota[record].observedAt \in Nat
      BY <1>2, <2>4 DEF Recorded
    <3> QED
      BY <2>4, <3>1, CurrentAssumption DEF ObservationTimes
  <2> QED
    BY <2>2, <2>3, <2>6, <2>7 DEF KeepsUp
<1> QED
  BY <1>6, <1>7, <1>8, HistoryNew

(* A new entry is published before what it is of.                          *)
LEMMA EntryTaken ==
    ASSUME TypeOK, TypeOK', HistoryInv, NEW changes, Grows(changes), NEW record \in Quotas,
           NEW facts, NEW t \in ObservationTimes, NEW n \in SnapshotIds,
           \A k \in Quotas : Forward(k),
           \A k \in Quotas : k # record => quota'[k] = quota[k],
           quota'[record] = quota[record]
               \/ (quota'[record] # None /\ quota'[record].observedAt = t),
           quota'[record] # None /\ t <= quota'[record].observedAt,
           \A m \in SnapshotIds : m # n => snapshot'[m] = snapshot[m],
           snapshot'[n].payload = SnapshotPayload(record, facts, t),
           NEW e \in SnapshotChangesOf(record)',
           changeLog'[e].payload = SnapshotPayload(record, facts, t),
           \A c \in LiveQuotas(changes) : c.record = QuotaId(record),
           \A i \in (Len(changeLog) + 1)..Len(changeLog') :
              changeLog'[i].record = QuotaId(record) =>
                  e < i /\ changeLog'[i].payload = facts
    PROVE  HistoryInv'
<1> DEFINE payload == SnapshotPayload(record, facts, t)
<1>1. payload.record = record /\ payload.observedAt = t /\ payload.facts = facts
  BY DEF SnapshotPayload
<1> HIDE DEF payload
<1>2. t \in Nat /\ Heartbeat \in Nat /\ 0 < Heartbeat
  BY CurrentAssumption DEF ObservationTimes
<1>3. ASSUME NEW m \in SnapshotIds, snapshot'[m] # None
      PROVE  \E entry : entry = snapshot'[m].payload /\ Recorded(entry)'
  <2>1. CASE m # n
    <3>1. snapshot'[m] = snapshot[m]
      BY <2>1
    <3> QED
      BY <1>3, <3>1, EntriesStay
  <2>2. CASE m = n
    <3>1. PICK entry : entry = payload
      OBVIOUS
    <3>2. Recorded(entry)'
      BY <1>1, <3>1 DEF Recorded, payload
    <3> QED
      BY <2>2, <3>1, <3>2 DEF payload
  <2> QED
    BY <2>1, <2>2
<1>4. ASSUME NEW k \in Quotas, k # record
      PROVE  KeepsUp(k)'
  <2>1. \A c \in LiveQuotas(changes) : c.record # QuotaId(k)
    BY <1>4, IdsDiffer
  <2> QED
    BY <1>4, <2>1, KeptUp
<1>5. KeepsUp(record)'
  <2>1. ASSUME NEW i \in ChangesOf(QuotaId(record))', ~changeLog'[i].payload.stale
        PROVE  \E j \in SnapshotChangesOf(record)' :
                  j < i /\ changeLog'[j].payload.facts = changeLog'[i].payload
    <3>1. i \in 1..Len(changeLog') /\ changeLog'[i].record = QuotaId(record)
      BY DEF ChangesOf
    <3>2. CASE i \in 1..Len(changeLog)
      <4>1. i \in ChangesOf(QuotaId(record)) /\ changeLog'[i] = changeLog[i]
        BY <3>1, <3>2 DEF Grows, ChangesOf
      <4>2. PICK j \in SnapshotChangesOf(record) :
               j < i /\ changeLog[j].payload.facts = changeLog[i].payload
        BY <2>1, <4>1 DEF HistoryInv, HistoryKeepsUp
      <4> QED
        BY <4>1, <4>2, PublishedStays
    <3>3. CASE i \notin 1..Len(changeLog)
      <4>1. i \in (Len(changeLog) + 1)..Len(changeLog')
        BY <3>1, <3>3 DEF Grows
      <4>2. e < i /\ changeLog'[i].payload = facts
        BY <3>1, <4>1
      <4>3. changeLog'[e].payload.facts = facts
        BY <1>1 DEF payload
      <4> QED
        BY <4>2, <4>3
    <3> QED
      BY <3>2, <3>3
  <2>2. ASSUME quota'[record] # None
        PROVE  \E j \in SnapshotChangesOf(record)' :
                  /\ changeLog'[j].payload.observedAt <= quota'[record].observedAt
                  /\ quota'[record].observedAt - changeLog'[j].payload.observedAt < Heartbeat
    <3>1. CASE quota'[record].observedAt = t
      <4>1. changeLog'[e].payload.observedAt = t
        BY <1>1 DEF payload
      <4> QED
        BY <1>2, <3>1, <4>1
    <3>2. CASE quota'[record] = quota[record]
      <4>1. PICK j \in SnapshotChangesOf(record) :
               /\ changeLog[j].payload.observedAt <= quota[record].observedAt
               /\ quota[record].observedAt - changeLog[j].payload.observedAt < Heartbeat
        BY <2>2, <3>2 DEF HistoryInv, HistoryKeepsUp
      <4> QED
        BY <3>2, <4>1, PublishedStays
    <3> QED
      BY <3>1, <3>2
  <2> QED
    BY <2>1, <2>2 DEF KeepsUp
<1> QED
  BY <1>3, <1>4, <1>5, HistoryNew

(* An observation of a quota keeps the history.                            *)
LEMMA RecordQuotaHistory ==
    ASSUME TypeOK, TypeOK', HistoryInv, NEW record \in Quotas, NEW facts \in Facts,
           NEW t \in ObservationTimes, RecordQuota(record, facts, t)
    PROVE  HistoryInv'
<1> DEFINE row     == quota[record]
           late    == Older(row, t)
           n       == lastSnapshot + 1
           payload == SnapshotPayload(record, facts, t)
           entry   == Change(SnapshotId(n), 1, "insert", payload)
           history == SnapshotChanges(record, facts, t)
           current == ObservationChanges(QuotaId(record), row, facts)
           seen    == IF late THEN {} ELSE current
           changes == history \cup seen
           new     == Observed(row, facts, t)
           quotas  == IF late THEN quota ELSE [quota EXCEPT ![record] = new]
           entries == IF history = {} THEN snapshot
                      ELSE [snapshot EXCEPT ![n] = [payload |-> payload]]
<1>1. /\ Commit(changes, SnapshotFirst(changes))
      /\ quota' = Committed(quotas, quota)
      /\ snapshot' = Committed(entries, snapshot)
      /\ lastSnapshot < MaxSnapshots
  BY DEF RecordQuota
<1>2. /\ changeLog \in Seq(Changes)
      /\ quota \in [Quotas -> CurrentRows \cup {None}]
      /\ snapshot \in [SnapshotIds -> SnapshotRows \cup {None}]
      /\ lastSnapshot \in 0..MaxSnapshots
  BY DEF TypeOK, CurrentTypeOK
<1>3. row \in CurrentRows \cup {None} /\ QuotaId(record) \in RecordIds
  BY <1>2 DEF RecordIds
<1>4. n \in SnapshotIds
  BY <1>1, <1>2, CurrentAssumption DEF SnapshotIds
<1>5. entry \in Changes
  <2>1. SnapshotId(n) \in RecordIds
    BY <1>4 DEF RecordIds
  <2>2. payload \in Payloads /\ "insert" \in Operations
    BY DEF SnapshotPayload, SnapshotFacts, Payloads, Operations
  <2> QED
    BY <2>1, <2>2, ChangeTyped
<1>6. /\ entry.record = SnapshotId(n) /\ entry.operation = "insert"
      /\ entry.payload = payload /\ payload.record = record
  BY ChangeFields DEF SnapshotPayload
<1>7. history = IF NeedsSnapshot(record, facts, t) THEN {entry} ELSE {}
  BY DEF SnapshotChanges
<1>8. /\ current \in SUBSET Changes
      /\ OnePerRecord(current)
      /\ \A c \in current : c.record = QuotaId(record) /\ c.payload = facts
      /\ new \in CurrentRows /\ new # None /\ new.observedAt = t
  <2>1. new.observedAt = t
    BY DEF Observed
  <2> QED
    BY <1>3, <2>1, ObservationTyped
<1>9. ~Changed(row, facts) => current = {}
  BY DEF ObservationChanges
<1>10. \A k : QuotaId(record) # SnapshotId(k)
  BY IdsDiffer
<1>11. t \in Nat /\ (row # None => row.observedAt \in Nat)
  BY <1>3, CurrentAssumption DEF CurrentRows, ObservationTimes
<1>12. ~late => (row # None => row.observedAt <= t)
  BY <1>11 DEF Older
<1>13. late => row # None /\ t <= row.observedAt
  BY <1>11 DEF Older
<1>14. /\ quotas[record] = IF late THEN row ELSE new
       /\ \A k \in Quotas : k # record => quotas[k] = quota[k]
  BY <1>2
<1>15. /\ history = {} => entries = snapshot
       /\ history # {} => entries[n].payload = payload
       /\ \A m \in SnapshotIds : m # n => entries[m] = snapshot[m]
  BY <1>2, <1>4
<1>16. \A c \in current : SnapshotFirst(changes)[c] = 1 \/ c \notin changes
  BY <1>8 DEF SnapshotFirst, QuotaId, RecordId
<1>17. entry \in changes => SnapshotFirst(changes)[entry] = 0
  BY <1>6 DEF SnapshotFirst, SnapshotId, RecordId
<1>18. /\ NeedsSnapshot(record, facts, t) \/ late
             \/ (~Changed(row, facts) /\ ~HeartbeatDue(record, t))
       /\ late \/ NeedsSnapshot(record, facts, t) \/ ~Changed(row, facts)
  BY DEF NeedsSnapshot
<1>19. ~Changed(row, facts) => row # None
  BY DEF Changed
<1> HIDE DEF row, current, new, entry, history, payload, quotas, entries, late, n
<1>20. /\ changes \subseteq Changes
       /\ \A c \in changes : c \in history \/ (~late /\ c \in current)
       /\ ~late => seen = current
       /\ late => seen = {}
       /\ history \subseteq changes /\ seen \subseteq changes
  BY <1>5, <1>7, <1>8
<1>21. OnePerRecord(changes)
  BY <1>6, <1>7, <1>8, <1>10, <1>20 DEF OnePerRecord
<1>22. history = {} /\ seen = {} => changes = {}
  OBVIOUS
<1> HIDE DEF changes, seen
<1>23. Transaction(changes, SnapshotFirst(changes))
  BY <1>20, <1>21 DEF Transaction, SnapshotFirst
<1>24. Grows(changes) /\ (~raised' => Appends(changes))
  BY <1>1, <1>23, LogGrows
<1>25. ASSUME quota' = quota, snapshot' = snapshot, Grows({})
       PROVE  HistoryInv'
  <2>1. LiveQuotas({}) = {}
    BY DEF LiveQuotas
  <2>2. \A k \in Quotas : ObservedSame(k) /\ (quota[k] = None => quota'[k] = None)
    BY <1>25 DEF ObservedSame
  <2> QED
    BY <1>25, <2>1, <2>2, HistoryStays
<1>26. CASE raised'
  <2>1. changeLog' = changeLog
    BY <1>1, <1>26 DEF Commit, RollBack
  <2>2. quota' = quota /\ snapshot' = snapshot
    BY <1>1, <1>26 DEF Committed
  <2> QED
    BY <1>25, <2>1, <2>2, IdleGrows
<1>27. CASE ~raised' /\ history = {}
  <2>1. quota' = quotas /\ snapshot' = snapshot
    BY <1>1, <1>15, <1>27 DEF Committed
  <2>2. ~NeedsSnapshot(record, facts, t)
    BY <1>7, <1>27
  <2>3. seen = {}
    BY <1>9, <1>18, <1>20, <2>2
  <2>4. Grows({})
    BY <1>22, <1>24, <1>27, <2>3
  <2>5. CASE late
    <3>1. quota' = quota
      BY <2>1, <2>5 DEF quotas
    <3> QED
      BY <1>25, <2>1, <2>4, <3>1
  <2>6. CASE ~late
    <3>1. ~Changed(row, facts) /\ ~HeartbeatDue(record, t)
      BY <1>18, <2>2, <2>6
    <3>2. PICK m \in SnapshotsOf(record) :
             ~(t - snapshot[m].payload.observedAt >= Heartbeat)
      BY <3>1 DEF HeartbeatDue
    <3>3. snapshot[m].payload.observedAt \in Nat
      BY CurrentAssumption
         DEF TypeOK, CurrentTypeOK, SnapshotsOf, SnapshotRows, SnapshotFacts, ObservationTimes
    <3>4. t - snapshot[m].payload.observedAt < Heartbeat
      BY <1>11, <3>2, <3>3, CurrentAssumption
    <3>5. quota[record].observedAt <= t
      BY <1>12, <1>19, <2>6, <3>1 DEF row
    <3>6. quota'[record] # None /\ quota'[record].observedAt = t
          /\ \A k \in Quotas : k # record => quota'[k] = quota[k]
      BY <1>8, <1>14, <2>1, <2>6
    <3> QED
      BY <2>1, <2>4, <3>4, <3>5, <3>6, SeenBefore
  <2> QED
    BY <2>5, <2>6
<1>28. CASE ~raised' /\ history # {}
  <2>1. quota' = quotas /\ snapshot' = entries /\ history = {entry} /\ entry \in changes
    BY <1>1, <1>7, <1>20, <1>28 DEF Committed
  <2>2. PICK e \in (Len(changeLog) + 1)..Len(changeLog') : changeLog'[e] = entry
    BY <1>24, <1>28, <2>1 DEF Appends
  <2>3. e \in SnapshotChangesOf(record)' /\ changeLog'[e].payload = payload
    <3>1. e \in 1..Len(changeLog')
      BY <1>24 DEF Grows
    <3>2. entry.record[1] = "quota_snapshot"
      BY <1>6 DEF SnapshotId, RecordId
    <3> QED
      BY <1>6, <2>2, <3>1, <3>2 DEF SnapshotChangesOf
  <2>4. \A c \in LiveQuotas(changes) : c.record = QuotaId(record)
    <3>1. \A k : entry.record # QuotaId(k)
      BY <1>6, IdsDiffer
    <3> QED
      BY <1>8, <1>20, <2>1, <3>1 DEF LiveQuotas
  <2>5. ASSUME NEW i \in (Len(changeLog) + 1)..Len(changeLog'),
               changeLog'[i].record = QuotaId(record)
        PROVE  e < i /\ changeLog'[i].payload = facts
    <3>1. PICK d \in changes : changeLog'[i] = d
      BY <1>24 DEF Grows
    <3>2. d \in current /\ d.payload = facts
      BY <1>6, <1>8, <1>10, <1>20, <2>1, <2>5, <3>1
    <3>3. Precedes(entry, d, SnapshotFirst(changes))
      BY <1>16, <1>17, <2>1, <3>1, <3>2 DEF Precedes
    <3>4. Sortable(changes, SnapshotFirst(changes))
      BY <1>23, TransactionSortable
    <3>5. PICK f \in (Len(changeLog) + 1)..Len(changeLog') : f < i /\ changeLog'[f] = entry
      BY <1>1, <1>2, <1>20, <1>28, <2>1, <3>1, <3>3, <3>4, CommitOrders
    <3>6. f = e
      BY <1>24, <1>28, <2>2, <3>5 DEF Appends
    <3> QED
      BY <3>1, <3>2, <3>5, <3>6
  <2>6. /\ \A k \in Quotas : k # record => quota'[k] = quota[k]
        /\ \/ quota'[record] = quota[record]
           \/ quota'[record] # None /\ quota'[record].observedAt = t
        /\ quota'[record] # None /\ t <= quota'[record].observedAt
        /\ Forward(record)
    <3>1. CASE late
      BY <1>11, <1>13, <1>14, <2>1, <3>1 DEF Forward, row
    <3>2. CASE ~late
      BY <1>8, <1>11, <1>12, <1>14, <2>1, <3>2 DEF Forward, row
    <3> QED
      BY <3>1, <3>2
  <2>7. \A k \in Quotas : Forward(k)
    <3>1. ASSUME NEW k \in Quotas, k # record PROVE Forward(k)
      <4>1. quota[k] # None => quota[k].observedAt \in Nat
        BY <1>2, CurrentAssumption DEF CurrentRows, ObservationTimes
      <4> QED
        BY <2>6, <3>1, <4>1 DEF Forward
    <3> QED
      BY <2>6, <3>1
  <2>8. snapshot'[n].payload = payload /\ \A m \in SnapshotIds : m # n => snapshot'[m] = snapshot[m]
    BY <1>15, <1>28, <2>1
  <2> QED
    BY <1>4, <1>24, <2>3, <2>4, <2>5, <2>6, <2>7, <2>8, EntryTaken DEF payload
<1> QED
  BY <1>26, <1>27, <1>28

(* A quiet step that leaves the rows of quotas alone keeps the history.    *)
LEMMA QuietKeeps ==
    ASSUME TypeOK, HistoryInv, Quiet, quota' = quota,
           \A n \in SnapshotIds : snapshot'[n] # None => snapshot'[n] = snapshot[n]
    PROVE  HistoryInv'
<1>1. PICK changes : Grows(changes) /\ LiveQuotas(changes) = {}
  BY DEF Quiet
<1>2. \A record \in Quotas :
         ObservedSame(record) /\ (quota[record] = None => quota'[record] = None)
  BY DEF ObservedSame
<1> QED
  BY <1>1, <1>2, HistoryStays

(* Every step.                                                             *)
LEMMA CurrentNextHistory ==
    ASSUME TypeOK, TypeOK', HistoryInv, CurrentNext
    PROVE  HistoryInv'
<1>1. ASSUME NEW provider \in Providers, NEW facts \in Instances,
             UpsertProviderInstance(provider, facts)
      PROVE  HistoryInv'
  <2>1. quota' = quota /\ snapshot' = snapshot
    BY <1>1 DEF UpsertProviderInstance
  <2> QED
    BY <1>1, <2>1, UpsertQuiet, QuietKeeps
<1>2. ASSUME NEW facts \in Facts, NEW t \in ObservationTimes, NEW record \in Balances,
             RecordBalance(record, facts, t)
      PROVE  HistoryInv'
  <2>1. quota' = quota /\ snapshot' = snapshot
    BY <1>2 DEF RecordBalance
  <2> QED
    BY <1>2, <2>1, BalanceQuiet, QuietKeeps
<1>3. ASSUME NEW facts \in Facts, NEW t \in ObservationTimes, NEW record \in Quotas,
             RecordQuota(record, facts, t)
      PROVE  HistoryInv'
  BY <1>3, RecordQuotaHistory
<1>4. ASSUME NEW provider, NEW source, NEW t, MarkBalanceSourceStale(provider, source, t)
      PROVE  HistoryInv'
  <2>1. quota' = quota /\ snapshot' = snapshot
    BY <1>4 DEF MarkBalanceSourceStale
  <2> QED
    BY <1>4, <2>1, MarkBalanceQuiet, QuietKeeps
<1>5. ASSUME NEW provider, NEW source, NEW t, MarkQuotaSourceStale(provider, source, t)
      PROVE  HistoryInv'
  <2>1. snapshot' = snapshot
    BY <1>5 DEF MarkQuotaSourceStale
  <2>2. /\ Quiet
        /\ \A record \in Quotas :
              ObservedSame(record) /\ (quota[record] = None => quota'[record] = None)
    BY <1>5, MarkQuotaQuiet
  <2>3. PICK changes : Grows(changes) /\ LiveQuotas(changes) = {}
    BY <2>2 DEF Quiet
  <2> QED
    BY <2>1, <2>2, <2>3, HistoryStays
<1> QED
  BY <1>1, <1>2, <1>3, <1>4, <1>5 DEF CurrentNext

LEMMA PurgeHistory ==
    ASSUME TypeOK, HistoryInv, NEW day, NEW time, PurgeBefore(day, time)
    PROVE  HistoryInv'
<1>1. snapshot \in [SnapshotIds -> SnapshotRows \cup {None}]
  BY DEF TypeOK, CurrentTypeOK
<1>2. quota' = quota
      /\ snapshot' \in {snapshot, Without(snapshot, ExpiredSnapshots(time))}
  BY DEF PurgeBefore, Committed
<1>3. \A n \in SnapshotIds : snapshot'[n] # None => snapshot'[n] = snapshot[n]
  BY <1>1, <1>2 DEF Without
<1> QED
  BY <1>2, <1>3, PurgeQuiet, QuietKeeps

LEMMA NextHistory ==
    ASSUME TypeOK, TypeOK', HistoryInv, [Next]_vars
    PROVE  HistoryInv'
<1>1. CASE StatusNext /\ UNCHANGED <<dailyVars, currentVars>>
  BY <1>1, StatusNextQuiet, QuietKeeps DEF currentVars
<1>2. CASE DailyNext /\ UNCHANGED currentVars
  BY <1>2, DailyNextQuiet, QuietKeeps DEF currentVars
<1>3. CASE CurrentNext
  BY <1>3, CurrentNextHistory
<1>4. CASE Retention
  BY <1>4, PurgeHistory DEF Retention
<1>5. CASE UNCHANGED vars
  <2>1. changeLog' = changeLog /\ quota' = quota /\ snapshot' = snapshot
    BY <1>5 DEF vars, feedVars, currentVars
  <2> QED
    BY <2>1, QuietIdle, QuietKeeps
<1> QED
  BY <1>1, <1>2, <1>3, <1>4, <1>5 DEF Next

LEMMA InitHistory ==
    ASSUME Init
    PROVE  HistoryInv
<1>1. changeLog = << >> /\ Len(changeLog) = 0
  BY DEF Init
<1>2. /\ \A record \in Quotas : quota[record] = None
      /\ \A n \in SnapshotIds : snapshot[n] = None
  BY DEF Init, CurrentInit
<1> QED
  BY <1>1, <1>2 DEF HistoryInv, EntryPublished, EntryBehind, HistoryKeepsUp, ChangesOf

(* Every live value of a quota was published to the history before it was  *)
(* published as the quota's, and a quota's row is never an hour ahead of   *)
(* an entry of its history, in whatever order observations arrive, sources *)
(* fail and entries expire.                                                *)
THEOREM HistoryFollows == Spec => []HistoryKeepsUp
<1>1. Init => HistoryInv
  BY InitHistory
<1>2. TypeOK /\ TypeOK' /\ HistoryInv /\ [Next]_vars => HistoryInv'
  BY NextHistory
<1>3. HistoryInv => HistoryKeepsUp
  BY DEF HistoryInv
<1> QED
  BY <1>1, <1>2, <1>3, TypeCorrect, PTL DEF Spec

(* An observation of a quota is a transaction too, and publishes no health. *)
LEMMA RecordQuotaGrows ==
    ASSUME TypeOK, NEW record \in Quotas, NEW facts \in Facts,
           NEW t \in ObservationTimes, RecordQuota(record, facts, t)
    PROVE  Unstated
<1> DEFINE row     == quota[record]
           late    == Older(row, t)
           n       == lastSnapshot + 1
           payload == SnapshotPayload(record, facts, t)
           entry   == Change(SnapshotId(n), 1, "insert", payload)
           history == SnapshotChanges(record, facts, t)
           current == ObservationChanges(QuotaId(record), row, facts)
           changes == history \cup (IF late THEN {} ELSE current)
<1>1. Commit(changes, SnapshotFirst(changes)) /\ lastSnapshot < MaxSnapshots
  BY DEF RecordQuota
<1>2. /\ quota \in [Quotas -> CurrentRows \cup {None}]
      /\ lastSnapshot \in 0..MaxSnapshots
  BY DEF TypeOK, CurrentTypeOK
<1>3. row \in CurrentRows \cup {None} /\ QuotaId(record) \in RecordIds
  BY <1>2 DEF RecordIds
<1>4. n \in SnapshotIds
  BY <1>1, <1>2, CurrentAssumption DEF SnapshotIds
<1>5. entry \in Changes /\ entry.record = SnapshotId(n)
  <2>1. SnapshotId(n) \in RecordIds
    BY <1>4 DEF RecordIds
  <2>2. payload \in Payloads /\ "insert" \in Operations
    BY DEF SnapshotPayload, SnapshotFacts, Payloads, Operations
  <2> QED
    BY <2>1, <2>2, ChangeTyped, ChangeFields
<1>6. history = {} \/ history = {entry}
  BY DEF SnapshotChanges
<1>7. /\ current \in SUBSET Changes
      /\ OnePerRecord(current)
      /\ \A c \in current : c.record = QuotaId(record)
  BY <1>3, ObservationTyped
<1>8. \A k, l : /\ QuotaId(record) # SnapshotId(k) /\ StatusId(k) # QuotaId(record)
                /\ StatusId(k) # SnapshotId(l)
  BY IdsDiffer
<1> HIDE DEF row, current, entry, history, payload, late, n
<1>9. /\ changes \subseteq Changes /\ OnePerRecord(changes)
      /\ \A c \in changes : \A k : c.record # StatusId(k)
  BY <1>5, <1>6, <1>7, <1>8 DEF OnePerRecord
<1> HIDE DEF changes
<1>10. Transaction(changes, SnapshotFirst(changes))
  BY <1>9 DEF Transaction, SnapshotFirst
<1> QED
  BY <1>1, <1>9, <1>10, UnstatedCommit

=============================================================================
