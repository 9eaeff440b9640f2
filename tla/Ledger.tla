------------------------------- MODULE Ledger -------------------------------
(***************************************************************************)
(* The activity ledger as a whole: the daily facts, the current facts and  *)
(* the source status share one change log, and retention removes expired   *)
(* daily facts and history snapshots in one transaction                    *)
(* (openusage_bar/activity_store.py).                                      *)
(***************************************************************************)
EXTENDS DailyLedger, CurrentLedger

vars == <<feedVars, sourceStatus, dailyVars, currentVars>>

-----------------------------------------------------------------------------
(* purge_before: facts of days before the cutoff day and snapshots         *)
(* observed before the cutoff time.  Status, contracts and current facts   *)
(* do not expire.                                                          *)

Expired(table, cutoff) == {key \in DOMAIN table : table[key] # None /\ key[2] < cutoff}

ExpiredSnapshots(cutoff) ==
    {n \in SnapshotIds : snapshot[n] # None /\ snapshot[n].payload.observedAt < cutoff}

Tombstone(record) == Change(record, NextRevision(record), "delete", None)

PurgeChanges(day, time) ==
    {Tombstone(CostId(key)) : key \in Expired(cost, day)}
    \cup {Tombstone(CostCoverageId(key)) : key \in Expired(costCoverage, day)}
    \cup {Tombstone(UsageId(key)) : key \in Expired(usage, day)}
    \cup {Tombstone(CoverageId(key)) : key \in Expired(coverage, day)}
    \cup {Change(SnapshotId(n), 2, "delete", None) : n \in ExpiredSnapshots(time)}

PurgePosition(c) ==
    [daily_cost |-> 1, daily_cost_coverage |-> 2, daily_usage |-> 3,
     daily_coverage |-> 4, quota_snapshot |-> 5][c.record[1]]

Without(table, keys) == [key \in DOMAIN table |-> IF key \in keys THEN None ELSE table[key]]

PurgeBefore(day, time) ==
    LET changes == PurgeChanges(day, time)
    IN  /\ CanWrite
        /\ Commit(changes, [c \in changes |-> PurgePosition(c)])
        /\ usage' = Committed(Without(usage, Expired(usage, day)), usage)
        /\ convention' =
              Committed(Without(convention, Expired(convention, day)), convention)
        /\ coverage' = Committed(Without(coverage, Expired(coverage, day)), coverage)
        /\ cost' = Committed(Without(cost, Expired(cost, day)), cost)
        /\ costCoverage' =
              Committed(Without(costCoverage, Expired(costCoverage, day)), costCoverage)
        /\ snapshot' = Committed(Without(snapshot, ExpiredSnapshots(time)), snapshot)
        /\ UNCHANGED <<contract, sourceStatus, instance, balance, quota, lastSnapshot>>

Retention ==
    \E day \in Days \cup {MaxDay + 1}, time \in ObservationTimes \cup {MaxObservation + 1} :
        PurgeBefore(day, time)

Init ==
    /\ changeLog = <<>>
    /\ raised = FALSE
    /\ StatusInit
    /\ DailyInit
    /\ CurrentInit

Next ==
    \/ StatusNext /\ UNCHANGED <<dailyVars, currentVars>>
    \/ DailyNext /\ UNCHANGED currentVars
    \/ CurrentNext /\ UNCHANGED <<sourceStatus, dailyVars>>
    \/ Retention

Spec == Init /\ [][Next]_vars

-----------------------------------------------------------------------------
(* The public view of the tables: what each record holds now.              *)

RecordIds ==
    UNION {{StatusId(key) : key \in StatusKeys},
           {UsageId(key) : key \in UsageKeys},
           {CoverageId(key) : key \in DayKeys},
           {CostId(key) : key \in CostKeys},
           {CostCoverageId(key) : key \in DayKeys},
           {InstanceId(provider) : provider \in Providers},
           {BalanceId(record) : record \in Balances},
           {QuotaId(record) : record \in Quotas},
           {SnapshotId(n) : n \in SnapshotIds}}

Tables ==
    [source_status |-> sourceStatus, daily_usage |-> usage,
     daily_coverage |-> coverage, daily_cost |-> cost,
     daily_cost_coverage |-> costCoverage, provider_instance |-> instance,
     balance |-> balance, quota |-> quota, quota_snapshot |-> snapshot]

RowOf(record) == Tables[record[1]][record[2]]

Stored(record) == IF RowOf(record) = None THEN None ELSE RowOf(record).payload

(* Tables whose rows carry the revision of their last change.              *)
Revisioned == {"source_status", "daily_usage", "daily_cost",
               "provider_instance", "balance", "quota"}

Operations == {"insert", "update", "upsert", "delete"}

Payloads ==
    UNION {StatusFacts, UsagePayloads, [source : UsageSources], Values, Covered,
           Instances, Facts, SnapshotFacts, {None}}

Changes ==
    [record : RecordIds, revision : Nat \ {0}, operation : Operations,
     payload : Payloads]

(* Finitely many records, which sort by their ids.                         *)
ASSUME RecordAssumption ==
    /\ IsFiniteSet(RecordIds)
    /\ Place \in [RecordIds -> Nat]
    /\ \A r, s \in RecordIds : Place[r] = Place[s] => r = s

(* NULL is not a row.                                                      *)
ASSUME NoRowAssumption ==
    /\ None \notin StatusRows
    /\ None \notin UsageRows \cup CoverageRows \cup CostRows \cup CostCoverageRows
    /\ None \notin InstanceRows \cup CurrentRows \cup SnapshotRows

-----------------------------------------------------------------------------
(* Properties.                                                             *)

(* Every table holds rows of its schema and the log holds changes of       *)
(* public records.                                                         *)
TypeOK ==
    /\ raised \in BOOLEAN
    /\ changeLog \in Seq(Changes)
    /\ StatusTypeOK
    /\ DailyTypeOK
    /\ CurrentTypeOK

(* Replaying the whole log yields exactly the tables: no transaction, of   *)
(* any writer, changes, deletes or expires a public fact without           *)
(* publishing that, and none publishes what it does not store.             *)
LogReplaysTables == \A record \in RecordIds : Replayed(record) = Stored(record)

(* Revisions continue, and a row that carries one carries the one its last *)
(* change was published with, so a reader may compare rows and changes.    *)
RowsCarryLatestRevision ==
    /\ RevisionsContinue
    /\ \A record \in RecordIds :
          record[1] \in Revisioned /\ RowOf(record) # None =>
              RowOf(record).revision = LatestRevision(record)

(* Every usage row lies on a covered day, under the source that covered    *)
(* the day last, and has its token convention bound: sources of one day    *)
(* are never added together, and no row survives the import that should    *)
(* have replaced it, or its marker's expiry.                               *)
RowsUnderCoverage ==
    \A key \in UsageKeys :
        IF usage[key] = None THEN convention[key] = None
        ELSE /\ coverage[DayOf(key)] # None
             /\ usage[key].payload.source = coverage[DayOf(key)].payload.source
             /\ convention[key] = usage[key].payload

(* Costs, whose rows name no source, lie on covered days, and a covered    *)
(* day is backed by a recorded success of a cost source as new as it.      *)
CostsUnderCoverage ==
    /\ \A key \in CostKeys : cost[key] # None => costCoverage[DayOf(key)] # None
    /\ \A key \in DayKeys :
          costCoverage[key] # None =>
             \E source \in CostSources :
                LET status == sourceStatus[<<key[1], source>>]
                IN  /\ status # None
                    /\ status.payload.lastSuccess # None
                    /\ costCoverage[key].importedAt <= status.payload.lastSuccess

(* A day covered by a source is backed by a recorded success of that       *)
(* source at least as new as the marker: import and status never part.     *)
CoverageBacked ==
    \A key \in DayKeys :
        coverage[key] # None =>
            LET status == sourceStatus[<<key[1], coverage[key].payload.source>>]
            IN  /\ status # None
                /\ status.payload.lastSuccess # None
                /\ coverage[key].importedAt <= status.payload.lastSuccess

(* A late worker never replaces a day by an import of the same source that *)
(* was attempted earlier than the one stored.                              *)
NoOlderImport ==
    [][\A key \in DayKeys :
          /\ coverage[key] # None
          /\ coverage'[key] # None
          /\ coverage'[key].payload.source = coverage[key].payload.source
          => coverage'[key].importedAt >= coverage[key].importedAt]_vars

(* No source is called fresh for longer than its last success allows, and  *)
(* one that never succeeded is stale since an attempt already made.        *)
DeadlineBacked ==
    \A key \in StatusKeys :
        sourceStatus[key] # None =>
            LET facts == sourceStatus[key].payload
            IN  IF facts.lastSuccess # None
                THEN facts.staleAt # None /\ facts.staleAt <= facts.lastSuccess + Freshness
                ELSE facts.staleAt # None => facts.staleAt <= facts.lastAttempt

(* Source health moves forward: of two workers, the one that attempted     *)
(* earlier cannot overwrite the health the other recorded.  Only the       *)
(* catalog monitor may, when the clock was set back.                       *)
HealthMovesForward ==
    [][\A key \in StatusKeys :
          /\ key[2] # CatalogSource
          /\ sourceStatus[key] # None
          /\ sourceStatus'[key] # None
          => sourceStatus'[key].payload.lastAttempt
                >= sourceStatus[key].payload.lastAttempt]_vars

(* A current fact is never replaced by an older observation.               *)
ObservationsMoveForward ==
    [][/\ \A record \in Balances :
             balance[record] # None =>
                /\ balance'[record] # None
                /\ balance'[record].observedAt >= balance[record].observedAt
       /\ \A record \in Quotas :
             quota[record] # None =>
                /\ quota'[record] # None
                /\ quota'[record].observedAt >= quota[record].observedAt]_vars

(* Neither health nor current facts move back.                             *)
NothingMovesBack == HealthMovesForward /\ ObservationsMoveForward

SnapshotChangesOf(record) ==
    {i \in 1..Len(changeLog) :
        /\ changeLog[i].record[1] = "quota_snapshot"
        /\ changeLog[i].operation = "insert"
        /\ changeLog[i].payload.record = record}

(* The quota history keeps up with the quota: every live value a quota     *)
(* published is in the history before it, and the newest history entry is  *)
(* less than an hour behind the last observation.                          *)
HistoryKeepsUp ==
    \A record \in Quotas :
        /\ \A i \in ChangesOf(QuotaId(record)) :
              ~changeLog[i].payload.stale =>
                  \E j \in SnapshotChangesOf(record) :
                      j < i /\ changeLog[j].payload.facts = changeLog[i].payload
        /\ quota[record] # None =>
              \E j \in SnapshotChangesOf(record) :
                  /\ changeLog[j].payload.observedAt <= quota[record].observedAt
                  /\ quota[record].observedAt - changeLog[j].payload.observedAt < Heartbeat

(* The store accepts every write of its callers: deleting a record and     *)
(* recording it again continues its revisions, as the store's test of      *)
(* "delete, reinsert and correction" says, and never makes the UNIQUE      *)
(* index reject the transaction.  (For runs without provider instances,    *)
(* whose family mismatch raises on purpose.)                               *)
WritesAreAccepted == ~raised

=============================================================================
