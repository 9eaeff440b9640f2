--------------------------- MODULE CurrentLedger ----------------------------
(***************************************************************************)
(* The current facts of the ledger: provider instances, balances, quotas   *)
(* and the quota history (openusage_bar/activity_store.py).  A current     *)
(* fact is replaced by newer observations and marked stale when its source *)
(* fails; it is never deleted.  Only history snapshots expire.             *)
(***************************************************************************)
EXTENDS SourceHealth

CONSTANTS
    Families,          \* family_id a provider instance binds to
    InstanceValues,    \* the other facts of an instance
    Balances,          \* record_id of balances
    Quotas,            \* record_id of quotas
    CurrentValues,     \* amounts, states, windows ...
    MaxObservation,    \* bound on observation times
    Heartbeat,         \* 3600 s, in observation time units
    MaxSnapshots       \* bound on quota_snapshots ids

VARIABLES
    instance,       \* provider_instances [Providers -> row or None]
    balance,        \* balance_state      [Balances -> row or None]
    quota,          \* quota_state        [Quotas -> row or None]
    snapshot,       \* quota_snapshots    [SnapshotIds -> row or None]
    lastSnapshot    \* sqlite_sequence of quota_snapshots

currentVars == <<instance, balance, quota, snapshot, lastSnapshot>>

ASSUME CurrentAssumption ==
    MaxObservation \in Nat /\ Heartbeat \in Nat \ {0} /\ MaxSnapshots \in Nat

ObservationTimes == 1..MaxObservation
SnapshotIds      == 1..MaxSnapshots

InstanceId(provider) == RecordId("provider_instance", provider)
BalanceId(record)    == RecordId("balance", record)
QuotaId(record)      == RecordId("quota", record)
SnapshotId(n)        == RecordId("quota_snapshot", n)

(* An instance's observation time and revision are not part of it.         *)
Instances == [family : Families, value : InstanceValues]

(* _balance_semantic_payload and _quota_semantic_payload: an observation   *)
(* without its observed_at.                                                *)
Facts == [provider : Providers, source : CurrentSources \cup ({CardSource} \ {None}),
          value : CurrentValues, stale : BOOLEAN]

InstanceRows == [payload : Instances, revision : Nat \ {0}]
CurrentRows  == [payload : Facts, observedAt : ObservationTimes, revision : Nat \ {0}]

(* _quota_snapshot_payload keeps observed_at. *)
SnapshotFacts == [record : Quotas, observedAt : ObservationTimes, facts : Facts]
SnapshotRows  == [payload : SnapshotFacts]

CurrentTypeOK ==
    /\ instance \in [Providers -> InstanceRows \cup {None}]
    /\ balance \in [Balances -> CurrentRows \cup {None}]
    /\ quota \in [Quotas -> CurrentRows \cup {None}]
    /\ snapshot \in [SnapshotIds -> SnapshotRows \cup {None}]
    /\ lastSnapshot \in 0..MaxSnapshots

CurrentInit ==
    /\ instance = [provider \in Providers |-> None]
    /\ balance = [record \in Balances |-> None]
    /\ quota = [record \in Quotas |-> None]
    /\ snapshot = [n \in SnapshotIds |-> None]
    /\ lastSnapshot = 0

-----------------------------------------------------------------------------
(* upsert_provider_instance: the same facts again are no change, another   *)
(* family is an error.                                                     *)
UpsertProviderInstance(provider, facts) ==
    LET row      == instance[provider]
        revision == NextRevision(InstanceId(provider))
        changes  == {Change(InstanceId(provider), revision, "upsert", facts)}
    IN  /\ \/ /\ row # None /\ row.payload.family # facts.family
              /\ RollBack /\ UNCHANGED instance
           \/ /\ row # None /\ row.payload = facts
              /\ NothingPublished /\ UNCHANGED instance
           \/ /\ row # None => row.payload.family = facts.family /\ row.payload # facts
              /\ Commit(changes, AtOnce(changes))
              /\ instance' =
                    Committed([instance EXCEPT ![provider] =
                                  [payload |-> facts, revision |-> revision]],
                              instance)
        /\ UNCHANGED <<balance, quota, snapshot, lastSnapshot>>

-----------------------------------------------------------------------------
(* Balances and quotas share their row discipline: an observation older    *)
(* than the row is dropped, one with the same facts only moves observed_at *)
(* and keeps the revision.                                                 *)

Older(row, t) == row # None /\ t < row.observedAt

Changed(row, facts) == row = None \/ row.payload # facts

RowRevision(row, facts) ==
    IF row = None THEN 1
    ELSE IF Changed(row, facts) THEN row.revision + 1 ELSE row.revision

Observed(row, facts, t) ==
    [payload |-> facts, observedAt |-> t, revision |-> RowRevision(row, facts)]

ObservationChanges(record, row, facts) ==
    IF ~Changed(row, facts) THEN {}
    ELSE {Change(record, RowRevision(row, facts),
                 IF row = None THEN "insert" ELSE "update", facts)}

Staled(row) ==
    [row EXCEPT !.payload.stale = TRUE, !.revision = @ + 1]

(* Mutant: the live payload is published. *)
LiveChange(record, row) == Change(record, row.revision + 1, "update", row.payload)

StaleChange(record, row) ==
    Change(record, row.revision + 1, "update", [row.payload EXCEPT !.stale = TRUE])

LiveOf(table, provider, source) ==
    {record \in DOMAIN table :
        /\ table[record] # None
        /\ table[record].payload.provider = provider
        /\ table[record].payload.source = source
        /\ ~table[record].payload.stale}

RecordBalance(record, facts, t) ==
    LET row     == balance[record]
        changes == ObservationChanges(BalanceId(record), row, facts)
    IN  /\ IF Older(row, t)
           THEN NothingPublished /\ UNCHANGED balance
           ELSE /\ Commit(changes, AtOnce(changes))
                /\ balance' =
                      Committed([balance EXCEPT ![record] = Observed(row, facts, t)],
                                balance)
        /\ UNCHANGED <<instance, quota, snapshot, lastSnapshot>>

(* mark_balance_source_stale: every live row of the source, whatever the   *)
(* attempt time.                                                           *)
MarkBalanceSourceStale(provider, source, t) ==
    LET marked  == LiveOf(balance, provider, source)
        changes == {StaleChange(BalanceId(record), balance[record]) : record \in marked}
    IN  /\ Commit(changes, AtOnce(changes))
        /\ balance' =
              Committed([record \in Balances |->
                            IF record \in marked THEN Staled(balance[record])
                            ELSE balance[record]],
                        balance)
        /\ UNCHANGED <<instance, quota, snapshot, lastSnapshot>>

-----------------------------------------------------------------------------
SnapshotsOf(record) ==
    {n \in SnapshotIds : snapshot[n] # None /\ snapshot[n].payload.record = record}

SnapshotPayload(record, facts, t) ==
    [record |-> record, observedAt |-> t, facts |-> facts]

Duplicate(payload) ==
    \E n \in SnapshotIds : snapshot[n] # None /\ snapshot[n].payload = payload

(* Mutant: an hour is not enough. *)
HeartbeatOverdue(record, t) ==
    \A n \in SnapshotsOf(record) : t - snapshot[n].payload.observedAt > Heartbeat

(* Unchanged facts are snapshotted again once the newest snapshot of the   *)
(* record is an hour old.                                                  *)
HeartbeatDue(record, t) ==
    \A n \in SnapshotsOf(record) : t - snapshot[n].payload.observedAt >= Heartbeat

NeedsSnapshot(record, facts, t) ==
    IF Older(quota[record], t)
    THEN ~Duplicate(SnapshotPayload(record, facts, t))
    ELSE Changed(quota[record], facts) \/ HeartbeatDue(record, t)

SnapshotChanges(record, facts, t) ==
    IF ~NeedsSnapshot(record, facts, t) THEN {}
    ELSE {Change(SnapshotId(lastSnapshot + 1), 1, "insert",
                 SnapshotPayload(record, facts, t))}

(* The snapshot is published before the quota. *)
SnapshotFirst(changes) ==
    [c \in changes |-> IF c.record[1] = "quota_snapshot" THEN 0 ELSE 1]

RecordQuota(record, facts, t) ==
    LET row     == quota[record]
        history == SnapshotChanges(record, facts, t)
        changes == history \cup
                     (IF Older(row, t) THEN {}
                      ELSE ObservationChanges(QuotaId(record), row, facts))
    IN  /\ lastSnapshot < MaxSnapshots
        /\ Commit(changes, SnapshotFirst(changes))
        /\ snapshot' =
              Committed(IF history = {} THEN snapshot
                        ELSE [snapshot EXCEPT ![lastSnapshot + 1] =
                                 [payload |-> SnapshotPayload(record, facts, t)]],
                        snapshot)
        /\ lastSnapshot' =
              Committed(IF history = {} THEN lastSnapshot ELSE lastSnapshot + 1,
                        lastSnapshot)
        /\ quota' =
              Committed(IF Older(row, t) THEN quota
                        ELSE [quota EXCEPT ![record] = Observed(row, facts, t)],
                        quota)
        /\ UNCHANGED <<instance, balance>>

(* mark_quota_source_stale: a row observed after the attempt stays live.   *)
MarkQuotaSourceStale(provider, source, t) ==
    LET marked  == {record \in LiveOf(quota, provider, source) :
                       quota[record].observedAt <= t}
        changes == {StaleChange(QuotaId(record), quota[record]) : record \in marked}
    IN  /\ Commit(changes, AtOnce(changes))
        /\ quota' =
              Committed([record \in Quotas |->
                            IF record \in marked THEN Staled(quota[record])
                            ELSE quota[record]],
                        quota)
        /\ UNCHANGED <<instance, balance, snapshot, lastSnapshot>>

-----------------------------------------------------------------------------
CurrentNext ==
    /\ CanWrite
    /\ \/ \E provider \in Providers, facts \in Instances :
             UpsertProviderInstance(provider, facts)
       \/ \E facts \in Facts, t \in ObservationTimes :
             \/ \E record \in Balances : RecordBalance(record, facts, t)
             \/ \E record \in Quotas : RecordQuota(record, facts, t)
       \/ \E provider \in Providers, source \in CurrentSources, t \in ObservationTimes :
             \/ MarkBalanceSourceStale(provider, source, t)
             \/ MarkQuotaSourceStale(provider, source, t)

=============================================================================
