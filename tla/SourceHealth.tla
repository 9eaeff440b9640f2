---------------------------- MODULE SourceHealth ----------------------------
(***************************************************************************)
(* Table source_status of openusage_bar/activity_store.py: for every       *)
(* (provider, source) the outcome of the newest attempt to read it.        *)
(*                                                                         *)
(* Attempt times order attempts: a writer captures attempted_at, reads a   *)
(* slow source, and writes afterwards, so writes arrive in any order of    *)
(* their attempt times.                                                    *)
(***************************************************************************)
EXTENDS ChangeLog

CONSTANTS
    Providers,       \* provider_id (with its one account_ref)
    UsageSources,    \* sources of daily usage: the official one, OpenUsage
    CostSources,     \* sources of daily costs
    CurrentSources,  \* sources of balances and quotas
    CardSource,      \* "current.quota", whose status may be deleted
    CatalogSource,   \* the OpenUsage catalog monitor, which may roll back
    Faults,          \* states other than "ok" and "stale"
    MaxTime,         \* bound on attempt times
    Freshness        \* freshness_seconds

VARIABLE sourceStatus   \* [Providers \X Sources -> row or None]

Times == 1..MaxTime

Sources == UsageSources \cup CostSources \cup CurrentSources
             \cup ({CardSource, CatalogSource} \ {None})

StatusKeys == Providers \X Sources

StatusId(key) == RecordId("source_status", key)

ASSUME TimeAssumption == MaxTime \in Nat /\ Freshness \in Nat

(* The card and the catalog are sources of their own.                      *)
ASSUME SourceAssumption ==
    {CardSource, CatalogSource} \cap (UsageSources \cup CostSources) = {}

ASSUME NoTimeAssumption == None \notin Nat

ASSUME FaultAssumption == {"ok", "stale"} \cap Faults = {}

-----------------------------------------------------------------------------
(* The columns of _source_status_payload; error_code goes with the state.  *)
StatusFacts ==
    [state       : {"ok", "stale"} \cup Faults,
     lastAttempt : Times,
     lastSuccess : Times \cup {None},
     staleAt     : 1..(MaxTime + Freshness) \cup {None}]

StatusRows == [payload : StatusFacts, revision : Nat \ {0}]

StatusTypeOK == sourceStatus \in [StatusKeys -> StatusRows \cup {None}]

StatusInit == sourceStatus = [key \in StatusKeys |-> None]

(* Mutant: no expectation taken for a met one. *)
SupersedesUnasked(t, row, expected) ==
    \/ t >= row.payload.lastAttempt
    \/ expected = None
    \/ row.payload.lastAttempt = expected

(* ON CONFLICT ... DO UPDATE ... WHERE: an older attempt changes nothing   *)
(* unless it names the attempt it replaces (the compare-and-swap).         *)
Supersedes(t, row, expected) ==
    \/ t >= row.payload.lastAttempt
    \/ expected # None /\ row.payload.lastAttempt = expected

SuccessFacts(t) ==
    [state |-> "ok", lastAttempt |-> t, lastSuccess |-> t,
     staleAt |-> t + Freshness]

(* Mutant: the success is written without the WHERE. *)
AfterAnySuccess(key, t, expected) == SuccessFacts(t)

(* Facts after a success attempted at t. *)
AfterSuccess(key, t, expected) ==
    LET row == sourceStatus[key]
    IN  IF row # None /\ ~Supersedes(t, row, expected)
        THEN row.payload
        ELSE SuccessFacts(t)

(* Mutant: an explicit stale sets the deadline to its own attempt. *)
AtAttempt(t, deadline) == t

Earlier(t, deadline) == IF deadline = None \/ t < deadline THEN t ELSE deadline

(* Facts after an attempt at t that ended in another state: the last       *)
(* success stays, and an explicit stale never moves a deadline later.      *)
AfterOutcome(key, state, t, expected) ==
    LET row == sourceStatus[key]
    IN  IF row = None
        THEN [state |-> state, lastAttempt |-> t, lastSuccess |-> None,
              staleAt |-> IF state = "stale" THEN t ELSE None]
        ELSE IF ~Supersedes(t, row, expected) THEN row.payload
        ELSE [state       |-> state,
              lastAttempt |-> t,
              lastSuccess |-> row.payload.lastSuccess,
              staleAt     |-> IF state = "stale"
                              THEN Earlier(t, row.payload.staleAt)
                              ELSE row.payload.staleAt]

(* _publish_source_status_change_locked: the revision continues the row,   *)
(* not the log, so it restarts at 1 when there is no row.                  *)
StatusRevision(key) ==
    IF sourceStatus[key] = None THEN 1 ELSE sourceStatus[key].revision + 1

StatusUnchanged(key, facts) ==
    sourceStatus[key] # None /\ sourceStatus[key].payload = facts

StatusChanges(key, facts) ==
    IF StatusUnchanged(key, facts) THEN {}
    ELSE {Change(StatusId(key), StatusRevision(key),
                 IF sourceStatus[key] = None THEN "insert" ELSE "update",
                 facts)}

WithStatus(key, facts) ==
    IF StatusUnchanged(key, facts) THEN sourceStatus
    ELSE [sourceStatus EXCEPT
            ![key] = [payload |-> facts, revision |-> StatusRevision(key)]]

(* Mutant: imports without the fence. *)
NeverNewer(key, t) == FALSE

(* str(last_attempt_at) > attempted: the fence in front of every import.   *)
HasNewerAttempt(key, t) ==
    sourceStatus[key] # None /\ sourceStatus[key].payload.lastAttempt > t

AtOnce(changes) == [c \in changes |-> 0]

-----------------------------------------------------------------------------
(* Operations.  Only the catalog monitor passes replace_if_last_attempt_at *)
(* (the last_attempt_at it read before running its detector).              *)

ExpectedBy(source) == IF source = CatalogSource THEN Times \cup {None} ELSE {None}

(* The catalog monitor knows only success and temporarily_unavailable.     *)
StatesBy(source) == IF source = CatalogSource THEN Faults ELSE Faults \cup {"stale"}

RecordSourceSuccess(key, t, expected) ==
    LET facts == AfterSuccess(key, t, expected)
    IN  /\ Commit(StatusChanges(key, facts), AtOnce(StatusChanges(key, facts)))
        /\ sourceStatus' = Committed(WithStatus(key, facts), sourceStatus)

RecordSourceStatus(key, state, t, expected) ==
    LET facts == AfterOutcome(key, state, t, expected)
    IN  /\ Commit(StatusChanges(key, facts), AtOnce(StatusChanges(key, facts)))
        /\ sourceStatus' = Committed(WithStatus(key, facts), sourceStatus)

(* Only the card source's status is ever deleted, when the card turns out  *)
(* to have no quota.                                                       *)
StatusTombstones(key, t) ==
    IF sourceStatus[key] # None /\ sourceStatus[key].payload.lastAttempt <= t
    THEN {Change(StatusId(key), sourceStatus[key].revision + 1, "delete", None)}
    ELSE {}

DeleteSourceStatus(key, t) ==
    LET changes == StatusTombstones(key, t)
    IN  /\ Commit(changes, AtOnce(changes))
        /\ sourceStatus' =
              Committed(IF changes = {} THEN sourceStatus
                        ELSE [sourceStatus EXCEPT ![key] = None],
                        sourceStatus)

StatusNext ==
    /\ CanWrite
    /\ \E key \in StatusKeys, t \in Times :
          \/ \E expected \in ExpectedBy(key[2]) :
                \/ RecordSourceSuccess(key, t, expected)
                \/ \E state \in StatesBy(key[2]) :
                      RecordSourceStatus(key, state, t, expected)
          \/ key[2] = CardSource /\ DeleteSourceStatus(key, t)

=============================================================================
