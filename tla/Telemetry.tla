------------------------------ MODULE Telemetry ------------------------------
(***************************************************************************)
(* The gateway's telemetry (gateway/telemetry.py): threads record finished *)
(* requests and ask for the recent rate over handles of one database.  A   *)
(* record never waits long: when it cannot be written it marks the window  *)
(* incomplete, in a state all handles share, and a rate is refused while a *)
(* mark overlaps it.  Rows and marks are of one provider and model; those  *)
(* of others never meet them.                                              *)
(***************************************************************************)
EXTENDS Integers, FiniteSets

CONSTANTS
    Nobody,
    Requests, Queries, Clears,  \* calls of record_request, recent_burn_rate, clear
    Handles,      \* GatewayTelemetryStore objects of one path
    Window,       \* window_minutes of the queries
    MaxWindow,    \* _MAX_BURN_WINDOW_MINUTES: marks before it are dropped
    RetainedFor,  \* retention_days
    MaxClock      \* bound: the clock

ASSUME TelemetryAssumption ==
    /\ Window \in Nat /\ MaxWindow \in Nat /\ RetainedFor \in Nat /\ MaxClock \in Nat
    /\ Window <= MaxWindow /\ MaxWindow <= RetainedFor
    /\ Nobody \notin [at : Nat, generation : Nat]

ClockTimes == 0 .. MaxClock

VARIABLES
    clock,       \* the wall clock
    holder,      \* who holds the lock of a handle, or Nobody
    writer,      \* who holds _writer_lock, or Nobody
    aggregates,  \* table request_aggregates: the requests recorded
    latest,      \* _latest_by_scope of the scope: finished_at and generation
    generation,  \* _next_generation
    request, query, clear,
    forgotten    \* history: the requests a clear was meant to forget

telemetryVars == <<clock, holder, writer, aggregates, latest, generation,
                   request, query, clear, forgotten>>

FinishedAt(r) == request[r].finished
Ended == {r \in Requests : request[r].at \in {"recorded", "dropped"}}

NoQuery == [at |-> "idle", handle |-> Nobody, from |-> Nobody, counted |-> {}, seen |-> {}]
NoClear == [at |-> "idle", handle |-> Nobody, through |-> Nobody, seen |-> {}]

TelemetryInit ==
    /\ clock = 0
    /\ holder = [h \in Handles |-> Nobody]
    /\ writer = Nobody
    /\ aggregates = {}
    /\ latest = Nobody
    /\ generation = 0
    /\ request = [r \in Requests |-> [at |-> "running", handle |-> Nobody, finished |-> Nobody]]
    /\ query = [q \in Queries |-> NoQuery]
    /\ clear = [c \in Clears |-> NoClear]
    /\ forgotten = {}

ReleaseHandle(h) == holder' = [holder EXCEPT ![h] = Nobody]

(***************************************************************************)
(* record_request.                                                         *)
(***************************************************************************)
MoveTo(r, at) == request' = [request EXCEPT ![r].at = at]

\* The runtime reads finished_at and calls the store.
FinishRequest(r, h) ==
    /\ request[r].at = "running"
    /\ request' = [request EXCEPT ![r] = [at |-> "finished", handle |-> h, finished |-> clock]]
    /\ UNCHANGED <<clock, holder, writer, aggregates, latest, generation, query, clear, forgotten>>

\* _try_operation_lock does not wait.
TryLock(r) ==
    LET h == request[r].handle IN
    /\ request[r].at = "finished"
    /\ \/ /\ holder[h] = Nobody
          /\ holder' = [holder EXCEPT ![h] = r]
          /\ MoveTo(r, "locked")
       \/ /\ holder[h] # Nobody
          /\ MoveTo(r, "failed")
          /\ UNCHANGED holder
    /\ UNCHANGED <<clock, writer, aggregates, latest, generation, query, clear, forgotten>>

\* serialized_writer waits for a while.
TakeWriter(r) ==
    /\ request[r].at = "locked"
    /\ \/ /\ writer = Nobody
          /\ writer' = r
          /\ MoveTo(r, "writing")
          /\ UNCHANGED holder
       \/ /\ writer # Nobody
          /\ MoveTo(r, "failed")
          /\ ReleaseHandle(request[r].handle)
          /\ UNCHANGED writer
    /\ UNCHANGED <<clock, aggregates, latest, generation, query, clear, forgotten>>

Retain(table) == {r \in table : FinishedAt(r) >= clock - RetainedFor}

EndWrite(r) ==
    /\ request[r].at = "writing"
    /\ writer' = Nobody
    /\ ReleaseHandle(request[r].handle)
    /\ UNCHANGED <<clock, latest, generation, query, clear, forgotten>>

RecordRequest(r) ==
    /\ EndWrite(r)
    /\ aggregates' = Retain(aggregates \cup {r})
    /\ MoveTo(r, "recorded")

\* The transaction is rolled back, or it commits and its end raises.
RecordFails(r) ==
    /\ EndWrite(r)
    /\ aggregates' \in {aggregates, Retain(aggregates \cup {r})}
    /\ MoveTo(r, "failed")

Mark(r) ==
    /\ request[r].at = "failed"
    /\ generation' = generation + 1
    /\ latest' = [at |-> IF latest = Nobody \/ latest.at < FinishedAt(r) THEN FinishedAt(r) ELSE latest.at,
                  generation |-> generation + 1]
    /\ MoveTo(r, "dropped")
    /\ UNCHANGED <<clock, holder, writer, aggregates, query, clear, forgotten>>

(***************************************************************************)
(* recent_burn_rate.  Its clock is read once, under the lock; the first of *)
(* its two looks at the marks follows at once.                             *)
(***************************************************************************)
\* Mutant: a request that ended at the cutoff is left out.
OverlapsBehind(from) == latest # Nobody /\ latest.at > from - Window

Overlaps(from) == latest # Nobody /\ latest.at >= from - Window
Outdated(from) == latest # Nobody /\ latest.at < from - MaxWindow

\* overlaps forgets a mark no query can ask for.
Prune(from) == latest' = IF Outdated(from) THEN Nobody ELSE latest

Inside(r, from) == FinishedAt(r) >= from - Window /\ FinishedAt(r) <= from

\* The call is over, and its locals are gone.
QueryEnds(q, at) == query' = [query EXCEPT ![q] = [NoQuery EXCEPT !.at = at]]

AskRate(q, h) ==
    /\ query[q].at = "idle"
    /\ \/ /\ holder[h] = Nobody
          /\ Prune(clock)
          /\ IF Overlaps(clock)
             THEN /\ QueryEnds(q, "unknown")
                  /\ UNCHANGED holder
             ELSE /\ query' = [query EXCEPT ![q] =
                         [at |-> "reading", handle |-> h, from |-> clock,
                          counted |-> {}, seen |-> {}]]
                  /\ holder' = [holder EXCEPT ![h] = q]
       \/ /\ holder[h] # Nobody
          /\ QueryEnds(q, "raised")
          /\ UNCHANGED <<holder, latest>>
    /\ UNCHANGED <<clock, writer, aggregates, generation, request, clear, forgotten>>

ReadRows(q) ==
    /\ query[q].at = "reading"
    /\ ReleaseHandle(query[q].handle)
    /\ \/ query' = [query EXCEPT ![q].at = "read",
                                 ![q].counted = {r \in aggregates : Inside(r, query[q].from)},
                                 ![q].seen = Ended]
       \/ QueryEnds(q, "raised")
    /\ UNCHANGED <<clock, writer, aggregates, latest, generation, request, clear, forgotten>>

\* The second look, after the lock is released.
AnswerRate(q) ==
    /\ query[q].at = "read"
    /\ Prune(query[q].from)
    /\ QueryEnds(q, IF Overlaps(query[q].from) \/ query[q].counted = {} THEN "unknown" ELSE "rate")
    /\ UNCHANGED <<clock, holder, writer, aggregates, generation, request, clear, forgotten>>

(***************************************************************************)
(* clear waits for its handle and forgets the marks made before it began.  *)
(***************************************************************************)
ReadGeneration(c, h) ==
    /\ clear[c].at = "idle"
    /\ holder[h] = Nobody
    /\ holder' = [holder EXCEPT ![h] = c]
    /\ clear' = [clear EXCEPT ![c] =
                    [at |-> "deleting", handle |-> h, through |-> generation, seen |-> Ended]]
    /\ UNCHANGED <<clock, writer, aggregates, latest, generation, request, query, forgotten>>

ClearEnds(c, at) == clear' = [clear EXCEPT ![c] = [NoClear EXCEPT !.at = at]]

\* When it raises, the rows are still there, or they are gone and what followed
\* the commit failed; the marks stay either way.
DeleteRows(c) ==
    /\ clear[c].at = "deleting"
    /\ \/ /\ aggregates' = {}
          /\ clear' = [clear EXCEPT ![c].at = "deleted"]
          /\ UNCHANGED holder
       \/ /\ aggregates' \in {aggregates, {}}
          /\ ClearEnds(c, "raised")
          /\ ReleaseHandle(clear[c].handle)
    /\ forgotten' = forgotten \cup (aggregates \ aggregates')
    /\ UNCHANGED <<clock, writer, latest, generation, request, query>>

Forgets(c) == latest # Nobody /\ latest.generation <= clear[c].through

ClearThrough(c) ==
    /\ clear[c].at = "deleted"
    /\ latest' = IF Forgets(c) THEN Nobody ELSE latest
    /\ forgotten' = forgotten \cup clear[c].seen
    /\ ClearEnds(c, "cleared")
    /\ ReleaseHandle(clear[c].handle)
    /\ UNCHANGED <<clock, writer, aggregates, generation, request, query>>

\* The clock moves on, and a query does not outlast the marks it needs.
ClockTick ==
    /\ clock < MaxClock
    /\ \A q \in Queries : query[q].at \in {"reading", "read"} =>
            clock < query[q].from + MaxWindow - Window
    /\ clock' = clock + 1
    /\ UNCHANGED <<holder, writer, aggregates, latest, generation, request, query, clear, forgotten>>

TelemetryNext ==
    \/ \E r \in Requests :
        \/ \E h \in Handles : FinishRequest(r, h)
        \/ TryLock(r) \/ TakeWriter(r) \/ RecordRequest(r) \/ RecordFails(r) \/ Mark(r)
    \/ \E q \in Queries :
        \/ \E h \in Handles : AskRate(q, h)
        \/ ReadRows(q) \/ AnswerRate(q)
    \/ \E c \in Clears :
        \/ \E h \in Handles : ReadGeneration(c, h)
        \/ DeleteRows(c) \/ ClearThrough(c)
    \/ ClockTick

TelemetrySpec == TelemetryInit /\ [][TelemetryNext]_telemetryVars

(***************************************************************************)
(* Properties.                                                             *)
(***************************************************************************)

\* The tables, locks and marks hold what the code puts there.
TelemetryTypeOK ==
    /\ clock \in ClockTimes
    /\ holder \in [Handles -> Requests \cup Queries \cup Clears \cup {Nobody}]
    /\ writer \in Requests \cup {Nobody}
    /\ aggregates \subseteq Requests
    /\ latest \in [at : ClockTimes, generation : 1 .. generation] \cup {Nobody}
    /\ \A r \in Requests :
        /\ request[r].at \in {"running", "finished", "locked", "writing",
                              "recorded", "failed", "dropped"}
        /\ request[r].handle \in Handles \cup {Nobody}
        /\ request[r].finished \in ClockTimes \cup {Nobody}
    /\ \A q \in Queries : query[q].at \in {"idle", "reading", "read", "unknown", "rate", "raised"}
    /\ \A c \in Clears : clear[c].at \in {"idle", "deleting", "deleted", "cleared", "raised"}

\* A rate leaves nothing out (docs/api/gateway-api-v1.md, the burn rate): when
\* one is answered, every request of its window that was recorded by the time
\* its rows were read is in it, and none was dropped, before the query, while
\* it read or between its reading and its second look at the marks, unless a
\* clear deleted the row or was told to forget the mark.
RateCountsAll ==
    [][\A q \in Queries : query[q].at = "read" /\ query'[q].at = "rate" =>
          \A r \in Ended \ forgotten : Inside(r, query[q].from) =>
              IF request[r].at = "dropped" THEN r \in query[q].counted
              ELSE r \in query[q].seen => r \in query[q].counted]_telemetryVars
==============================================================================
