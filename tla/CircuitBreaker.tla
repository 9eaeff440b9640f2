--------------------------- MODULE CircuitBreaker ---------------------------
(***************************************************************************)
(* CircuitBreaker of openusage_bar/gateway/fallback.py: closed, open, or   *)
(* half open with one slot for a probe.  Each method is one step under the *)
(* lock.  Its callers may be threads that read the time before they had    *)
(* the lock, so times arrive in any order, and reports of requests that    *)
(* were admitted long ago come late.                                       *)
(***************************************************************************)
EXTENDS Naturals

CONSTANTS
    Threshold,  \* failure_threshold
    Reset,      \* reset_after_seconds
    LastTick,   \* bound: the times the callers bring
    Unset       \* no time: an attribute that is None, a time that is not finite

ASSUME BreakerAssumption ==
    Threshold \in Nat \ {0} /\ Reset \in Nat \ {0} /\ LastTick \in Nat /\ Unset \notin Nat

VARIABLES
    breaker,  \* _failure_count, _opened_at, _probe_in_flight, _last_now
    probedAt  \* history: when a probe was admitted last and no success has
              \* closed the circuit since, or Unset

breakerVars == <<breaker, probedAt>>

BreakerTimes == (0..LastTick) \cup {Unset}

BreakerInit ==
    /\ breaker = [failures |-> 0, openedAt |-> Unset, probing |-> FALSE, lastNow |-> Unset]
    /\ probedAt = Unset

-----------------------------------------------------------------------------
(* Mutant: a circuit that is open already keeps the time it was opened at. *)
OpenedOnce(b, t) ==
    [b EXCEPT !.failures = Threshold, !.probing = FALSE,
              !.openedAt = IF @ = Unset THEN t ELSE @]

Opened(b, t) ==
    [b EXCEPT !.failures = Threshold, !.openedAt = t, !.probing = FALSE]

Usable(b, now) == now # Unset /\ (b.lastNow # Unset => now >= b.lastNow)

(* A clock that went back, or is no number, opens the circuit; if there    *)
(* was no time yet, the first one will be when it opened.                  *)
Distrusted(b) ==
    IF b.lastNow # Unset THEN Opened(b, b.lastNow)
    ELSE [b EXCEPT !.failures = Threshold, !.openedAt = Unset, !.probing = TRUE]

(* _safe_now and _state_at, with what they change. *)
Seen(b, now) ==
    IF b.openedAt = Unset /\ b.failures >= Threshold
    THEN [b EXCEPT !.lastNow = now, !.openedAt = now, !.probing = FALSE]
    ELSE [b EXCEPT !.lastNow = now]

StateAt(b, now) ==
    IF b.openedAt = Unset THEN "closed"
    ELSE IF now - b.openedAt >= Reset THEN "half_open" ELSE "open"

Distrust(now) ==
    ~Usable(breaker, now) /\ breaker' = Distrusted(breaker) /\ UNCHANGED probedAt

Look(now) ==
    \/ Distrust(now)
    \/ Usable(breaker, now) /\ breaker' = Seen(breaker, now) /\ UNCHANGED probedAt

AllowRequest(now) ==
    \/ Distrust(now)
    \/ /\ Usable(breaker, now)
       /\ LET seen   == Seen(breaker, now)
              probes == StateAt(seen, now) = "half_open" /\ ~seen.probing
          IN  /\ breaker' = [seen EXCEPT !.probing = @ \/ probes]
              /\ probedAt' = IF probes THEN now ELSE probedAt

RecordFailure(now) ==
    \/ Distrust(now)
    \/ /\ Usable(breaker, now)
       /\ LET seen == Seen(breaker, now)
          IN  breaker' = IF StateAt(seen, now) = "closed" /\ seen.failures + 1 < Threshold
                         THEN [seen EXCEPT !.failures = @ + 1]
                         ELSE Opened(seen, now)
       /\ UNCHANGED probedAt

RecordSuccess(now) ==
    \/ Distrust(now)
    \/ /\ Usable(breaker, now)
       /\ LET seen   == Seen(breaker, now)
              closes == \/ StateAt(seen, now) = "closed"
                        \/ StateAt(seen, now) = "half_open" /\ seen.probing
          IN  /\ breaker' = IF closes
                            THEN [seen EXCEPT !.failures = 0, !.openedAt = Unset, !.probing = FALSE]
                            ELSE seen
              /\ probedAt' = IF closes THEN Unset ELSE probedAt

BreakerNext ==
    \E now \in BreakerTimes :
        Look(now) \/ AllowRequest(now) \/ RecordFailure(now) \/ RecordSuccess(now)

BreakerSpec == BreakerInit /\ [][BreakerNext]_breakerVars

-----------------------------------------------------------------------------
BreakerTypeOK ==
    /\ breaker \in [failures : 0..Threshold, openedAt : BreakerTimes,
                    probing : BOOLEAN, lastNow : BreakerTimes]
    /\ probedAt \in BreakerTimes

(* While no success closes the circuit, two probes are a full reset        *)
(* interval apart, whatever late reports, looks and broken clocks come in  *)
(* between: a provider that is down is asked once per interval.            *)
ProbesAreSpaced ==
    [][probedAt # Unset /\ probedAt' \notin {Unset, probedAt} => probedAt' >= probedAt + Reset]_breakerVars

=============================================================================
