-------------------------- MODULE CurrentCollector --------------------------
(***************************************************************************)
(* A refresh of the current facts: Aggregator and LedgerRefresher          *)
(* (openusage_bar/aggregator.py) ask every adapter, keep the cards they    *)
(* show in cards.json, and ActivityCollector (daily_history.py) brings     *)
(* balances, quotas and the health of their sources into the ledger.       *)
(* The daemon, a refresh of the command line and the menu bar app share    *)
(* the file; the app leaves the ledger alone, like one of the others that  *)
(* is killed behind its last word to the file.                             *)
(*                                                                         *)
(* One provider stands for all.  It has a balance source beside a card     *)
(* with a quota, or a quota source, which takes the place of the card's.   *)
(* Families without a quota, whose card has its status deleted, are left   *)
(* out: Ledger and its run of re-inserted records cover the deletion.      *)
(***************************************************************************)
EXTENDS Ledger

CONSTANTS
    Refreshers,    \* processes with an aggregator
    Provider,
    Source,        \* source_id of the balance or quota source
    Faulty,        \* "temporarily_unavailable"
    Record,        \* record_id of the source's balance or quota
    CardRecord,    \* "<provider>.subscription"
    Identity,      \* the provider instance
    Amount,        \* what is measured; it never changes
    MaxTick,       \* bound on reads
    MaxRefusals    \* bound on writes the store refuses

VARIABLES
    kind,        \* "balance" or "quota": what Source measures
    cardFile,    \* cards.json: the card or None
    lastResult,  \* last_balance_result: when a success was observed, else None
    asked,       \* history: how the source took the last question of a process
    refresher,   \* what each process is about to do
    tick,        \* the clock
    refusals,    \* writes refused so far
    alone        \* history: who refreshes without another one, or None

refreshVars  == <<kind, cardFile, lastResult, asked, refresher, tick, refusals, alone>>
currentState == <<vars, refreshVars>>

ASSUME CurrentCollectorAssumption ==
    /\ Provider \in Providers /\ Source \in CurrentSources /\ Source # CardSource
    /\ CardSource \notin {None, CatalogSource}
    /\ Faulty \in Faults
    /\ Record \in Balances \cap Quotas /\ CardRecord \in Quotas
    /\ Identity \in Instances /\ Amount \in CurrentValues
    /\ MaxTick \in 1..MaxTime /\ MaxTick <= MaxObservation /\ MaxRefusals \in Nat
    /\ None \notin Refreshers

-----------------------------------------------------------------------------
(* Cards.  A card has an amount (remaining_percent), or only an activity   *)
(* to show, or nothing but an error.                                       *)
Cards == [shows : {"amount", "activity", "error"}, time : 1..MaxTick,
          state : {"ok", "stale", Faulty}]

Card(shows, state) == [shows |-> shows, time |-> tick', state |-> state]

(* What the adapter brings: an amount, OpenUsage's bare activity, an       *)
(* error, or nothing, because it raised.                                   *)
FreshCards == {Card("amount", "ok"), Card("activity", "ok"), Card("error", Faulty), None}

Carried(card) == [card EXCEPT !.state = "stale"]

(* Aggregator.refresh: a card that came back with less than the cached one *)
(* gives way to it; a card that did not come back is the cached one.       *)
Resolved(fresh, cached) ==
    IF cached = None THEN fresh
    ELSE IF \/ fresh = None
            \/ fresh.shows = "activity" /\ cached.shows = "amount"
            \/ fresh.shows = "error" /\ cached.shows # "error"
         THEN Carried(cached)
    ELSE fresh

AtRest == [at |-> "idle", card |-> None, attempt |-> 0]

CurrentCollectorInit ==
    /\ kind \in {"balance", "quota"}
    /\ cardFile = None
    /\ lastResult = [w \in Refreshers |-> None]
    /\ asked = [w \in Refreshers |-> "never"]
    /\ refresher = [w \in Refreshers |-> AtRest]
    /\ tick = 0
    /\ refusals = 0
    /\ alone = None

Rests(w) == refresher[w].at \in {"idle", "done"}

GoesOn(w, next) == refresher' = [refresher EXCEPT ![w].at = next]

storeVars == <<feedVars, sourceStatus, currentVars>>

-----------------------------------------------------------------------------
(* The aggregator.                                                         *)

LoadCards(w) ==
    /\ Rests(w)
    /\ tick < MaxTick
    /\ refresher' = [refresher EXCEPT ![w] = [AtRest EXCEPT !.at = "asking", !.card = cardFile]]
    /\ alone' = IF \A other \in Refreshers \ {w} : Rests(other) THEN w ELSE None
    /\ UNCHANGED <<storeVars, kind, cardFile, lastResult, asked, tick, refusals>>

(* Every adapter in turn.  One that raises is passed over, with the result *)
(* it had (aggregator.py:153): MoonshotBalanceAdapter, for one, reads its  *)
(* key before it tries anything.                                           *)
Ask(w) ==
    /\ refresher[w].at = "asking"
    /\ tick < MaxTick
    /\ tick' = tick + 1
    /\ \E answer \in {"answered", "failed", "raised"} :
          /\ asked' = [asked EXCEPT ![w] = answer]
          /\ lastResult' = [lastResult EXCEPT
                ![w] = IF answer = "answered" THEN tick'
                       ELSE IF answer = "failed" THEN None ELSE @]
    /\ \E fresh \in FreshCards :
          refresher' = [refresher EXCEPT ![w].at = "resolved",
                                         ![w].card = Resolved(fresh, refresher[w].card)]
    /\ UNCHANGED <<storeVars, kind, cardFile, refusals, alone>>

(* CardCache.save replaces the file, whoever wrote it since it was read.   *)
(* The collector captures its attempt time when it starts.                 *)
SaveCards(w) ==
    /\ refresher[w].at = "resolved"
    /\ cardFile' = refresher[w].card
    /\ refresher' = [refresher EXCEPT ![w].at = "instances", ![w].attempt = tick]
    /\ UNCHANGED <<storeVars, kind, lastResult, asked, tick, refusals, alone>>

(* An error of the file system, or two cards that cannot be merged, end    *)
(* the refresh before the collector.                                       *)
SaveFails(w) ==
    /\ refresher[w].at = "resolved"
    /\ refresher' = [refresher EXCEPT ![w] = AtRest]
    /\ UNCHANGED <<storeVars, kind, cardFile, lastResult, asked, tick, refusals, alone>>

-----------------------------------------------------------------------------
(* The collector, one transaction of the ledger after another.             *)

Collects(w, at) ==
    /\ refresher[w].at = at
    /\ UNCHANGED <<kind, cardFile, lastResult, asked, tick>>

AttemptOf(w) == refresher[w].attempt
SourceKey    == <<Provider, Source>>
CardKey      == <<Provider, CardSource>>

(* The store took the write, as far as its log is followed.                *)
Granted == CanWrite /\ UNCHANGED <<refusals, alone>>

(* The store raised: the database was locked, or the disk full.            *)
Refused ==
    /\ refusals < MaxRefusals
    /\ refusals' = refusals + 1
    /\ RollBack
    /\ UNCHANGED <<sourceStatus, currentVars>>

Swallowed == Refused /\ alone' = None

FactsOf(source, stale) ==
    [provider |-> Provider, source |-> source, value |-> Amount, stale |-> stale]

(* What a refresh does after the source: an explicit quota source takes    *)
(* the place of the card's.                                                *)
AfterSource == IF kind = "quota" THEN "done" ELSE "card"

PublishInstance(w) ==
    /\ Collects(w, "instances")
    /\ \/ /\ refresher[w].card # None
          /\ \/ /\ UpsertProviderInstance(Provider, Identity) /\ UNCHANGED sourceStatus
                /\ Granted
             \/ Swallowed
       \/ refresher[w].card = None /\ UNCHANGED <<storeVars, refusals, alone>>
    /\ GoesOn(w, IF lastResult[w] = None THEN "marking" ELSE "observing")

(* Mutant: what could not be stored is only reported. *)
ReportOnly == "failing"

(* What could not be stored is marked like what could not be read.         *)
AfterRefusal == "marking"

RecordObservation(w) ==
    /\ Collects(w, "observing")
    /\ \/ /\ \/ /\ kind = "balance"
                /\ RecordBalance(Record, FactsOf(Source, FALSE), lastResult[w])
             \/ /\ kind = "quota"
                /\ RecordQuota(Record, FactsOf(Source, FALSE), lastResult[w])
          /\ UNCHANGED sourceStatus
          /\ Granted
          /\ GoesOn(w, IF raised' THEN AfterRefusal ELSE "succeeding")
       \/ Refused /\ UNCHANGED alone /\ GoesOn(w, AfterRefusal)

RecordSuccess(w) ==
    /\ Collects(w, "succeeding")
    /\ \/ /\ RecordSourceSuccess(SourceKey, AttemptOf(w), None) /\ UNCHANGED currentVars
          /\ Granted
          /\ GoesOn(w, IF raised' THEN AfterRefusal ELSE AfterSource)
       \/ Refused /\ UNCHANGED alone /\ GoesOn(w, AfterRefusal)

MarkStale(w) ==
    /\ Collects(w, "marking")
    /\ \/ /\ \/ kind = "balance" /\ MarkBalanceSourceStale(Provider, Source, AttemptOf(w))
             \/ kind = "quota" /\ MarkQuotaSourceStale(Provider, Source, AttemptOf(w))
          /\ UNCHANGED sourceStatus
          /\ Granted
       \/ Swallowed
    /\ GoesOn(w, "failing")

ReportFailure(w) ==
    /\ Collects(w, "failing")
    /\ \/ /\ RecordSourceStatus(SourceKey, Faulty, AttemptOf(w), None) /\ UNCHANGED currentVars
          /\ Granted
       \/ Swallowed
    /\ GoesOn(w, AfterSource)

(* _persist_current_quotas: a card with an amount is a quota observed when *)
(* the card was read; one with an activity says nothing of its quota.      *)
RecordCard(w) ==
    LET card == refresher[w].card
    IN  /\ Collects(w, "card")
        /\ \/ /\ card # None /\ card.shows = "amount"
              /\ \/ /\ RecordQuota(CardRecord, FactsOf(CardSource, card.state = "stale"),
                                   card.time)
                    /\ UNCHANGED sourceStatus
                    /\ Granted
                    /\ GoesOn(w, IF raised' THEN "cardFailing" ELSE "cardHealth")
                 \/ Refused /\ UNCHANGED alone /\ GoesOn(w, "cardFailing")
           \/ /\ card # None /\ card.shows # "amount" /\ card.state # "ok"
              /\ GoesOn(w, "cardHealth")
              /\ UNCHANGED <<storeVars, refusals, alone>>
           \/ /\ card # None => card.shows # "amount" /\ card.state = "ok"
              /\ GoesOn(w, "done")
              /\ UNCHANGED <<storeVars, refusals, alone>>

RecordCardHealth(w) ==
    LET state == IF refresher[w].at = "cardFailing" THEN Faulty ELSE refresher[w].card.state
    IN  /\ \E at \in {"cardHealth", "cardFailing"} : Collects(w, at)
        /\ \/ /\ IF state = "ok" THEN RecordSourceSuccess(CardKey, AttemptOf(w), None)
                 ELSE RecordSourceStatus(CardKey, state, AttemptOf(w), None)
              /\ UNCHANGED currentVars
              /\ Granted
           \/ Swallowed
        /\ GoesOn(w, "done")

(* A process ends, and one like it starts with adapters nobody has asked.  *)
Restart(w) ==
    /\ ~Rests(w)
    /\ refresher' = [refresher EXCEPT ![w] = AtRest]
    /\ lastResult' = [lastResult EXCEPT ![w] = None]
    /\ asked' = [asked EXCEPT ![w] = "never"]
    /\ UNCHANGED <<storeVars, kind, cardFile, tick, refusals, alone>>

CurrentCollectorNext ==
    \E w \in Refreshers :
        \/ LoadCards(w) \/ Ask(w) \/ SaveCards(w) \/ SaveFails(w)
        \/ PublishInstance(w)
        \/ RecordObservation(w) \/ RecordSuccess(w)
        \/ MarkStale(w) \/ ReportFailure(w)
        \/ RecordCard(w) \/ RecordCardHealth(w)
        \/ Restart(w)

(* Meanwhile the imports of history, retention, the catalog monitor and    *)
(* the collectors of other providers write the ledger, each its own rows.  *)
OwnRows ==
    <<sourceStatus[SourceKey], sourceStatus[CardKey],
      balance[Record], quota[Record], quota[CardRecord]>>

Others == Next /\ UNCHANGED OwnRows /\ UNCHANGED refreshVars

RefreshStep == CurrentCollectorNext /\ UNCHANGED dailyVars

CurrentCollectorSpec ==
    Init /\ CurrentCollectorInit /\ [][RefreshStep \/ Others]_currentState

-----------------------------------------------------------------------------
(* A card's health is reported of a card, and no read or attempt is ahead  *)
(* of the clock.                                                           *)
CurrentCollectorTypeOK ==
    /\ tick \in 0..MaxTick /\ refusals \in 0..MaxRefusals
    /\ alone \in Refreshers \cup {None}
    /\ cardFile \in Cards \cup {None}
    /\ \A w \in Refreshers :
          /\ lastResult[w] \in 1..tick \cup {None}
          /\ asked[w] \in {"never", "answered", "failed", "raised"}
          /\ refresher[w].card \in Cards \cup {None}
          /\ refresher[w].attempt \in 0..tick
          /\ refresher[w].at \in {"cardHealth", "cardFailing"} => refresher[w].card # None

Row == IF kind = "balance" THEN balance[Record] ELSE quota[Record]

Health(key) == sourceStatus[key].payload

(* A refresh that ran alone to its end, with whatever was left by those    *)
(* that were killed or overlapped before it, leaves the fact and the       *)
(* health of its source in agreement: live and healthy together, or stale  *)
(* and failed, unless the store refused the very report of a failure.      *)
(* And the card's quota is not behind the card: at least as new, and live  *)
(* only if the card is.                                                    *)
SourcesAgree ==
    \A w \in Refreshers :
        alone = w /\ refresher[w].at = "done" /\ asked[w] # "raised" =>
            /\ Health(SourceKey).lastAttempt = AttemptOf(w)
            /\ asked[w] = "failed" => Health(SourceKey).state = Faulty
            /\ Row # None => (Row.payload.stale <=> Health(SourceKey).state # "ok")
            /\ LET card == refresher[w].card
               IN  kind = "balance" /\ card # None /\ card.shows = "amount"
                   /\ Health(CardKey).state = card.state =>
                   /\ quota[CardRecord].observedAt >= card.time
                   /\ quota[CardRecord].observedAt = card.time =>
                         (quota[CardRecord].payload.stale <=> card.state = "stale")

(* "When the official balance fails, keep the last good one and mark it    *)
(* stale": a refresh that could not read the source of a balance does not  *)
(* leave its balance live.                                                 *)
FailedReadsShowStale ==
    \A w \in Refreshers :
        kind = "balance" /\ alone = w /\ refresher[w].at = "done"
        /\ asked[w] \in {"failed", "raised"} =>
            Row = None \/ Row.payload.stale

=============================================================================
