------------------------- MODULE LedgerClientProofs -------------------------
(***************************************************************************)
(* Theorems about those who use the ledger: the collector of the history,  *)
(* the refresh of the current facts, and the service that runs both beside *)
(* everybody else.                                                         *)
(***************************************************************************)
EXTENDS Service, LedgerProofs, ServiceProofs

-----------------------------------------------------------------------------
(* The collector: what its refreshes know.                                 *)
Stages == {"idle", "usage", "official", "fallback", "openusage", "costs",
           "billing", "retention"}

Asking == {"official", "fallback", "openusage", "billing"}

Refreshes ==
    [at : Stages, scope : {"all", "usage"}, attempt : Nat, todo : SUBSET Providers,
     provider : Providers \cup {None}, window : SUBSET Days, blind : BOOLEAN]

(* A refresh under way has drawn its attempt from the clock, and knows     *)
(* the provider it asks about.                                             *)
Drawn(me, now) ==
    /\ me.at # "idle" => me.attempt \in 1..now
    /\ me.at \in Asking => me.provider \in Providers

RefreshesTyped ==
    /\ clock \in 0..MaxTime
    /\ version \in 0..MaxVersion
    /\ worker \in [Workers -> Refreshes]
    /\ \A w \in Workers : Drawn(worker[w], clock)

(* The windows are days. *)
LEMMA WindowsAreDays ==
    ASSUME NEW w, NEW provider
    PROVE  /\ \A window \in OfficialWindows(w, provider) : window \subseteq Days
           /\ FallbackWindow(w, provider) \subseteq Days
           /\ \A window \in CostWindows(w, provider) : window \subseteq Days
<1>1. Today \subseteq Days /\ ThisWeek \subseteq Days
  BY CollectorAssumption, DayAssumption DEF Today, ThisWeek, Days
<1> QED
  BY <1>1 DEF OfficialWindows, FallbackWindow, CostWindows

(* Wherever a refresh goes behind a provider, it asks about none. *)
LEMMA AfterTyped ==
    ASSUME RefreshesTyped, NEW w \in Workers, worker[w].at # "idle",
           NEW next \in {AfterUsage(w), AfterCosts(w)}
    PROVE  next \in Refreshes /\ Drawn(next, clock) /\ next.at \notin Asking
<1> DEFINE me   == worker[w]
           left == Leaves(w)
<1>1. /\ me \in Refreshes /\ me.attempt \in 1..clock
      /\ left \in Refreshes /\ left.attempt = me.attempt
  <2>1. me \in Refreshes /\ me.attempt \in 1..clock
    BY DEF RefreshesTyped, Drawn
  <2>2. {} \in SUBSET Days
    OBVIOUS
  <2> QED
    BY <2>1, <2>2 DEF Leaves, Refreshes
<1>2. Importers \subseteq Providers
  BY CollectorAssumption
<1>3. Idle \in Refreshes
  BY DEF Idle, Refreshes, Stages
<1> DEFINE Then(stage, todo) == [left EXCEPT !.at = stage, !.todo = todo]
<1>5. me.todo \ {me.provider} \in SUBSET Providers
  BY <1>1 DEF Refreshes
<1>6. CASE next = AfterUsage(w)
  <2>1. \/ next = Idle
        \/ \E stage \in {"usage", "retention", "costs"}, todo \in SUBSET Providers :
              next = Then(stage, todo)
    <3>1. {} \in SUBSET Providers
      OBVIOUS
    <3> HIDE DEF left
    <3> QED
      BY <1>2, <1>5, <1>6, <3>1 DEF AfterUsage, left
  <2>2. CASE next = Idle
    BY <1>3, <2>2 DEF Idle, Drawn, Asking
  <2>3. CASE next # Idle
    <3> HIDE DEF left
    <3>0. PICK stage \in {"usage", "retention", "costs"}, todo \in SUBSET Providers :
             next = Then(stage, todo)
      BY <2>1, <2>3
    <3>1. next \in Refreshes /\ next.attempt = me.attempt /\ next.at = stage
      BY <1>1, <3>0 DEF Refreshes, Stages
    <3> QED
      BY <1>1, <3>1 DEF Drawn, Asking
  <2> QED
    BY <2>2, <2>3
<1>7. CASE next = AfterCosts(w)
  <2>1. PICK stage \in {"retention", "costs"} : next = Then(stage, me.todo \ {me.provider})
    BY <1>7 DEF AfterCosts
  <2> HIDE DEF left
  <2>2. next \in Refreshes /\ next.attempt = me.attempt /\ next.at = stage
    BY <1>1, <1>5, <2>1 DEF Refreshes, Stages
  <2> QED
    BY <1>1, <2>2 DEF Drawn, Asking
<1> QED
  BY <1>6, <1>7

(* One process moves. *)
LEMMA MoveTyped ==
    ASSUME RefreshesTyped, NEW w \in Workers, NEW next \in Refreshes, Goes(w, next),
           UNCHANGED version, clock' \in clock..MaxTime, Drawn(next, clock')
    PROVE  RefreshesTyped'
<1>1. worker' \in [Workers -> Refreshes] /\ worker'[w] = next
  BY DEF RefreshesTyped, Goes
<1>2. \A v \in Workers \ {w} : worker'[v] = worker[v]
  BY DEF RefreshesTyped, Goes
<1>3. \A v \in Workers : Drawn(worker'[v], clock')
  BY <1>1, <1>2, TimeAssumption DEF RefreshesTyped, Drawn, Refreshes
<1> QED
  BY <1>1, <1>3, TimeAssumption DEF RefreshesTyped

(* A step of the collector leaves every refresh as it should be.           *)
LEMMA RefreshesStep ==
    ASSUME RefreshesTyped, [CollectorNext]_everything
    PROVE  RefreshesTyped'
<1>1. ASSUME NEW w \in Workers, Begin(w)
      PROVE  RefreshesTyped'
  <2>1. \E todo \in SUBSET Providers, scope \in {"all", "usage"} :
           Goes(w, Starting(todo, scope))
    <3>1. Providers \in SUBSET Providers /\ Eager \in SUBSET Providers
      BY CollectorAssumption
    <3> QED
      BY <1>1, <3>1 DEF Begin
  <2>2. PICK todo \in SUBSET Providers, scope \in {"all", "usage"} :
           Goes(w, Starting(todo, scope))
    BY <2>1
  <2>3. clock' = clock + 1 /\ clock < MaxTime /\ clock \in Nat
    BY <1>1, TimeAssumption DEF Begin, RefreshesTyped
  <2>4. /\ Starting(todo, scope) \in Refreshes
        /\ Starting(todo, scope).at = "usage"
        /\ Starting(todo, scope).attempt = clock + 1
    <3>1. clock + 1 \in Nat
      BY <2>3
    <3> QED
      BY <3>1 DEF Starting, Idle, Refreshes, Stages
  <2>5. Drawn(Starting(todo, scope), clock')
    <3>1. clock + 1 \in 1..clock'
      BY <2>3
    <3> QED
      BY <2>4, <3>1 DEF Drawn, Asking
  <2>6. clock' \in clock..MaxTime /\ UNCHANGED version
    BY <1>1, <2>3, TimeAssumption DEF Begin
  <2> QED
    BY <2>2, <2>4, <2>5, <2>6, MoveTyped
<1>2. ASSUME NEW w \in Workers, NEW next \in Refreshes, Goes(w, next), Drawn(next, clock),
             UNCHANGED <<clock, version>>
      PROVE  RefreshesTyped'
  <2>1. clock' \in clock..MaxTime /\ Drawn(next, clock')
    BY <1>2, TimeAssumption DEF RefreshesTyped, Drawn
  <2> QED
    BY <1>2, <2>1, MoveTyped
<1>3. Idle \in Refreshes /\ \A now : Drawn(Idle, now)
  BY DEF Idle, Refreshes, Stages, Drawn, Asking
<1>4. ASSUME NEW w \in Workers, worker[w].at # "idle", NEW stage \in Asking,
             NEW provider \in Providers, NEW window \in SUBSET Days, NEW blind \in BOOLEAN,
             Goes(w, [worker[w] EXCEPT !.at = stage, !.provider = provider,
                                       !.window = window, !.blind = blind]),
             UNCHANGED <<clock, version>>
      PROVE  RefreshesTyped'
  <2> DEFINE me == worker[w]
             next == [me EXCEPT !.at = stage, !.provider = provider,
                                !.window = window, !.blind = blind]
  <2>1. me \in Refreshes /\ me.attempt \in 1..clock
    BY <1>4 DEF RefreshesTyped, Drawn
  <2>2. Goes(w, next)
    BY <1>4
  <2> HIDE DEF me
  <2>3. next \in Refreshes /\ next.attempt = me.attempt /\ next.provider = provider
    BY <2>1 DEF Refreshes, Stages, Asking
  <2>4. Drawn(next, clock)
    BY <2>1, <2>3 DEF Drawn
  <2> HIDE DEF next
  <2> QED
    BY <1>2, <1>4, <2>2, <2>3, <2>4
<1>5. ASSUME NEW w \in Workers, ChooseUsage(w) \/ ChooseFallback(w) \/ ChooseCosts(w)
      PROVE  RefreshesTyped'
  <2> DEFINE me == worker[w]
  <2>1. /\ me \in Refreshes /\ Drawn(me, clock) /\ me.at # "idle"
        /\ me.window \in SUBSET Days /\ me.blind \in BOOLEAN
        /\ UNCHANGED <<clock, version>>
    BY <1>5 DEF RefreshesTyped, Refreshes, ChooseUsage, ChooseFallback, ChooseCosts
  <2>2. CASE ChooseUsage(w)
    <3>1. PICK provider \in me.todo :
             \/ \E window \in OfficialWindows(w, provider) :
                   Goes(w, [me EXCEPT
                              !.at = "official", !.provider = provider, !.window = window,
                              !.blind = window # Days /\ ~HasSourceSuccess(provider)])
             \/ Goes(w, [me EXCEPT !.at = "fallback", !.provider = provider])
      BY <2>2 DEF ChooseUsage
    <3>2. /\ provider \in Providers
          /\ \A window \in OfficialWindows(w, provider) : window \in SUBSET Days
          /\ "official" \in Asking /\ "fallback" \in Asking
      BY <2>1, WindowsAreDays DEF Refreshes, Asking
    <3>3. CASE Goes(w, [me EXCEPT !.at = "fallback", !.provider = provider])
      <4>1. [me EXCEPT !.at = "fallback", !.provider = provider]
               = [me EXCEPT !.at = "fallback", !.provider = provider,
                            !.window = me.window, !.blind = me.blind]
        BY <2>1 DEF Refreshes
      <4>2. Goes(w, [me EXCEPT !.at = "fallback", !.provider = provider,
                               !.window = me.window, !.blind = me.blind])
        BY <3>3, <4>1
      <4> QED
        BY <1>4, <2>1, <3>2, <4>2
    <3>4. ASSUME NEW window \in OfficialWindows(w, provider),
                 Goes(w, [me EXCEPT
                            !.at = "official", !.provider = provider, !.window = window,
                            !.blind = window # Days /\ ~HasSourceSuccess(provider)])
          PROVE  RefreshesTyped'
      <4>1. (window # Days /\ ~HasSourceSuccess(provider)) \in BOOLEAN
        OBVIOUS
      <4> QED
        BY <1>4, <2>1, <3>2, <3>4, <4>1
    <3> QED
      BY <3>1, <3>3, <3>4
  <2>3. CASE ChooseFallback(w)
    <3> DEFINE window == FallbackWindow(w, me.provider)
    <3>1. /\ me.provider \in Providers /\ window \in SUBSET Days
          /\ "openusage" \in Asking
      BY <2>1, <2>3, WindowsAreDays DEF ChooseFallback, Drawn, Asking
    <3>2. [me EXCEPT !.at = "openusage", !.window = window]
             = [me EXCEPT !.at = "openusage", !.provider = me.provider,
                          !.window = window, !.blind = me.blind]
      BY <2>1 DEF Refreshes
    <3>3. Goes(w, [me EXCEPT !.at = "openusage", !.provider = me.provider,
                             !.window = window, !.blind = me.blind])
      BY <2>3, <3>2 DEF ChooseFallback
    <3> QED
      BY <1>4, <2>1, <3>1, <3>3
  <2>4. CASE ChooseCosts(w)
    <3>0. PICK provider \in me.todo : \E window \in CostWindows(w, provider) :
             Goes(w, [me EXCEPT !.at = "billing", !.provider = provider, !.window = window,
                                !.blind = window # Days /\ ~HasCostHistory(provider)])
      BY <2>4 DEF ChooseCosts
    <3>1. PICK window \in CostWindows(w, provider) :
             Goes(w, [me EXCEPT !.at = "billing", !.provider = provider, !.window = window,
                                !.blind = window # Days /\ ~HasCostHistory(provider)])
      BY <3>0
    <3>2. /\ provider \in Providers /\ window \in SUBSET Days /\ "billing" \in Asking
          /\ (window # Days /\ ~HasCostHistory(provider)) \in BOOLEAN
      BY <2>1, WindowsAreDays DEF Refreshes, Asking
    <3> QED
      BY <1>4, <2>1, <3>1, <3>2
  <2> QED
    BY <1>5, <2>2, <2>3, <2>4
<1>6. ASSUME NEW w \in Workers, OfficialFails(w)
      PROVE  RefreshesTyped'
  <2> DEFINE me == worker[w]
  <2>1. /\ me \in Refreshes /\ me.provider \in Providers /\ {} \in SUBSET Days
        /\ me.at # "idle" /\ "fallback" \in Asking
    BY <1>6 DEF RefreshesTyped, OfficialFails, Drawn, Asking
  <2>2. [me EXCEPT !.at = "fallback", !.window = {}, !.blind = FALSE]
           = [me EXCEPT !.at = "fallback", !.provider = me.provider,
                        !.window = {}, !.blind = FALSE]
    BY <2>1 DEF Refreshes
  <2>3. /\ Goes(w, [me EXCEPT !.at = "fallback", !.provider = me.provider,
                              !.window = {}, !.blind = FALSE])
        /\ UNCHANGED <<clock, version>>
    BY <1>6, <2>2 DEF OfficialFails
  <2> QED
    BY <1>4, <2>1, <2>3
<1>7. ASSUME NEW w \in Workers,
             \/ OfficialCommits(w) \/ FallbackCommits(w) \/ FallbackFails(w)
             \/ CostsCommit(w) \/ CostsFail(w)
      PROVE  RefreshesTyped'
  <2>1. /\ worker[w].at # "idle"
        /\ Goes(w, AfterUsage(w)) \/ Goes(w, AfterCosts(w))
        /\ UNCHANGED <<clock, version>>
    BY <1>7 DEF OfficialCommits, FallbackCommits, FallbackFails, CostsCommit, CostsFail
  <2> QED
    BY <1>2, <2>1, AfterTyped
<1>8. ASSUME NEW w \in Workers, Retain(w) \/ Killed(w)
      PROVE  RefreshesTyped'
  BY <1>2, <1>3, <1>8 DEF Retain, Killed
<1>9. CASE Upgrade
  <2>1. /\ clock' = clock /\ version' \in 0..MaxVersion
        /\ worker' = [w \in Workers |-> Idle]
    BY <1>9, CollectorAssumption DEF Upgrade, RefreshesTyped
  <2>2. \A w \in Workers : worker'[w] \in Refreshes /\ Drawn(worker'[w], clock')
    BY <1>3, <2>1
  <2> QED
    BY <1>3, <2>1, <2>2 DEF RefreshesTyped
<1>10. CASE UNCHANGED everything
  BY <1>10 DEF RefreshesTyped, Drawn, everything, collectorVars
<1> QED
  BY <1>1, <1>5, <1>6, <1>7, <1>8, <1>9, <1>10 DEF CollectorNext

(* What a refresh under way hands to the store is of the store's types.    *)
LEMMA HandsTyped ==
    ASSUME RefreshesTyped, NEW w \in Workers, worker[w].at \in Asking
    PROVE  /\ worker[w].provider \in Providers
           /\ worker[w].attempt \in Times
           /\ worker[w].window \in SUBSET Days
           /\ Revision \in Contracts \cup {None}
<1>1. worker[w] \in Refreshes /\ worker[w].provider \in Providers
  BY DEF RefreshesTyped, Drawn
<1>2. worker[w].attempt \in 1..clock /\ clock \in 0..MaxTime
  BY DEF RefreshesTyped, Drawn, Asking
<1>3. Revision \in Contracts \cup {None}
  BY CollectorAssumption DEF RefreshesTyped, Revision
<1> QED
  BY <1>1, <1>2, <1>3, TimeAssumption DEF Times, Refreshes

(* An outcome recorded by the collector.                                   *)
LEMMA OutcomeStep ==
    ASSUME TypeOK, RefreshesTyped, NEW w \in Workers, worker[w].at \in Asking,
           NEW source \in Sources, NEW state \in Faults \cup {"stale"},
           RecordSourceStatus(<<worker[w].provider, source>>, state, worker[w].attempt, None),
           UNCHANGED <<dailyVars, currentVars>>
    PROVE  TypeOK' /\ (LogReplaysTables => LogReplaysTables')
<1> DEFINE key == <<worker[w].provider, source>>
           t   == worker[w].attempt
<1>1. key \in StatusKeys /\ t \in Times
  BY HandsTyped DEF StatusKeys
<1>2. StatusTypeOK
  BY DEF TypeOK
<1> HIDE DEF key, t
<1>3. AfterOutcome(key, state, t, None) \in StatusFacts
  BY <1>1, <1>2, OutcomeTyped
<1>4. RecordSourceStatus(key, state, t, None)
  BY DEF key, t
<1> QED
  BY <1>1, <1>3, <1>4, StatusStep DEF RecordSourceStatus

(* The collector uses the store within its types, whoever is killed.       *)
LEMMA LedgerKept ==
    ASSUME TypeOK, RefreshesTyped, [CollectorNext]_everything
    PROVE  TypeOK' /\ (LogReplaysTables => LogReplaysTables')
<1>1. CASE UNCHANGED vars
  BY <1>1, NextStep
<1>2. /\ Official \in UsageSources /\ OpenUsage \in UsageSources /\ Billing \in CostSources
      /\ {Official, OpenUsage, Billing} \subseteq Sources
      /\ Failed \in Faults
  BY CollectorAssumption DEF Sources
<1>3. ASSUME NEW w \in Workers, OfficialCommits(w)
      PROVE  TypeOK' /\ (LogReplaysTables => LogReplaysTables')
  <2> DEFINE me == worker[w]
  <2>1. /\ me.at \in Asking
        /\ UNCHANGED costVars /\ UNCHANGED currentVars
        /\ \E rows \in [InRange(UsageKeys, me.provider, me.window) -> Values \cup {None}] :
              CommitUsageImport(me.provider, Official, me.window, rows, me.attempt, Revision)
    BY <1>3 DEF OfficialCommits, Asking
  <2> QED
    BY <1>2, <2>1, HandsTyped, UsageImportStep
<1>4. ASSUME NEW w \in Workers, FallbackCommits(w)
      PROVE  TypeOK' /\ (LogReplaysTables => LogReplaysTables')
  <2> DEFINE me == worker[w]
  <2>1. /\ me.at \in Asking
        /\ UNCHANGED costVars /\ UNCHANGED currentVars
        /\ \E rows \in [InRange(UsageKeys, me.provider, me.window) -> Values \cup {None}] :
              CommitUsageImport(me.provider, OpenUsage, me.window, rows, me.attempt, None)
    BY <1>4 DEF FallbackCommits, Asking
  <2> QED
    BY <1>2, <2>1, HandsTyped, UsageImportStep
<1>5. ASSUME NEW w \in Workers, CostsCommit(w)
      PROVE  TypeOK' /\ (LogReplaysTables => LogReplaysTables')
  <2> DEFINE me == worker[w]
  <2>1. /\ me.at \in Asking
        /\ UNCHANGED usageVars /\ UNCHANGED currentVars
        /\ \E rows \in [InRange(CostKeys, me.provider, me.window) -> Values \cup {None}] :
              CommitCostImport(me.provider, Billing, me.window, rows, me.attempt)
    BY <1>5 DEF CostsCommit, Asking
  <2> QED
    BY <1>2, <2>1, HandsTyped, CostImportStep
<1>6. ASSUME NEW w \in Workers, OfficialFails(w)
      PROVE  TypeOK' /\ (LogReplaysTables => LogReplaysTables')
  BY <1>2, <1>6, OutcomeStep DEF OfficialFails, Asking
<1>7. ASSUME NEW w \in Workers, CostsFail(w)
      PROVE  TypeOK' /\ (LogReplaysTables => LogReplaysTables')
  BY <1>2, <1>7, OutcomeStep DEF CostsFail, Asking
<1>8. ASSUME NEW w \in Workers, FallbackFails(w)
      PROVE  TypeOK' /\ (LogReplaysTables => LogReplaysTables')
  <2>1. PICK state \in Faults \cup {"stale"} :
           RecordSourceStatus(<<worker[w].provider, OpenUsage>>, state, worker[w].attempt, None)
    BY <1>2, <1>8 DEF FallbackFails
  <2>2. worker[w].at \in Asking /\ UNCHANGED <<dailyVars, currentVars>>
    BY <1>8 DEF FallbackFails, Asking
  <2> QED
    BY <1>2, <2>1, <2>2, OutcomeStep
<1>9. ASSUME NEW w \in Workers, Retain(w)
      PROVE  TypeOK' /\ (LogReplaysTables => LogReplaysTables')
  BY <1>9, PurgeStep DEF Retain
<1>10. ASSUME NEW w \in Workers,
              \/ Begin(w) \/ ChooseUsage(w) \/ ChooseFallback(w) \/ ChooseCosts(w)
              \/ Killed(w)
       PROVE  UNCHANGED vars
  BY <1>10 DEF Begin, ChooseUsage, ChooseFallback, ChooseCosts, Killed
<1>11. Upgrade \/ UNCHANGED everything => UNCHANGED vars
  BY DEF Upgrade, everything
<1> QED
  BY <1>1, <1>3, <1>4, <1>5, <1>6, <1>7, <1>8, <1>9, <1>10, <1>11 DEF CollectorNext

(* At the start no refresh runs.                                           *)
LEMMA CollectorInitHolds ==
    Init /\ CollectorInit => TypeOK /\ LogReplaysTables /\ RefreshesTyped
<1> SUFFICES ASSUME Init, CollectorInit
             PROVE  TypeOK /\ LogReplaysTables /\ RefreshesTyped
  OBVIOUS
<1>1. Idle \in Refreshes /\ Drawn(Idle, clock)
  BY DEF Idle, Refreshes, Stages, Drawn, Asking
<1>2. RefreshesTyped
  BY <1>1, TimeAssumption, CollectorAssumption DEF CollectorInit, RefreshesTyped
<1> QED
  BY <1>2, InitHolds

-----------------------------------------------------------------------------
(* The history is whole because the facts a refresh chooses its window by  *)
(* are: whatever stands for an earlier import stands for a whole year,     *)
(* unless it was cut, and a window shorter than the year was chosen over a *)
(* year that is there, imported under the installed contract, unless it is *)
(* one that cuts.                                                          *)
YearCovered(provider) == \A day \in Days : coverage[<<provider, day>>] # None

YearBilled(provider) == \A day \in Days : costCoverage[<<provider, day>>] # None

Stands(provider) == YearCovered(provider) \/ <<provider, "usage">> \in cut

Billed(provider) == YearBilled(provider) \/ <<provider, "costs">> \in cut

YearsWhole ==
    \A provider \in Providers :
        /\ HasDailyHistory(provider) \/ HasSourceSuccess(provider) => Stands(provider)
        /\ HasCostHistory(provider) => Billed(provider)

Free(w, me) == me.window = Days \/ w \in Daemons \/ me.blind

Chosen(w, me) ==
    /\ me.at \in {"official", "openusage"} => Free(w, me) \/ Stands(me.provider)
    /\ me.at = "billing" => Free(w, me) \/ Billed(me.provider)
    /\ me.at = "official" =>
          Free(w, me) \/ Revision \in {None, contract[<<me.provider, Official>>]}

YearInv ==
    /\ YearsWhole
    /\ ContractReimported
    /\ \A w \in Workers : Chosen(w, worker[w])

(* What a commit cuts, and what it mends. *)
LEMMA CutSays ==
    ASSUME NEW w, NEW parts, NEW lacking, NEW q, NEW part
    PROVE  <<q, part>> \in CutBy(w, parts, lacking) <=>
              IF worker[w].window = Days
              THEN <<q, part>> \in cut /\ ~(q = worker[w].provider /\ part \in parts)
              ELSE \/ <<q, part>> \in cut
                   \/ /\ w \in Daemons \/ worker[w].blind
                      /\ q = worker[w].provider /\ part \in lacking
BY DEF CutBy

(* A usage commit of any source: it covers its window, and touches nothing *)
(* of another provider or another source.                                  *)
LEMMA UsageCommitCovers ==
    ASSUME TypeOK, NEW provider \in Providers, NEW source \in UsageSources,
           NEW range \in SUBSET Days, NEW t \in Times, NEW revision \in Contracts \cup {None},
           NEW rows \in [InRange(UsageKeys, provider, range) -> Values \cup {None}],
           CommitUsageImport(provider, source, range, rows, t, revision), ~raised'
    PROVE  \/ /\ HasNewerAttempt(<<provider, source>>, t)
              /\ UNCHANGED <<coverage, contract, sourceStatus>>
           \/ /\ ~HasNewerAttempt(<<provider, source>>, t)
              /\ \A key \in DayKeys :
                    coverage'[key] # None <=>
                       \/ coverage[key] # None
                       \/ key[1] = provider /\ key[2] \in range
              /\ contract' = IF revision = None THEN contract
                             ELSE [contract EXCEPT ![<<provider, source>>] = revision]
              /\ \A k \in StatusKeys :
                    k # <<provider, source>> => sourceStatus'[k] = sourceStatus[k]
<1> DEFINE status == <<provider, source>>
<1>1. CASE HasNewerAttempt(status, t)
  BY <1>1 DEF CommitUsageImport, usageVars
<1>2. CASE ~HasNewerAttempt(status, t)
  <2>1. /\ coverage' = CoverageAfter(InRange(DayKeys, provider, range), source, t)
        /\ sourceStatus' = Committed(WithStatus(status, AfterSuccess(status, t, None)), sourceStatus)
        /\ contract' = IF revision = None THEN contract
                       ELSE [contract EXCEPT ![status] = revision]
    BY <1>2 DEF CommitUsageImport, Committed
  <2>2. status \in StatusKeys /\ StatusTypeOK
    BY DEF StatusKeys, Sources, TypeOK
  <2>3. \A k \in StatusKeys : k # status => sourceStatus'[k] = sourceStatus[k]
    <3>1. AfterSuccess(status, t, None) \in StatusFacts
      BY <2>2, SuccessTyped
    <3> QED
      BY <2>1, <2>2, <3>1, StatusWritten
  <2>4. [payload |-> [source |-> source], importedAt |-> t] # None
    BY NoRowAssumption DEF CoverageRows
  <2>5. \A key \in DayKeys :
           coverage'[key] # None <=>
              \/ coverage[key] # None
              \/ key[1] = provider /\ key[2] \in range
    BY <2>1, <2>4 DEF CoverageAfter, InRange
  <2> QED
    BY <1>2, <2>1, <2>3, <2>5
<1> QED
  BY <1>1, <1>2

(* The same for costs.                                                     *)
LEMMA CostCommitCovers ==
    ASSUME TypeOK, NEW provider \in Providers, NEW source \in CostSources,
           NEW range \in SUBSET Days, NEW t \in Times,
           NEW rows \in [InRange(CostKeys, provider, range) -> Values \cup {None}],
           CommitCostImport(provider, source, range, rows, t), ~raised'
    PROVE  \/ HasNewerAttempt(<<provider, source>>, t) /\ UNCHANGED <<costCoverage, sourceStatus>>
           \/ /\ ~HasNewerAttempt(<<provider, source>>, t)
              /\ \A key \in DayKeys :
                    costCoverage'[key] # None <=>
                       \/ costCoverage[key] # None
                       \/ key[1] = provider /\ key[2] \in range
              /\ \A k \in StatusKeys :
                    k # <<provider, source>> => sourceStatus'[k] = sourceStatus[k]
<1> DEFINE status == <<provider, source>>
<1>1. CASE HasNewerAttempt(status, t)
  BY <1>1 DEF CommitCostImport, costVars
<1>2. CASE ~HasNewerAttempt(status, t)
  <2>1. /\ costCoverage' = CostCoverageAfter(InRange(DayKeys, provider, range), t)
        /\ sourceStatus' = Committed(WithStatus(status, AfterSuccess(status, t, None)), sourceStatus)
    BY <1>2 DEF CommitCostImport, Committed
  <2>2. status \in StatusKeys /\ StatusTypeOK
    BY DEF StatusKeys, Sources, TypeOK
  <2>3. \A k \in StatusKeys : k # status => sourceStatus'[k] = sourceStatus[k]
    <3>1. AfterSuccess(status, t, None) \in StatusFacts
      BY <2>2, SuccessTyped
    <3> QED
      BY <2>1, <2>2, <3>1, StatusWritten
  <2>4. [payload |-> [covered |-> TRUE], importedAt |-> t] # None
    <3>1. [covered |-> TRUE] \in Covered
      BY DEF Covered
    <3>2. [payload |-> [covered |-> TRUE], importedAt |-> t] \in CostCoverageRows
      BY <3>1 DEF CostCoverageRows
    <3> QED
      BY <3>2, NoRowAssumption
  <2>5. \A key \in DayKeys :
           costCoverage'[key] # None <=>
              \/ costCoverage[key] # None
              \/ key[1] = provider /\ key[2] \in range
    BY <2>1, <2>4 DEF CostCoverageAfter, InRange
  <2> QED
    BY <1>2, <2>3, <2>5
<1> QED
  BY <1>1, <1>2

(* A failure makes no success of a source that had none.                   *)
LEMMA FailureKeepsSuccess ==
    ASSUME TypeOK, NEW key \in StatusKeys, NEW state \in Faults \cup {"stale"}, NEW t \in Times,
           RecordSourceStatus(key, state, t, None), NEW provider \in Providers,
           HasSourceSuccess(provider)'
    PROVE  HasSourceSuccess(provider)
<1> DEFINE official == <<provider, Official>>
           facts == AfterOutcome(key, state, t, None)
<1>1. official \in StatusKeys /\ StatusTypeOK
  BY CollectorAssumption DEF StatusKeys, Sources, TypeOK
<1>2. facts \in StatusFacts
  BY <1>1, OutcomeTyped
<1>3. sourceStatus'[official] # None /\ sourceStatus'[official].payload.lastSuccess # None
  BY DEF HasSourceSuccess
<1>4. CASE sourceStatus'[official] = sourceStatus[official]
  BY <1>3, <1>4 DEF HasSourceSuccess
<1>5. CASE key = official /\ sourceStatus'[official].payload = facts
  <2>1. sourceStatus[official] = None => facts.lastSuccess = None
    BY <1>5 DEF AfterOutcome
  <2>2. sourceStatus[official] # None =>
           facts.lastSuccess = sourceStatus[official].payload.lastSuccess
    BY <1>5 DEF AfterOutcome
  <2> QED
    BY <1>3, <1>5, <2>1, <2>2 DEF HasSourceSuccess
<1> QED
  BY <1>1, <1>2, <1>4, <1>5, StatusWritten DEF RecordSourceStatus

(* Nothing a step takes: years stay covered, or cut, and a contract        *)
(* changes only to the installed one.                                      *)
Onward ==
    /\ version' = version
    /\ \A provider \in Providers :
          /\ Stands(provider) => Stands(provider)'
          /\ Billed(provider) => Billed(provider)'
          /\ contract'[<<provider, Official>>] \in {contract[<<provider, Official>>], Revision}

(* A choice once right stays right, whoever moves meanwhile.               *)
LEMMA ChoicesStand ==
    ASSUME Onward, NEW w, NEW me, me.at \in Asking => me.provider \in Providers,
           Chosen(w, me)
    PROVE  Chosen(w, me)'
<1>1. Revision' = Revision
  BY DEF Onward, Revision
<1>2. CASE me.at \in Asking
  BY <1>1, <1>2 DEF Onward, Chosen, Free
<1>3. CASE me.at \notin Asking
  BY <1>3 DEF Chosen, Asking
<1> QED
  BY <1>2, <1>3

(* One process moves on, the others' choices stand.                        *)
LEMMA ChoicesKept ==
    ASSUME RefreshesTyped, YearInv, Onward, NEW w \in Workers, NEW next, Goes(w, next),
           Chosen(w, next)'
    PROVE  \A v \in Workers : Chosen(v, worker[v])'
<1> SUFFICES ASSUME NEW v \in Workers
             PROVE  Chosen(v, worker[v])'
  OBVIOUS
<1>1. worker'[v] = IF v = w THEN next ELSE worker[v]
  BY DEF RefreshesTyped, Goes
<1>2. CASE v = w
  BY <1>1, <1>2
<1>3. CASE v # w
  <2>1. Chosen(v, worker[v]) /\ (worker[v].at \in Asking => worker[v].provider \in Providers)
    BY DEF YearInv, RefreshesTyped, Drawn
  <2>2. \A me : (me.at \in Asking => me.provider \in Providers) /\ Chosen(v, me)
                => Chosen(v, me)'
    BY ChoicesStand
  <2> QED
    BY <1>1, <1>3, <2>1, <2>2
<1> QED
  BY <1>2, <1>3

(* Steps that leave the markers and the contracts alone.                   *)
LEMMA StillWhole ==
    ASSUME YearInv, UNCHANGED <<coverage, costCoverage, contract, version, cut>>,
           \A key \in DayKeys : importedBy'[key] \in {importedBy[key], None},
           \A provider \in Providers : HasSourceSuccess(provider)' => HasSourceSuccess(provider)
    PROVE  YearsWhole' /\ ContractReimported' /\ Onward
<1>1. YearsWhole'
  BY DEF YearInv, YearsWhole, HasDailyHistory, HasCostHistory, YearCovered, YearBilled,
         Stands, Billed
<1>2. ContractReimported'
  BY DEF YearInv, ContractReimported
<1>3. Onward
  BY DEF Onward, YearCovered, YearBilled, Stands, Billed
<1> QED
  BY <1>1, <1>2, <1>3

(* Retention takes no day of the year.                                     *)
LEMMA RetainKeepsYear ==
    ASSUME TypeOK, NEW w, Retain(w)
    PROVE  UNCHANGED <<coverage, costCoverage, contract, importedBy, cut, version, sourceStatus>>
<1>1. /\ coverage \in [DayKeys -> CoverageRows \cup {None}]
      /\ costCoverage \in [DayKeys -> CostCoverageRows \cup {None}]
  BY DEF TypeOK, DailyTypeOK
<1>2. \A key \in DayKeys : ~(key[2] < 1)
  BY DayAssumption DEF DayKeys, Days
<1>3. Expired(coverage, 1) = {} /\ Expired(costCoverage, 1) = {}
  BY <1>1, <1>2 DEF Expired
<1>4. Without(coverage, {}) = coverage /\ Without(costCoverage, {}) = costCoverage
  BY <1>1 DEF Without
<1> QED
  BY <1>3, <1>4 DEF Retain, PurgeBefore, Committed, historyVars

(* A process that is not about to commit leaves no choice behind.          *)
LEMMA NothingChosen ==
    \A w, me : me.at \notin Asking => Chosen(w, me) /\ Chosen(w, me)'
BY DEF Chosen, Asking

(* So a process that finished or gave up leaves all choices right.         *)
LEMMA AfterChoosesNothing ==
    ASSUME RefreshesTyped, YearInv, Onward, NEW w \in Workers, worker[w].at # "idle",
           Goes(w, AfterUsage(w)) \/ Goes(w, AfterCosts(w)) \/ Goes(w, Idle)
    PROVE  \A v \in Workers : Chosen(v, worker[v])'
<1>1. PICK next : Goes(w, next) /\ next.at \notin Asking
  BY AfterTyped DEF Idle, Asking
<1> QED
  BY <1>1, NothingChosen, ChoicesKept

(* The reads that choose a window: short of a year over one that is there, *)
(* unless nothing was read.                                                *)
LEMMA WindowsChosen ==
    ASSUME YearInv, NEW w, w \notin Daemons, NEW provider \in Providers
    PROVE  /\ \A window \in OfficialWindows(w, provider) :
                 \/ window = Days
                 \/ Revision \in {None, contract[<<provider, Official>>]}
           /\ HasSourceSuccess(provider) => Stands(provider)
           /\ FallbackWindow(w, provider) = Days \/ Stands(provider)
           /\ HasCostHistory(provider) => Billed(provider)
BY DEF OfficialWindows, FallbackWindow, YearInv, YearsWhole

(* A choice is right when it is made.                                      *)
LEMMA ChooseStep ==
    ASSUME RefreshesTyped, YearInv, NEW w \in Workers,
           ChooseUsage(w) \/ ChooseFallback(w) \/ ChooseCosts(w)
    PROVE  YearInv'
<1>1. /\ UNCHANGED <<coverage, costCoverage, contract, importedBy, cut, version, sourceStatus>>
      /\ \A provider \in Providers : HasSourceSuccess(provider)' => HasSourceSuccess(provider)
  BY DEF ChooseUsage, ChooseFallback, ChooseCosts, vars, dailyVars, usageVars, costVars,
         historyVars, HasSourceSuccess
<1>2. YearsWhole' /\ ContractReimported' /\ Onward
  BY <1>1, StillWhole
<1>3. worker[w] \in Refreshes /\ (worker[w].at \in Asking => worker[w].provider \in Providers)
  BY DEF RefreshesTyped, Drawn
<1>4. \A me : Chosen(w, me) => Chosen(w, me)'
  BY <1>1 DEF Chosen, Free, Stands, Billed, YearCovered, YearBilled, Revision
<1>5. ASSUME NEW next, Goes(w, next), Chosen(w, next)
      PROVE  YearInv'
  BY <1>2, <1>4, <1>5, ChoicesKept DEF YearInv
<1>6. CASE ChooseUsage(w)
  <2>1. PICK provider \in worker[w].todo :
           \/ \E window \in OfficialWindows(w, provider) :
                 Goes(w, [worker[w] EXCEPT
                            !.at = "official", !.provider = provider, !.window = window,
                            !.blind = window # Days /\ ~HasSourceSuccess(provider)])
           \/ Goes(w, [worker[w] EXCEPT !.at = "fallback", !.provider = provider])
    BY <1>6 DEF ChooseUsage
  <2>2. provider \in Providers
    BY <1>3 DEF Refreshes
  <2>3. CASE Goes(w, [worker[w] EXCEPT !.at = "fallback", !.provider = provider])
    <3> DEFINE next == [worker[w] EXCEPT !.at = "fallback", !.provider = provider]
    <3>1. next.at = "fallback"
      BY <1>3 DEF Refreshes
    <3>2. Goes(w, next)
      BY <2>3
    <3> HIDE DEF next
    <3>3. Chosen(w, next)
      BY <3>1 DEF Chosen
    <3> QED
      BY <1>5, <3>2, <3>3
  <2>4. ASSUME NEW window \in OfficialWindows(w, provider),
               Goes(w, [worker[w] EXCEPT
                          !.at = "official", !.provider = provider, !.window = window,
                          !.blind = window # Days /\ ~HasSourceSuccess(provider)])
        PROVE  YearInv'
    <3> DEFINE unread == window # Days /\ ~HasSourceSuccess(provider)
               next == [worker[w] EXCEPT !.at = "official", !.provider = provider,
                                         !.window = window, !.blind = unread]
    <3>1. \/ window = Days \/ w \in Daemons \/ unread
          \/ Stands(provider) /\ Revision \in {None, contract[<<provider, Official>>]}
      BY <2>2, WindowsChosen
    <3>2. Goes(w, next)
      BY <2>4
    <3>3. unread \in BOOLEAN
      OBVIOUS
    <3> HIDE DEF unread
    <3>4. /\ next.at = "official" /\ next.provider = provider /\ next.window = window
          /\ next.blind = unread
      BY <1>3, <3>3 DEF Refreshes
    <3> HIDE DEF next
    <3>5. Chosen(w, next)
      BY <3>1, <3>4 DEF Chosen, Free
    <3> QED
      BY <1>5, <3>2, <3>5
  <2> QED
    BY <2>1, <2>3, <2>4
<1>7. CASE ChooseFallback(w)
  <2> DEFINE provider == worker[w].provider
             window == FallbackWindow(w, provider)
             next == [worker[w] EXCEPT !.at = "openusage", !.window = window]
  <2>1. Goes(w, next)
    BY <1>7 DEF ChooseFallback
  <2>2. provider \in Providers
    BY <1>3, <1>7 DEF ChooseFallback, Asking
  <2>3. window = Days \/ w \in Daemons \/ Stands(provider)
    BY <2>2, WindowsChosen
  <2> HIDE DEF window
  <2>4. next.at = "openusage" /\ next.provider = provider /\ next.window = window
    BY <1>3 DEF Refreshes
  <2> HIDE DEF next
  <2>5. Chosen(w, next)
    BY <2>3, <2>4 DEF Chosen, Free
  <2> QED
    BY <1>5, <2>1, <2>5
<1>8. CASE ChooseCosts(w)
  <2>0. PICK provider \in worker[w].todo : \E window \in CostWindows(w, provider) :
           Goes(w, [worker[w] EXCEPT !.at = "billing", !.provider = provider,
                                     !.window = window,
                                     !.blind = window # Days /\ ~HasCostHistory(provider)])
    BY <1>8 DEF ChooseCosts
  <2>1. PICK window \in CostWindows(w, provider) :
           Goes(w, [worker[w] EXCEPT !.at = "billing", !.provider = provider,
                                     !.window = window,
                                     !.blind = window # Days /\ ~HasCostHistory(provider)])
    BY <2>0
  <2> DEFINE unread == window # Days /\ ~HasCostHistory(provider)
             next == [worker[w] EXCEPT !.at = "billing", !.provider = provider,
                                       !.window = window, !.blind = unread]
  <2>2. provider \in Providers
    BY <1>3 DEF Refreshes
  <2>3. window = Days \/ w \in Daemons \/ unread \/ Billed(provider)
    BY <2>2, WindowsChosen
  <2>4. Goes(w, next) /\ unread \in BOOLEAN
    BY <2>1
  <2> HIDE DEF unread
  <2>5. /\ next.at = "billing" /\ next.provider = provider /\ next.window = window
        /\ next.blind = unread
    BY <1>3, <2>4 DEF Refreshes
  <2> HIDE DEF next
  <2>6. Chosen(w, next)
    BY <2>3, <2>5 DEF Chosen, Free
  <2> QED
    BY <1>5, <2>4, <2>6
<1> QED
  BY <1>6, <1>7, <1>8

(* An import of usage covers its window: with the year behind a window     *)
(* that is shorter, all of it; else it cuts what was not there.            *)
LEMMA UsageKeepsYears ==
    ASSUME YearInv, NEW w \in Workers, NEW provider \in Providers, NEW range \in SUBSET Days,
           worker[w].provider = provider, worker[w].window = range,
           Free(w, worker[w]) \/ Stands(provider),
           NEW parts, NEW lacking, cut' = CutBy(w, parts, lacking),
           "costs" \notin parts, NoUsage(provider) \subseteq lacking,
           \A key \in DayKeys : coverage'[key] # None <=>
              coverage[key] # None \/ (key[1] = provider /\ key[2] \in range),
           UNCHANGED costCoverage,
           \A q \in Providers \ {provider} : HasSourceSuccess(q)' => HasSourceSuccess(q)
    PROVE  /\ YearsWhole'
           /\ \A q \in Providers : /\ Stands(q) => Stands(q)'
                                   /\ Billed(q) => Billed(q)'
<1>1. ASSUME NEW q \in Providers, NEW day \in Days
      PROVE  coverage'[<<q, day>>] # None <=>
                coverage[<<q, day>>] # None \/ (q = provider /\ day \in range)
  BY DEF DayKeys
<1>2. \A q \in Providers : YearCovered(q) => YearCovered(q)'
  BY <1>1 DEF YearCovered
<1>3. Stands(provider)'
  <2>1. CASE range = Days
    BY <1>1, <2>1 DEF Stands, YearCovered
  <2>2. CASE range # Days /\ Stands(provider)
    BY <1>2, <2>2, CutSays DEF Stands
  <2>3. CASE range # Days /\ HasDailyHistory(provider)
    BY <2>2, <2>3 DEF YearInv, YearsWhole
  <2>4. CASE range # Days /\ ~HasDailyHistory(provider) /\ Free(w, worker[w])
    <3>1. "usage" \in lacking
      BY <2>4 DEF NoUsage
    <3> QED
      BY <2>4, <3>1, CutSays DEF Stands, Free
  <2> QED
    BY <2>1, <2>2, <2>3, <2>4
<1>4. \A q \in Providers \ {provider} : Stands(q) => Stands(q)'
  BY <1>2, CutSays DEF Stands
<1>5. \A q \in Providers : /\ HasCostHistory(q)' <=> HasCostHistory(q)
                           /\ YearBilled(q)' <=> YearBilled(q)
                           /\ Billed(q) => Billed(q)'
  BY CutSays DEF HasCostHistory, YearBilled, Billed
<1>6. \A q \in Providers \ {provider} : HasDailyHistory(q)' => HasDailyHistory(q)
  BY <1>1 DEF HasDailyHistory
<1>7. YearsWhole'
  BY <1>3, <1>4, <1>5, <1>6 DEF YearInv, YearsWhole
<1> QED
  BY <1>3, <1>4, <1>5, <1>7

(* So does an import of costs.                                             *)
LEMMA CostsKeepYears ==
    ASSUME YearInv, NEW w \in Workers, NEW provider \in Providers, NEW range \in SUBSET Days,
           worker[w].provider = provider, worker[w].window = range,
           Free(w, worker[w]) \/ Billed(provider),
           cut' = CutBy(w, {"costs"}, NoCosts(provider)),
           \A key \in DayKeys : costCoverage'[key] # None <=>
              costCoverage[key] # None \/ (key[1] = provider /\ key[2] \in range),
           UNCHANGED coverage,
           \A q \in Providers : HasSourceSuccess(q)' => HasSourceSuccess(q)
    PROVE  /\ YearsWhole'
           /\ \A q \in Providers : /\ Stands(q) => Stands(q)'
                                   /\ Billed(q) => Billed(q)'
<1>1. ASSUME NEW q \in Providers, NEW day \in Days
      PROVE  costCoverage'[<<q, day>>] # None <=>
                costCoverage[<<q, day>>] # None \/ (q = provider /\ day \in range)
  BY DEF DayKeys
<1>2. \A q \in Providers : YearBilled(q) => YearBilled(q)'
  BY <1>1 DEF YearBilled
<1>3. Billed(provider)'
  <2>1. CASE range = Days
    BY <1>1, <2>1 DEF Billed, YearBilled
  <2>2. CASE range # Days /\ Billed(provider)
    BY <1>2, <2>2, CutSays DEF Billed
  <2>3. CASE range # Days /\ HasCostHistory(provider)
    BY <2>2, <2>3 DEF YearInv, YearsWhole
  <2>4. CASE range # Days /\ ~HasCostHistory(provider) /\ Free(w, worker[w])
    <3>1. "costs" \in NoCosts(provider)
      BY <2>4 DEF NoCosts
    <3> QED
      BY <2>4, <3>1, CutSays DEF Billed, Free
  <2> QED
    BY <2>1, <2>2, <2>3, <2>4
<1>4. \A q \in Providers \ {provider} : Billed(q) => Billed(q)'
  BY <1>2, CutSays DEF Billed
<1>5. \A q \in Providers \ {provider} : HasCostHistory(q)' => HasCostHistory(q)
  BY <1>1 DEF HasCostHistory
<1>6. "usage" \notin {"costs"}
  OBVIOUS
<1>7. \A q \in Providers : /\ HasDailyHistory(q)' <=> HasDailyHistory(q)
                           /\ YearCovered(q)' <=> YearCovered(q)
                           /\ Stands(q) => Stands(q)'
  BY <1>6, CutSays DEF HasDailyHistory, YearCovered, Stands
<1>8. YearsWhole'
  BY <1>3, <1>4, <1>5, <1>7 DEF YearInv, YearsWhole
<1> QED
  BY <1>3, <1>4, <1>7, <1>8

(* The importer's commit: days it replaces under an older contract are all *)
(* there are, so the revision that goes with them is true of the rest,     *)
(* unless a daemon cut it.                                                 *)
LEMMA OfficialCommitsStep ==
    ASSUME TypeOK, RefreshesTyped, YearInv, NEW w \in Workers, OfficialCommits(w)
    PROVE  YearInv'
<1> DEFINE provider == worker[w].provider
           range    == worker[w].window
           t        == worker[w].attempt
           status   == <<provider, Official>>
           accepted == ~HasNewerAttempt(status, t)
           parts    == {"usage", "contract"}
           lacking  == NoUsage(provider) \cup OtherContract(provider)
<1>1. worker[w].at = "official" /\ worker[w].at \in Asking
  BY DEF OfficialCommits, Asking
<1>2. /\ provider \in Providers /\ t \in Times /\ range \in SUBSET Days
      /\ Revision \in Contracts \cup {None} /\ Official \in UsageSources
  BY <1>1, HandsTyped, CollectorAssumption
<1>3. /\ Free(w, worker[w]) \/ Stands(provider)
      /\ Free(w, worker[w]) \/ Revision \in {None, contract[status]}
      /\ worker[w].provider = provider /\ worker[w].window = range
  BY <1>1 DEF YearInv, Chosen
<1>4. PICK rows \in [InRange(UsageKeys, provider, range) -> Values \cup {None}] :
         CommitUsageImport(provider, Official, range, rows, t, Revision)
  BY DEF OfficialCommits
<1>5. /\ ~raised' /\ UNCHANGED <<costVars, version>>
      /\ Goes(w, AfterUsage(w))
      /\ importedBy' = [key \in DayKeys |->
                           IF accepted /\ key \in InRange(DayKeys, provider, range)
                           THEN Revision ELSE importedBy[key]]
      /\ cut' = IF accepted THEN CutBy(w, parts, lacking) ELSE cut
  BY DEF OfficialCommits
<1>6. /\ status \in StatusKeys
      /\ contract \in [StatusKeys -> Contracts \cup {None}]
      /\ \A q \in Providers : <<q, Official>> \in StatusKeys
  BY <1>2 DEF TypeOK, DailyTypeOK, StatusKeys, Sources
<1> HIDE DEF provider, range, t
<1>7. YearsWhole' /\ ContractReimported' /\ Onward
  <2>1. CASE HasNewerAttempt(status, t)
    <3>1. UNCHANGED <<coverage, contract, sourceStatus>>
      BY <1>2, <1>4, <1>5, <2>1, UsageCommitCovers
    <3>2. \A key \in DayKeys : importedBy'[key] = importedBy[key]
      BY <1>5, <2>1
    <3>3. \A q \in Providers : HasSourceSuccess(q)' => HasSourceSuccess(q)
      BY <3>1 DEF HasSourceSuccess
    <3> QED
      BY <1>5, <2>1, <3>1, <3>2, <3>3, StillWhole DEF costVars
  <2>2. CASE accepted
    <3>1. /\ \A key \in DayKeys : coverage'[key] # None <=>
                coverage[key] # None \/ (key[1] = provider /\ key[2] \in range)
          /\ contract' = IF Revision = None THEN contract
                         ELSE [contract EXCEPT ![status] = Revision]
          /\ \A k \in StatusKeys : k # status => sourceStatus'[k] = sourceStatus[k]
      BY <1>2, <1>4, <1>5, <2>2, UsageCommitCovers
    <3>2. \A q \in Providers \ {provider} : HasSourceSuccess(q)' => HasSourceSuccess(q)
      <4>1. \A q \in Providers \ {provider} :
               sourceStatus'[<<q, Official>>] = sourceStatus[<<q, Official>>]
        BY <1>6, <3>1
      <4> QED
        BY <4>1 DEF HasSourceSuccess
    <3>3. /\ YearsWhole'
          /\ \A q \in Providers : /\ Stands(q) => Stands(q)'
                                  /\ Billed(q) => Billed(q)'
      <4>1. cut' = CutBy(w, parts, lacking) /\ "costs" \notin parts
            /\ NoUsage(provider) \subseteq lacking
        BY <1>5, <2>2
      <4> HIDE DEF parts, lacking
      <4> QED
        BY <1>2, <1>3, <1>5, <3>1, <3>2, <4>1, UsageKeepsYears DEF costVars
    <3>4. \A q \in Providers :
             contract'[<<q, Official>>] = IF q = provider /\ Revision # None THEN Revision
                                          ELSE contract[<<q, Official>>]
      BY <1>6, <3>1
    <3>5. Onward
      BY <1>5, <3>3, <3>4 DEF Onward
    <3>6. ASSUME NEW q \in Providers, NEW day \in Days, importedBy'[<<q, day>>] # None,
                 <<q, "contract">> \notin cut'
          PROVE  importedBy'[<<q, day>>] = contract'[<<q, Official>>]
      <4>1. importedBy'[<<q, day>>] = IF q = provider /\ day \in range THEN Revision
                                      ELSE importedBy[<<q, day>>]
        BY <1>5, <2>2 DEF InRange, DayKeys
      <4>2. importedBy[<<q, day>>] # None /\ <<q, "contract">> \notin cut =>
               importedBy[<<q, day>>] = contract[<<q, Official>>]
        BY DEF YearInv, ContractReimported, DayKeys
      <4>3. CASE q = provider /\ day \in range
        BY <3>4, <3>6, <4>1, <4>3
      <4>4. CASE q # provider
        <5>1. <<q, "contract">> \notin cut
          BY <1>3, <1>5, <2>2, <3>6, <4>4, CutSays
        <5> QED
          BY <3>4, <3>6, <4>1, <4>2, <4>4, <5>1
      <4>5. CASE q = provider /\ day \notin range
        <5>1. range # Days
          BY <4>5
        <5>2. <<q, "contract">> \notin cut /\ (Free(w, worker[w]) => "contract" \notin lacking)
          BY <1>3, <1>5, <2>2, <3>6, <4>5, <5>1, CutSays DEF Free
        <5>3. Revision = None \/ contract[status] \in {None, Revision}
          BY <1>3, <5>2 DEF OtherContract
        <5>4. contract[status] # None
          BY <3>6, <4>1, <4>2, <4>5, <5>2
        <5> QED
          BY <3>4, <3>6, <4>1, <4>2, <4>5, <5>2, <5>3, <5>4
      <4> QED
        BY <4>3, <4>4, <4>5
    <3>7. ContractReimported'
      BY <3>6 DEF ContractReimported, DayKeys
    <3> QED
      BY <3>3, <3>5, <3>7
  <2> QED
    BY <2>1, <2>2
<1>8. worker[w].at # "idle"
  BY <1>1
<1> QED
  BY <1>5, <1>7, <1>8, AfterChoosesNothing DEF YearInv

(* OpenUsage takes days over, under no contract.                           *)
LEMMA FallbackCommitsStep ==
    ASSUME TypeOK, RefreshesTyped, YearInv, NEW w \in Workers, FallbackCommits(w)
    PROVE  YearInv'
<1> DEFINE provider == worker[w].provider
           range    == worker[w].window
           t        == worker[w].attempt
           status   == <<provider, OpenUsage>>
<1>1. worker[w].at = "openusage" /\ worker[w].at \in Asking
  BY DEF FallbackCommits, Asking
<1>2. /\ provider \in Providers /\ t \in Times /\ range \in SUBSET Days
      /\ OpenUsage \in UsageSources /\ Official \in UsageSources /\ OpenUsage # Official
  BY <1>1, HandsTyped, CollectorAssumption
<1>3. /\ Free(w, worker[w]) \/ Stands(provider)
      /\ worker[w].provider = provider /\ worker[w].window = range
  BY <1>1 DEF YearInv, Chosen
<1>4. PICK rows \in [InRange(UsageKeys, provider, range) -> Values \cup {None}] :
         CommitUsageImport(provider, OpenUsage, range, rows, t, None)
  BY DEF FallbackCommits
<1>5. /\ ~raised' /\ UNCHANGED <<costVars, version>>
      /\ Goes(w, AfterUsage(w))
      /\ \A key \in DayKeys : importedBy'[key] \in {importedBy[key], None}
      /\ cut' = IF HasNewerAttempt(status, t) THEN cut ELSE CutBy(w, {"usage"}, NoUsage(provider))
  BY DEF FallbackCommits
<1>6. \A q \in Providers : <<q, Official>> \in StatusKeys /\ <<q, Official>> # status
  BY <1>2 DEF StatusKeys, Sources
<1> HIDE DEF provider, range, t
<1>7. /\ contract' = contract
      /\ \A k \in StatusKeys : k # status => sourceStatus'[k] = sourceStatus[k]
      /\ \/ coverage' = coverage /\ HasNewerAttempt(status, t)
         \/ /\ \A key \in DayKeys : coverage'[key] # None <=>
                  coverage[key] # None \/ (key[1] = provider /\ key[2] \in range)
            /\ ~HasNewerAttempt(status, t)
  BY <1>2, <1>4, <1>5, UsageCommitCovers
<1>8. \A q \in Providers : HasSourceSuccess(q)' => HasSourceSuccess(q)
  <2>1. \A q \in Providers : sourceStatus'[<<q, Official>>] = sourceStatus[<<q, Official>>]
    BY <1>6, <1>7
  <2> QED
    BY <2>1 DEF HasSourceSuccess
<1>9. YearsWhole' /\ ContractReimported' /\ Onward
  <2>1. CASE coverage' = coverage /\ HasNewerAttempt(status, t)
    BY <1>5, <1>7, <1>8, <2>1, StillWhole DEF costVars
  <2>2. CASE /\ \A key \in DayKeys : coverage'[key] # None <=>
                   coverage[key] # None \/ (key[1] = provider /\ key[2] \in range)
             /\ ~HasNewerAttempt(status, t)
    <3>1. /\ YearsWhole'
          /\ \A q \in Providers : /\ Stands(q) => Stands(q)'
                                  /\ Billed(q) => Billed(q)'
      <4>1. cut' = CutBy(w, {"usage"}, NoUsage(provider)) /\ "costs" \notin {"usage"}
        BY <1>5, <2>2
      <4> QED
        BY <1>2, <1>3, <1>5, <1>8, <2>2, <4>1, UsageKeepsYears DEF costVars
    <3>2. ContractReimported'
      <4>1. NoUsage(provider) \subseteq {"usage"} /\ "contract" # "usage"
        BY DEF NoUsage
      <4>2. \A q : <<q, "contract">> \in cut' <=> <<q, "contract">> \in cut
        BY <1>5, <2>2, <4>1, CutSays
      <4> QED
        BY <1>5, <1>7, <4>2 DEF YearInv, ContractReimported
    <3> QED
      BY <1>5, <1>7, <3>1, <3>2 DEF Onward
  <2> QED
    BY <1>7, <2>1, <2>2
<1> QED
  BY <1>1, <1>5, <1>9, AfterChoosesNothing DEF YearInv

(* Costs leave usage alone.                                                *)
LEMMA CostsCommitStep ==
    ASSUME TypeOK, RefreshesTyped, YearInv, NEW w \in Workers, CostsCommit(w)
    PROVE  YearInv'
<1> DEFINE provider == worker[w].provider
           range    == worker[w].window
           t        == worker[w].attempt
           status   == <<provider, Billing>>
<1>1. worker[w].at = "billing" /\ worker[w].at \in Asking
  BY DEF CostsCommit, Asking
<1>2. /\ provider \in Providers /\ t \in Times /\ range \in SUBSET Days
      /\ Billing \in CostSources /\ Official \in UsageSources /\ Billing # Official
  BY <1>1, HandsTyped, CollectorAssumption
<1>3. /\ Free(w, worker[w]) \/ Billed(provider)
      /\ worker[w].provider = provider /\ worker[w].window = range
  BY <1>1 DEF YearInv, Chosen
<1>4. PICK rows \in [InRange(CostKeys, provider, range) -> Values \cup {None}] :
         CommitCostImport(provider, Billing, range, rows, t)
  BY DEF CostsCommit
<1>5. /\ ~raised' /\ UNCHANGED <<coverage, contract, version, importedBy>>
      /\ Goes(w, AfterCosts(w))
      /\ cut' = IF HasNewerAttempt(status, t) THEN cut ELSE CutBy(w, {"costs"}, NoCosts(provider))
  BY DEF CostsCommit, usageVars
<1>6. \A q \in Providers : <<q, Official>> \in StatusKeys /\ <<q, Official>> # status
  BY <1>2 DEF StatusKeys, Sources
<1> HIDE DEF provider, range, t
<1>7. /\ \A k \in StatusKeys : k # status => sourceStatus'[k] = sourceStatus[k]
      /\ \/ costCoverage' = costCoverage /\ HasNewerAttempt(status, t)
         \/ /\ \A key \in DayKeys : costCoverage'[key] # None <=>
                  costCoverage[key] # None \/ (key[1] = provider /\ key[2] \in range)
            /\ ~HasNewerAttempt(status, t)
  BY <1>2, <1>4, <1>5, CostCommitCovers
<1>8. \A q \in Providers : HasSourceSuccess(q)' => HasSourceSuccess(q)
  <2>1. \A q \in Providers : sourceStatus'[<<q, Official>>] = sourceStatus[<<q, Official>>]
    BY <1>6, <1>7
  <2> QED
    BY <2>1 DEF HasSourceSuccess
<1>9. YearsWhole' /\ ContractReimported' /\ Onward
  <2>1. CASE costCoverage' = costCoverage /\ HasNewerAttempt(status, t)
    BY <1>5, <1>8, <2>1, StillWhole
  <2>2. CASE /\ \A key \in DayKeys : costCoverage'[key] # None <=>
                   costCoverage[key] # None \/ (key[1] = provider /\ key[2] \in range)
             /\ ~HasNewerAttempt(status, t)
    <3>1. /\ YearsWhole'
          /\ \A q \in Providers : /\ Stands(q) => Stands(q)'
                                  /\ Billed(q) => Billed(q)'
      BY <1>2, <1>3, <1>5, <1>8, <2>2, CostsKeepYears
    <3>2. ContractReimported'
      <4>1. NoCosts(provider) \subseteq {"costs"} /\ "contract" # "costs"
        BY DEF NoCosts
      <4>2. \A q : <<q, "contract">> \in cut' <=> <<q, "contract">> \in cut
        BY <1>5, <2>2, <4>1, CutSays
      <4> QED
        BY <1>5, <4>2 DEF YearInv, ContractReimported
    <3> QED
      BY <1>5, <3>1, <3>2 DEF Onward
  <2> QED
    BY <1>7, <2>1, <2>2
<1> QED
  BY <1>1, <1>5, <1>9, AfterChoosesNothing DEF YearInv

(* A failure keeps what was covered, and stands for no import.             *)
LEMMA FailsStep ==
    ASSUME TypeOK, RefreshesTyped, YearInv, NEW w \in Workers,
           OfficialFails(w) \/ FallbackFails(w) \/ CostsFail(w)
    PROVE  YearInv'
<1>1. worker[w] \in Refreshes /\ worker[w].at \in Asking
  BY DEF RefreshesTyped, OfficialFails, FallbackFails, CostsFail, Asking
<1>2. PICK source \in Sources, state \in Faults \cup {"stale"} :
         RecordSourceStatus(<<worker[w].provider, source>>, state, worker[w].attempt, None)
  BY CollectorAssumption DEF OfficialFails, FallbackFails, CostsFail, Sources
<1>3. UNCHANGED <<coverage, costCoverage, contract, version, importedBy, cut>>
  BY DEF OfficialFails, FallbackFails, CostsFail, dailyVars, usageVars, costVars, historyVars
<1>4. \A q \in Providers : HasSourceSuccess(q)' => HasSourceSuccess(q)
  <2>1. /\ <<worker[w].provider, source>> \in StatusKeys
        /\ worker[w].attempt \in Times
    BY <1>1, HandsTyped DEF StatusKeys
  <2> QED
    BY <1>2, <2>1, FailureKeepsSuccess
<1>5. YearsWhole' /\ ContractReimported' /\ Onward
  BY <1>3, <1>4, StillWhole
<1>6. CASE OfficialFails(w)
  <2>1. PICK next : /\ Goes(w, next)
                    /\ next = [worker[w] EXCEPT !.at = "fallback", !.window = {}, !.blind = FALSE]
    BY <1>6 DEF OfficialFails
  <2>2. next.at = "fallback"
    BY <1>1, <2>1 DEF Refreshes
  <2>3. Chosen(w, next)'
    BY <2>2 DEF Chosen
  <2> QED
    BY <1>5, <2>1, <2>3, ChoicesKept DEF YearInv
<1>7. CASE FallbackFails(w) \/ CostsFail(w)
  <2>1. worker[w].at # "idle"
    BY <1>1 DEF Asking
  <2> QED
    BY <1>5, <1>7, <2>1, AfterChoosesNothing DEF YearInv, FallbackFails, CostsFail
<1> QED
  BY <1>6, <1>7

LEMMA YearStep ==
    ASSUME TypeOK, RefreshesTyped, YearInv, [CollectorNext]_everything
    PROVE  YearInv'
<1>1. ASSUME NEW w \in Workers, Begin(w) \/ Retain(w) \/ Killed(w)
      PROVE  YearInv'
  <2>1. UNCHANGED <<coverage, costCoverage, contract, importedBy, cut, version, sourceStatus>>
    BY <1>1, RetainKeepsYear DEF Begin, Killed, vars, dailyVars, usageVars, costVars, historyVars
  <2>2. YearsWhole' /\ ContractReimported' /\ Onward
    BY <2>1, StillWhole DEF HasSourceSuccess
  <2>3. PICK next : Goes(w, next) /\ next.at \notin Asking
    <3>1. Idle.at \notin Asking
      BY DEF Idle, Asking
    <3>2. \A todo, scope : Starting(todo, scope).at = "usage"
      BY DEF Starting, Idle
    <3>3. "usage" \notin Asking
      BY DEF Asking
    <3> QED
      BY <1>1, <3>1, <3>2, <3>3 DEF Begin, Retain, Killed
  <2> QED
    BY <2>2, <2>3, NothingChosen, ChoicesKept DEF YearInv
<1>2. CASE Upgrade
  <2>1. /\ UNCHANGED <<coverage, costCoverage, contract, importedBy, cut, sourceStatus>>
        /\ worker' = [w \in Workers |-> Idle]
    BY <1>2 DEF Upgrade, vars, dailyVars, usageVars, costVars, historyVars
  <2>2. YearsWhole' /\ ContractReimported'
    BY <2>1 DEF YearInv, YearsWhole, ContractReimported, HasDailyHistory, HasCostHistory,
                HasSourceSuccess, Stands, Billed, YearCovered, YearBilled
  <2>3. \A w \in Workers : Chosen(w, worker[w])'
    BY <2>1 DEF Chosen, Idle
  <2> QED
    BY <2>2, <2>3 DEF YearInv
<1>3. CASE UNCHANGED everything
  <2>1. UNCHANGED <<coverage, costCoverage, contract, importedBy, cut, sourceStatus, version,
                    worker>>
    BY <1>3 DEF everything, collectorVars, historyVars, vars, dailyVars, usageVars, costVars
  <2> QED
    BY <2>1 DEF YearInv, YearsWhole, ContractReimported, HasDailyHistory, HasCostHistory,
                HasSourceSuccess, Stands, Billed, YearCovered, YearBilled, Chosen, Free, Revision
<1> QED
  BY <1>1, <1>2, <1>3, ChooseStep, OfficialCommitsStep, FallbackCommitsStep, CostsCommitStep,
     FailsStep DEF CollectorNext

(* At the start no day is covered, and no success recorded.                *)
LEMMA YearInitHolds == Init /\ CollectorInit => YearInv
<1> SUFFICES ASSUME Init, CollectorInit
             PROVE  YearInv
  OBVIOUS
<1>1. \A q \in Providers :
         sourceStatus[<<q, Official>>] = None /\ contract[<<q, Official>>] = None
  <2>1. \A q \in Providers : <<q, Official>> \in StatusKeys
    BY CollectorAssumption DEF StatusKeys, Sources
  <2> QED
    BY <2>1 DEF Init, StatusInit, DailyInit
<1>2. \A key \in DayKeys :
         coverage[key] = None /\ costCoverage[key] = None /\ importedBy[key] = None
  BY DEF Init, DailyInit, CollectorInit
<1>3. YearsWhole
  BY <1>1, <1>2 DEF YearsWhole, HasDailyHistory, HasCostHistory, HasSourceSuccess, DayKeys
<1>4. ContractReimported
  BY <1>2 DEF ContractReimported
<1>5. \A w \in Workers : Chosen(w, worker[w])
  BY DEF CollectorInit, Chosen, Idle
<1> QED
  BY <1>3, <1>4, <1>5 DEF YearInv

(* Year for year. *)
LEMMA YearIsWhole == YearInv => HistoryIsWhole
BY DEF YearInv, YearsWhole, HistoryIsWhole, Stands, Billed, YearCovered, YearBilled

(* The collectors keep the ledger: whoever is killed or upgraded between   *)
(* two transactions, the tables hold rows of their types and the change    *)
(* feed replays to them.                                                   *)
THEOREM CollectorsKeepTheLedger == CollectorSpec => [](TypeOK /\ LogReplaysTables)
<1>1. Init /\ CollectorInit => TypeOK /\ LogReplaysTables /\ RefreshesTyped
  BY CollectorInitHolds
<1>2. TypeOK /\ LogReplaysTables /\ RefreshesTyped /\ [CollectorNext]_everything
         => TypeOK' /\ LogReplaysTables' /\ RefreshesTyped'
  BY LedgerKept, RefreshesStep
<1> QED
  BY <1>1, <1>2, PTL DEF CollectorSpec

(* Every combination of kills, failures, refreshes that overlap and reads  *)
(* that fail leaves no hole in a year but where a daemon, or a read that   *)
(* failed, cut it: any other provider that has any history of usage or     *)
(* costs has all of it.                                                    *)
THEOREM YearsStayWhole == CollectorSpec => []HistoryIsWhole
<1>1. Init /\ CollectorInit => TypeOK /\ RefreshesTyped /\ YearInv
  BY CollectorInitHolds, YearInitHolds
<1>2. TypeOK /\ RefreshesTyped /\ YearInv /\ [CollectorNext]_everything
         => TypeOK' /\ RefreshesTyped' /\ YearInv'
  BY LedgerKept, RefreshesStep, YearStep
<1>3. YearInv => HistoryIsWhole
  BY YearIsWhole
<1> QED
  BY <1>1, <1>2, <1>3, PTL DEF CollectorSpec

(* And no day imported under an older contract outlives the revision that  *)
(* says the year was imported under the installed one, unless a daemon     *)
(* brought that revision with no more than today.                          *)
THEOREM RevisionSpeaksForTheYear == CollectorSpec => []ContractReimported
<1>1. Init /\ CollectorInit => TypeOK /\ RefreshesTyped /\ YearInv
  BY CollectorInitHolds, YearInitHolds
<1>2. TypeOK /\ RefreshesTyped /\ YearInv /\ [CollectorNext]_everything
         => TypeOK' /\ RefreshesTyped' /\ YearInv'
  BY LedgerKept, RefreshesStep, YearStep
<1>3. YearInv => ContractReimported
  BY DEF YearInv
<1> QED
  BY <1>1, <1>2, <1>3, PTL DEF CollectorSpec

-----------------------------------------------------------------------------
(* The current facts.  A refresh brings its balance or quota and the       *)
(* health of the source into the ledger one transaction after another; how *)
(* far it has come tells what the two must be.                             *)

\* A refresh that brings the source, or the card, into the ledger, and one
\* that has begun to.
OfTheSource == {"instances", "observing", "succeeding", "marking", "failing"}
OfTheCard   == {"card", "cardHealth", "cardFailing"}
Collecting  == OfTheSource \cup OfTheCard \cup {"done"}
Refreshing  == {"idle", "asking", "resolved"} \cup Collecting

\* Cards as adapters bring them: one with an amount is live or carried.
TrueCards == {card \in Cards : card.shows = "amount" => card.state \in {"ok", "stale"}}

RefreshTyped ==
    /\ kind \in {"balance", "quota"}
    /\ tick \in 0..MaxTick
    /\ alone \in Refreshers \cup {None}
    /\ cardFile \in TrueCards \cup {None}
    /\ lastResult \in [Refreshers -> 1..tick \cup {None}]
    /\ asked \in [Refreshers -> {"never", "answered", "failed", "raised"}]
    /\ refresher \in [Refreshers -> [at : Refreshing, card : TrueCards \cup {None},
                                     attempt : 0..tick]]

\* What a refresh needs where it stands.
InPlace(w) ==
    LET me == refresher[w]
    IN  /\ me.at \in {"resolved"} \cup Collecting => asked[w] # "never" /\ tick >= 1
        /\ me.at \in Collecting => me.attempt >= 1
        /\ me.at = "observing" => lastResult[w] # None
        /\ me.at \in OfTheCard => kind = "balance"
        /\ me.at \in {"cardHealth", "cardFailing"} => me.card # None

OwnKeys == {SourceKey, CardKey}

\* The health of the source and of the card is still there if it was published.
Unpublished == \A key \in OwnKeys : sourceStatus[key] = None => RevisionsOf(StatusId(key)) = {}

StoreInv == TypeOK /\ CarryInv /\ Unpublished

\* The row of the source is its own and not ahead of the clock, nor is the
\* health of the source or the card.
RowInTime ==
    Row # None =>
        /\ Row.observedAt <= tick
        /\ Row.payload.provider = Provider /\ Row.payload.source = Source

HealthInTime ==
    \A key \in OwnKeys : sourceStatus[key] # None => Health(key).lastAttempt <= tick

\* The row and the health of the source after a refresh that asked it.
SourceSettled(w) ==
    /\ sourceStatus[SourceKey] # None
    /\ Health(SourceKey).lastAttempt = tick
    /\ asked[w] = "failed" => Health(SourceKey).state = Faulty
    /\ Row # None => (Row.payload.stale <=> Health(SourceKey).state # "ok")

\* The quota of the card after it was recorded.
CardStored(card) ==
    /\ quota[CardRecord] # None
    /\ quota[CardRecord].observedAt >= card.time
    /\ quota[CardRecord].observedAt = card.time =>
          (quota[CardRecord].payload.stale <=> card.state = "stale")

HasAmount(card) == card # None /\ card.shows = "amount"

\* A refresh that nobody meets holds what it asked at the last tick.
Prompt(w) ==
    LET me == refresher[w]
    IN  /\ \A other \in Refreshers \ {w} : Rests(other)
        /\ asked[w] # "raised" /\ me.at \in {"resolved"} \cup Collecting =>
              lastResult[w] = IF asked[w] = "answered" THEN tick ELSE None
        /\ me.at \in Collecting => me.attempt = tick

\* What it has done of its work.
Reached(w) ==
    LET me == refresher[w]
    IN  /\ me.at = "succeeding" => asked[w] = "answered" /\ Row # None /\ ~Row.payload.stale
        /\ me.at = "failing" /\ Row # None => Row.payload.stale
        /\ me.at \in OfTheCard \cup {"done"} => SourceSettled(w)
        /\ me.at = "cardHealth" /\ HasAmount(me.card) => CardStored(me.card)
        /\ me.at = "done" /\ kind = "balance" /\ HasAmount(me.card)
           /\ Health(CardKey).state = me.card.state => CardStored(me.card)

Undisturbed(w) == Prompt(w) /\ (asked[w] # "raised" => Reached(w))

AgreeInv ==
    /\ StoreInv /\ RefreshTyped /\ RowInTime /\ HealthInTime
    /\ \A w \in Refreshers : InPlace(w)
    /\ alone # None => Undisturbed(alone)

(* What is the provider's own.                                             *)
LEMMA OwnNames ==
    /\ SourceKey \in StatusKeys /\ CardKey \in StatusKeys /\ SourceKey # CardKey
    /\ OwnKeys = {SourceKey, CardKey}
    /\ \A stale \in BOOLEAN : FactsOf(Source, stale) \in Facts /\ FactsOf(CardSource, stale) \in Facts
    /\ MaxTick \in Nat
    /\ \A n \in 1..MaxTick : n \in Times /\ n \in ObservationTimes
    /\ Faulty \in Faults /\ Faulty # "ok" /\ Faulty # "stale"
<1>1. /\ Provider \in Providers /\ Source \in CurrentSources /\ Source # CardSource
      /\ CardSource # None /\ Faulty \in Faults /\ Amount \in CurrentValues
      /\ MaxTick \in 1..MaxTime /\ MaxTick <= MaxObservation
  BY CurrentCollectorAssumption
<1>2. Source \in Sources /\ CardSource \in Sources
  BY <1>1 DEF Sources
<1>3. SourceKey \in StatusKeys /\ CardKey \in StatusKeys /\ SourceKey # CardKey
  BY <1>1, <1>2 DEF StatusKeys, SourceKey, CardKey
<1>4. MaxTime \in Nat /\ MaxObservation \in Nat
  BY TimeAssumption, CurrentAssumption
<1>5. MaxTick \in Nat /\ \A n \in 1..MaxTick : n \in Times /\ n \in ObservationTimes
  BY <1>1, <1>4 DEF Times, ObservationTimes
<1>6. Faulty # "ok" /\ Faulty # "stale"
  BY <1>1, FaultAssumption
<1>7. \A stale \in BOOLEAN : FactsOf(Source, stale) \in Facts /\ FactsOf(CardSource, stale) \in Facts
  BY <1>1 DEF FactsOf, Facts
<1> QED
  BY <1>1, <1>3, <1>5, <1>6, <1>7 DEF OwnKeys

-----------------------------------------------------------------------------
(* The store.                                                              *)

\* A transaction that was rolled back, or had nothing to say.
LEMMA IdleStore ==
    ASSUME StoreInv, changeLog' = changeLog, raised' \in BOOLEAN,
           UNCHANGED <<sourceStatus, dailyVars, currentVars>>
    PROVE  StoreInv'
<1>1. TypeOK'
  BY IdleStep DEF StoreInv
<1>2. Still
  BY DEF Still, dailyVars, usageVars, costVars, currentVars
<1>3. CarryInv'
  BY <1>2, StillRows, CarryIdle DEF StoreInv
<1>4. \A record : RevisionsOf(record)' = RevisionsOf(record)
  BY DEF RevisionsOf, ChangesOf
<1>5. Unpublished'
  BY <1>4 DEF StoreInv, Unpublished
<1> QED
  BY <1>1, <1>3, <1>5 DEF StoreInv

\* A step that publishes nothing of a source.
Unsaid(key) == \E changes : Grows(changes) /\ \A c \in changes : c.record # StatusId(key)

LEMMA UnsaidKeeps ==
    ASSUME NEW key, Unsaid(key), RevisionsOf(StatusId(key)) = {}
    PROVE  RevisionsOf(StatusId(key))' = {}
<1>1. PICK changes : Grows(changes) /\ \A c \in changes : c.record # StatusId(key)
  BY DEF Unsaid
<1>2. \A i \in 1..Len(changeLog) : changeLog[i].record # StatusId(key)
  BY DEF RevisionsOf, ChangesOf
<1>3. ASSUME NEW i \in 1..Len(changeLog')
      PROVE  changeLog'[i].record # StatusId(key)
  <2>1. CASE i \in 1..Len(changeLog)
    BY <1>1, <1>2, <2>1 DEF Grows
  <2>2. CASE i \notin 1..Len(changeLog)
    <3>1. i \in (Len(changeLog) + 1)..Len(changeLog')
      BY <1>1, <2>2 DEF Grows
    <3> QED
      BY <1>1, <3>1 DEF Grows
  <2> QED
    BY <2>1, <2>2
<1> QED
  BY <1>3 DEF RevisionsOf, ChangesOf

LEMMA UnstatedUnsaid ==
    ASSUME NEW key, Unstated
    PROVE  Unsaid(key)
BY DEF Unstated, Unsaid

(* A transaction about no health leaves its history alone.                 *)
LEMMA UnstatedKeeps ==
    ASSUME Unpublished, Unstated, sourceStatus' = sourceStatus
    PROVE  Unpublished'
BY UnsaidKeeps, UnstatedUnsaid DEF Unpublished, OwnKeys, SourceKey, CardKey

(* The writes of current facts.                                            *)
FactsWritten ==
    \/ UpsertProviderInstance(Provider, Identity)
    \/ \E record \in Balances, facts \in Facts, t \in ObservationTimes :
          RecordBalance(record, facts, t)
    \/ \E record \in Quotas, facts \in Facts, t \in ObservationTimes :
          RecordQuota(record, facts, t)
    \/ \E t : \/ MarkBalanceSourceStale(Provider, Source, t)
              \/ MarkQuotaSourceStale(Provider, Source, t)

LEMMA FactsStore ==
    ASSUME StoreInv, FactsWritten, UNCHANGED <<sourceStatus, dailyVars>>
    PROVE  StoreInv'
<1>1. TypeOK /\ CarryInv /\ Unpublished
  BY DEF StoreInv
<1>2. Provider \in Providers /\ Identity \in Instances
  BY CurrentCollectorAssumption
<1>3. TypeOK' /\ CarryInv' /\ Unstated
  <2>1. CASE UpsertProviderInstance(Provider, Identity)
    BY <1>1, <1>2, <2>1, UpsertStep, UpsertCarry, UpsertQuiet
  <2>2. ASSUME NEW record \in Balances, NEW facts \in Facts, NEW t \in ObservationTimes,
               RecordBalance(record, facts, t)
        PROVE  TypeOK' /\ CarryInv' /\ Unstated
    BY <1>1, <2>2, RecordBalanceStep, RecordBalanceCarry, BalanceQuiet
  <2>3. ASSUME NEW record \in Quotas, NEW facts \in Facts, NEW t \in ObservationTimes,
               RecordQuota(record, facts, t)
        PROVE  TypeOK' /\ CarryInv' /\ Unstated
    BY <1>1, <2>3, RecordQuotaStep, RecordQuotaCarry, RecordQuotaGrows
  <2>4. ASSUME NEW t, MarkBalanceSourceStale(Provider, Source, t)
        PROVE  TypeOK' /\ CarryInv' /\ Unstated
    BY <1>1, <2>4, MarkBalanceStep, MarkBalanceCarry, MarkBalanceQuiet
  <2>5. ASSUME NEW t, MarkQuotaSourceStale(Provider, Source, t)
        PROVE  TypeOK' /\ CarryInv' /\ Unstated
    BY <1>1, <2>5, MarkQuotaStep, MarkQuotaCarry, MarkQuotaQuiet
  <2> QED
    BY <2>1, <2>2, <2>3, <2>4, <2>5 DEF FactsWritten
<1> QED
  BY <1>1, <1>3, UnstatedKeeps DEF StoreInv

(* What others publish.  A source whose row is absent behind their step is *)
(* not the one they state, or their transaction was refused.               *)
LEMMA StatedElsewhere ==
    ASSUME TypeOK, NEW key \in StatusKeys, sourceStatus'[key] = None,
           NEW status \in StatusKeys, NEW facts \in StatusFacts,
           NEW changes, NEW position, Commit(changes, position), StatesOnly(status),
           sourceStatus' = Committed(WithStatus(status, facts), sourceStatus)
    PROVE  Unsaid(key)
<1>1. CASE raised'
  <2>1. changeLog' = changeLog
    BY <1>1 DEF Commit, RollBack
  <2> QED
    BY <2>1, UnstatedIdle, UnstatedUnsaid
<1>2. CASE ~raised'
  <2>1. sourceStatus'[status] # None
    BY <1>2, WithStatusStores DEF Committed, TypeOK
  <2>2. status # key
    BY <2>1
  <2> QED
    BY <2>2 DEF StatesOnly, Unsaid
<1> QED
  BY <1>1, <1>2

LEMMA HealthElsewhere ==
    ASSUME TypeOK, StatusNext, NEW key \in StatusKeys,
           sourceStatus[key] = None, sourceStatus'[key] = None
    PROVE  Unsaid(key)
<1>1. PICK status \in StatusKeys, t \in Times :
         \/ \E expected \in ExpectedBy(status[2]) :
               \/ RecordSourceSuccess(status, t, expected)
               \/ \E state \in StatesBy(status[2]) :
                     RecordSourceStatus(status, state, t, expected)
         \/ status[2] = CardSource /\ DeleteSourceStatus(status, t)
  BY DEF StatusNext
<1>2. StatusTypeOK
  BY DEF TypeOK
<1>3. ASSUME NEW expected, RecordSourceSuccess(status, t, expected)
      PROVE  Unsaid(key)
  <2>1. AfterSuccess(status, t, expected) \in StatusFacts
    BY <1>2, SuccessTyped
  <2> QED
    BY <1>3, <2>1, StatusQuiet, StatedElsewhere DEF RecordSourceSuccess
<1>4. ASSUME NEW expected, NEW state \in StatesBy(status[2]),
             RecordSourceStatus(status, state, t, expected)
      PROVE  Unsaid(key)
  <2>1. state \in Faults \cup {"stale"}
    BY DEF StatesBy
  <2>2. AfterOutcome(status, state, t, expected) \in StatusFacts
    BY <1>2, <2>1, OutcomeTyped
  <2> QED
    BY <1>4, <2>2, StatusQuiet, StatedElsewhere DEF RecordSourceStatus
<1>5. CASE DeleteSourceStatus(status, t)
  <2>1. CASE status = key
    <3>1. Commit({}, AtOnce({}))
      BY <1>5, <2>1 DEF DeleteSourceStatus, StatusTombstones
    <3>2. Transaction({}, AtOnce({}))
      BY AtOnceTransaction DEF OnePerRecord
    <3> QED
      BY <3>1, <3>2, UnstatedCommit, UnstatedUnsaid
  <2>2. CASE status # key
    BY <1>5, <2>2, DeleteQuiet DEF StatesOnly, Unsaid
  <2> QED
    BY <2>1, <2>2
<1> QED
  BY <1>1, <1>3, <1>4, <1>5

LEMMA ImportsElsewhere ==
    ASSUME TypeOK, DailyNext, NEW key \in StatusKeys, sourceStatus'[key] = None
    PROVE  Unsaid(key)
<1>1. CASE UsageImports
  <2>1. PICK provider \in Providers, source \in UsageSources, range \in Ranges,
             t \in Times, revision \in Contracts \cup {None} :
           \E rows \in [InRange(UsageKeys, provider, range) -> Values \cup {None}] :
              CommitUsageImport(provider, source, range, rows, t, revision)
    BY <1>1 DEF UsageImports
  <2>2. PICK rows \in [InRange(UsageKeys, provider, range) -> Values \cup {None}] :
           CommitUsageImport(provider, source, range, rows, t, revision)
    BY <2>1
  <2> DEFINE status == <<provider, source>>
  <2>3. range \in SUBSET Days
    BY RangesAreDays
  <2>4. StatesOnly(status)
    BY <2>2, <2>3, UsageImportQuiet
  <2>5. status \in StatusKeys /\ AfterSuccess(status, t, None) \in StatusFacts
    BY SuccessTyped DEF StatusKeys, Sources, TypeOK
  <2>6. CASE HasNewerAttempt(status, t)
    BY <2>2, <2>6, UnstatedIdle, UnstatedUnsaid DEF CommitUsageImport, NothingPublished
  <2>7. CASE ~HasNewerAttempt(status, t)
    <3>1. \E changes, position : Commit(changes, position)
      BY <2>2, <2>7 DEF CommitUsageImport
    <3>2. sourceStatus' = Committed(WithStatus(status, AfterSuccess(status, t, None)), sourceStatus)
      BY <2>2, <2>7 DEF CommitUsageImport
    <3> QED
      BY <2>4, <2>5, <3>1, <3>2, StatedElsewhere
  <2> QED
    BY <2>6, <2>7
<1>2. CASE CostImports
  <2>1. PICK provider \in Providers, source \in CostSources, range \in Ranges, t \in Times :
           \E rows \in [InRange(CostKeys, provider, range) -> Values \cup {None}] :
              CommitCostImport(provider, source, range, rows, t)
    BY <1>2 DEF CostImports
  <2>2. PICK rows \in [InRange(CostKeys, provider, range) -> Values \cup {None}] :
           CommitCostImport(provider, source, range, rows, t)
    BY <2>1
  <2> DEFINE status == <<provider, source>>
  <2>3. range \in SUBSET Days
    BY RangesAreDays
  <2>4. StatesOnly(status)
    BY <2>2, <2>3, CostImportQuiet
  <2>5. status \in StatusKeys /\ AfterSuccess(status, t, None) \in StatusFacts
    BY SuccessTyped DEF StatusKeys, Sources, TypeOK
  <2>6. CASE HasNewerAttempt(status, t)
    BY <2>2, <2>6, UnstatedIdle, UnstatedUnsaid DEF CommitCostImport, NothingPublished
  <2>7. CASE ~HasNewerAttempt(status, t)
    <3>1. \E changes, position : Commit(changes, position)
      BY <2>2, <2>7 DEF CommitCostImport
    <3>2. sourceStatus' = Committed(WithStatus(status, AfterSuccess(status, t, None)), sourceStatus)
      BY <2>2, <2>7 DEF CommitCostImport
    <3> QED
      BY <2>4, <2>5, <3>1, <3>2, StatedElsewhere
  <2> QED
    BY <2>6, <2>7
<1> QED
  BY <1>1, <1>2 DEF DailyNext

LEMMA FactsUnstated ==
    ASSUME TypeOK, CurrentNext
    PROVE  Unstated
<1>1. ASSUME NEW provider \in Providers, NEW facts \in Instances,
             UpsertProviderInstance(provider, facts)
      PROVE  Unstated
  BY <1>1, UpsertQuiet
<1>2. ASSUME NEW facts \in Facts, NEW t \in ObservationTimes, NEW record \in Balances,
             RecordBalance(record, facts, t)
      PROVE  Unstated
  BY <1>2, BalanceQuiet
<1>3. ASSUME NEW facts \in Facts, NEW t \in ObservationTimes, NEW record \in Quotas,
             RecordQuota(record, facts, t)
      PROVE  Unstated
  BY <1>3, RecordQuotaGrows
<1>4. ASSUME NEW provider, NEW source, NEW t, MarkBalanceSourceStale(provider, source, t)
      PROVE  Unstated
  BY <1>4, MarkBalanceQuiet
<1>5. ASSUME NEW provider, NEW source, NEW t, MarkQuotaSourceStale(provider, source, t)
      PROVE  Unstated
  BY <1>5, MarkQuotaQuiet
<1> QED
  BY <1>1, <1>2, <1>3, <1>4, <1>5 DEF CurrentNext

(* Whatever others write, the store stays as the refresh needs it.         *)
LEMMA OthersStore ==
    ASSUME StoreInv, Next, UNCHANGED OwnRows
    PROVE  StoreInv'
<1>1. TypeOK /\ CarryInv /\ Unpublished
  BY DEF StoreInv
<1>2. TypeOK' /\ CarryInv'
  <2>1. TypeOK'
    BY <1>1, NextStep
  <2> QED
    BY <1>1, <2>1, NextCarry
<1>3. ASSUME NEW key \in OwnKeys, sourceStatus'[key] = None
      PROVE  RevisionsOf(StatusId(key))' = {}
  <2>1. key \in StatusKeys /\ sourceStatus[key] = None
    BY <1>3, OwnNames DEF OwnKeys, OwnRows
  <2>2. RevisionsOf(StatusId(key)) = {}
    BY <1>1, <2>1 DEF Unpublished
  <2>3. CASE StatusNext
    BY <1>1, <1>3, <2>1, <2>2, <2>3, HealthElsewhere, UnsaidKeeps
  <2>4. CASE DailyNext
    BY <1>1, <1>3, <2>1, <2>2, <2>4, ImportsElsewhere, UnsaidKeeps
  <2>5. CASE CurrentNext
    BY <1>1, <2>2, <2>5, FactsUnstated, UnstatedUnsaid, UnsaidKeeps
  <2>6. CASE Retention
    BY <1>1, <2>2, <2>6, PurgeQuiet, UnstatedUnsaid, UnsaidKeeps DEF Retention
  <2> QED
    BY <2>3, <2>4, <2>5, <2>6 DEF Next
<1>4. Unpublished'
  BY <1>3 DEF Unpublished, OwnKeys, SourceKey, CardKey
<1> QED
  BY <1>2, <1>4 DEF StoreInv

(* A report of health is never refused: its revision is new to the log.    *)
LEMMA HealthStore ==
    ASSUME StoreInv, NEW key \in OwnKeys, NEW facts \in StatusFacts,
           Commit(StatusChanges(key, facts), AtOnce(StatusChanges(key, facts))),
           sourceStatus' = Committed(WithStatus(key, facts), sourceStatus),
           UNCHANGED <<dailyVars, currentVars>>
    PROVE  /\ StoreInv' /\ ~raised'
           /\ sourceStatus'[key] # None /\ sourceStatus'[key].payload = facts
           /\ \A k \in StatusKeys \ {key} : sourceStatus'[k] = sourceStatus[k]
<1> DEFINE changes == StatusChanges(key, facts)
<1>1. TypeOK /\ CarryInv /\ Unpublished /\ StatusTypeOK /\ key \in StatusKeys
  BY OwnNames DEF StoreInv, TypeOK, OwnKeys
<1>2. /\ changes \in SUBSET Changes /\ OnePerRecord(changes)
      /\ \A c \in changes : c.record = StatusId(key)
  BY <1>1, StatusChangesTyped
<1>3. \A c \in changes : c.revision = StatusRevision(key)
  BY ChangeFields DEF StatusChanges
<1>4. StatusRevision(key) \notin RevisionsOf(StatusId(key))
  <2>1. CASE sourceStatus[key] = None
    BY <1>1, <2>1 DEF Unpublished
  <2>2. CASE sourceStatus[key] # None
    <3>1. StatusRevision(key) = LatestRevision(StatusId(key)) + 1
      BY <1>1, <2>2, RowCarries DEF StatusRevision
    <3>2. Numbered(Changes)
      BY <1>1 DEF TypeOK, Numbered, Changes
    <3>3. Greatness(StatusId(key))
      BY <3>2, LatestIsGreatest
    <3>4. ASSUME LatestRevision(StatusId(key)) + 1 \in RevisionsOf(StatusId(key))
          PROVE  FALSE
      BY <3>3, <3>4 DEF Greatness
    <3> QED
      BY <3>1, <3>4
  <2> QED
    BY <2>1, <2>2
<1>5. ~Collides(changes)
  BY <1>2, <1>3, <1>4 DEF Collides
<1>6. ~raised' /\ sourceStatus' = WithStatus(key, facts)
  BY <1>5 DEF Commit, Committed
<1>7. TypeOK' /\ CarryInv'
  BY <1>1, StatusStep, StatusCarry
<1>8. /\ sourceStatus'[key] # None /\ sourceStatus'[key].payload = facts
      /\ \A k \in StatusKeys \ {key} : sourceStatus'[k] = sourceStatus[k]
  BY <1>1, <1>6, WithStatusStores
<1> HIDE DEF changes
<1>9. Appends(changes)
  <2>1. Transaction(changes, AtOnce(changes))
    BY <1>2, AtOnceTransaction
  <2> QED
    BY <1>1, <1>6, <2>1, LogGrows DEF changes
<1>10. Unpublished'
  <2>1. ASSUME NEW k \in OwnKeys, sourceStatus'[k] = None
        PROVE  RevisionsOf(StatusId(k))' = {}
    <3>1. k # key /\ sourceStatus[k] = None
      BY <1>8, <2>1, OwnNames DEF OwnKeys
    <3>2. \A c \in changes : c.record # StatusId(k)
      BY <1>2, <3>1, IdsDiffer
    <3>3. RevisionsOf(StatusId(k)) = {}
      BY <1>1, <3>1 DEF Unpublished
    <3> QED
      BY <1>9, <3>2, <3>3, AppendsRevisionsOf
  <2> QED
    BY <2>1 DEF Unpublished, OwnKeys, SourceKey, CardKey
<1> QED
  BY <1>6, <1>7, <1>8, <1>10 DEF StoreInv

(* What a report leaves of the health of its source: the newest attempt.   *)
Reported(key, state, t) ==
    /\ StoreInv' /\ ~raised'
    /\ sourceStatus'[key] # None
    /\ sourceStatus[key] # None /\ Health(key).lastAttempt > t
          => Health(key)'.lastAttempt = Health(key).lastAttempt
    /\ (sourceStatus[key] # None => Health(key).lastAttempt <= t)
          => Health(key)'.lastAttempt = t /\ Health(key)'.state = state
    /\ \A k \in StatusKeys \ {key} : sourceStatus'[k] = sourceStatus[k]

LEMMA SuccessReported ==
    ASSUME StoreInv, NEW key \in OwnKeys, NEW t \in Times,
           RecordSourceSuccess(key, t, None), UNCHANGED <<dailyVars, currentVars>>
    PROVE  Reported(key, "ok", t)
<1> DEFINE facts == AfterSuccess(key, t, None)
<1>1. StatusTypeOK /\ key \in StatusKeys
  BY OwnNames DEF StoreInv, TypeOK, OwnKeys
<1>2. facts \in StatusFacts
  BY <1>1, SuccessTyped
<1>3. /\ StoreInv' /\ ~raised'
      /\ sourceStatus'[key] # None /\ sourceStatus'[key].payload = facts
      /\ \A k \in StatusKeys \ {key} : sourceStatus'[k] = sourceStatus[k]
  BY <1>2, HealthStore DEF RecordSourceSuccess
<1>4. sourceStatus[key] # None => sourceStatus[key].payload.lastAttempt \in Nat
  BY <1>1, StatusColumns
<1>5. t \in Nat
  BY TimeAssumption DEF Times
<1>6. sourceStatus[key] # None /\ Health(key).lastAttempt > t
         => facts = sourceStatus[key].payload
  BY <1>4, <1>5 DEF AfterSuccess, Supersedes, Health
<1>7. (sourceStatus[key] # None => Health(key).lastAttempt <= t)
         => facts.lastAttempt = t /\ facts.state = "ok"
  BY <1>4, <1>5 DEF AfterSuccess, Supersedes, Health, SuccessFacts
<1> HIDE DEF facts
<1> QED
  BY <1>3, <1>6, <1>7 DEF Reported, Health

LEMMA OutcomeReported ==
    ASSUME StoreInv, NEW key \in OwnKeys, NEW t \in Times,
           NEW state \in Faults \cup {"stale"},
           RecordSourceStatus(key, state, t, None), UNCHANGED <<dailyVars, currentVars>>
    PROVE  Reported(key, state, t)
<1> DEFINE facts == AfterOutcome(key, state, t, None)
<1>1. StatusTypeOK /\ key \in StatusKeys
  BY OwnNames DEF StoreInv, TypeOK, OwnKeys
<1>2. facts \in StatusFacts
  BY <1>1, OutcomeTyped
<1>3. /\ StoreInv' /\ ~raised'
      /\ sourceStatus'[key] # None /\ sourceStatus'[key].payload = facts
      /\ \A k \in StatusKeys \ {key} : sourceStatus'[k] = sourceStatus[k]
  BY <1>2, HealthStore DEF RecordSourceStatus
<1>4. sourceStatus[key] # None => sourceStatus[key].payload.lastAttempt \in Nat
  BY <1>1, StatusColumns
<1>5. t \in Nat
  BY TimeAssumption DEF Times
<1>6. sourceStatus[key] # None /\ Health(key).lastAttempt > t
         => facts = sourceStatus[key].payload
  BY <1>4, <1>5 DEF AfterOutcome, Supersedes, Health
<1>7. (sourceStatus[key] # None => Health(key).lastAttempt <= t)
         => facts.lastAttempt = t /\ facts.state = state
  BY <1>4, <1>5 DEF AfterOutcome, Supersedes, Health
<1> HIDE DEF facts
<1> QED
  BY <1>3, <1>6, <1>7 DEF Reported, Health

-----------------------------------------------------------------------------
(* The row of the source.                                                  *)

\* An observation replaces a row that is not newer.
Landed(before, after, facts, t) ==
    IF before # None /\ before.observedAt > t THEN after = before
    ELSE after # None /\ after.payload = facts /\ after.observedAt = t

\* A row its source is marked stale at: the same observation, and no longer
\* live if the mark is due.
Marked(before, after, due) ==
    /\ before = None => after = None
    /\ before # None =>
          /\ after # None
          /\ after.observedAt = before.observedAt
          /\ after.payload.provider = before.payload.provider
          /\ after.payload.source = before.payload.source
          /\ due => after.payload.stale

LEMMA ObservedLands ==
    ASSUME NEW row \in CurrentRows \cup {None}, NEW facts \in Facts, NEW t \in ObservationTimes,
           ~Older(row, t)
    PROVE  Landed(row, Observed(row, facts, t), facts, t)
<1>1. t \in Nat
  BY CurrentAssumption DEF ObservationTimes
<1>2. row # None => row.observedAt \in Nat
  BY CurrentAssumption DEF CurrentRows, ObservationTimes
<1>3. ~(row # None /\ row.observedAt > t)
  BY <1>1, <1>2 DEF Older
<1>4. Observed(row, facts, t).payload = facts /\ Observed(row, facts, t).observedAt = t
  BY DEF Observed
<1>5. RowRevision(row, facts) \in Nat \ {0}
  BY DEF RowRevision, CurrentRows
<1>6. Observed(row, facts, t) \in CurrentRows
  BY <1>5 DEF Observed, CurrentRows
<1> QED
  BY <1>3, <1>4, <1>6, NoRowAssumption DEF Landed

LEMMA LateStays ==
    ASSUME NEW row \in CurrentRows \cup {None}, NEW facts, NEW t \in ObservationTimes,
           Older(row, t)
    PROVE  Landed(row, row, facts, t)
<1>1. t \in Nat /\ row \in CurrentRows
  BY CurrentAssumption DEF ObservationTimes, Older
<1>2. row.observedAt \in Nat
  BY <1>1, CurrentAssumption DEF CurrentRows, ObservationTimes
<1> QED
  BY <1>1, <1>2 DEF Older, Landed

LEMMA BalanceLands ==
    ASSUME TypeOK, NEW record \in Balances, NEW facts \in Facts, NEW t \in ObservationTimes,
           RecordBalance(record, facts, t)
    PROVE  /\ quota' = quota
           /\ IF raised' THEN balance' = balance
              ELSE Landed(balance[record], balance'[record], facts, t)
<1> DEFINE row == balance[record]
<1>1. balance \in [Balances -> CurrentRows \cup {None}] /\ row \in CurrentRows \cup {None}
  BY DEF TypeOK, CurrentTypeOK
<1>2. quota' = quota
  BY DEF RecordBalance
<1>3. CASE Older(row, t)
  BY <1>1, <1>2, <1>3, LateStays DEF RecordBalance, NothingPublished
<1>4. CASE ~Older(row, t)
  <2>1. balance' = Committed([balance EXCEPT ![record] = Observed(row, facts, t)], balance)
    BY <1>4 DEF RecordBalance
  <2>2. ~raised' => balance'[record] = Observed(row, facts, t)
    BY <1>1, <2>1 DEF Committed
  <2>3. Landed(row, Observed(row, facts, t), facts, t)
    BY <1>1, <1>4, ObservedLands
  <2> QED
    BY <1>2, <2>1, <2>2, <2>3 DEF Committed
<1> QED
  BY <1>3, <1>4

LEMMA QuotaLands ==
    ASSUME TypeOK, NEW record \in Quotas, NEW facts \in Facts, NEW t \in ObservationTimes,
           RecordQuota(record, facts, t)
    PROVE  /\ balance' = balance
           /\ IF raised' THEN quota' = quota
              ELSE Landed(quota[record], quota'[record], facts, t)
<1> DEFINE row == quota[record]
<1>1. quota \in [Quotas -> CurrentRows \cup {None}] /\ row \in CurrentRows \cup {None}
  BY DEF TypeOK, CurrentTypeOK
<1>2. /\ balance' = balance
      /\ quota' = Committed(IF Older(row, t) THEN quota
                            ELSE [quota EXCEPT ![record] = Observed(row, facts, t)], quota)
  BY DEF RecordQuota
<1>3. CASE Older(row, t)
  BY <1>1, <1>2, <1>3, LateStays DEF Committed
<1>4. CASE ~Older(row, t)
  <2>1. ~raised' => quota'[record] = Observed(row, facts, t)
    BY <1>1, <1>2, <1>4 DEF Committed
  <2>2. Landed(row, Observed(row, facts, t), facts, t)
    BY <1>1, <1>4, ObservedLands
  <2> QED
    BY <1>2, <2>1, <2>2 DEF Committed
<1> QED
  BY <1>3, <1>4

LEMMA StaledMarked ==
    ASSUME NEW row \in CurrentRows, NEW due
    PROVE  Marked(row, Staled(row), due)
<1> DEFINE payload == [row.payload EXCEPT !.stale = TRUE]
<1>1. Staled(row) \in CurrentRows /\ Staled(row) # None
  <2>1. row.payload \in Facts /\ row.revision \in Nat \ {0}
    BY DEF CurrentRows
  <2>2. payload \in Facts
    BY <2>1 DEF Facts
  <2>3. row.revision + 1 \in Nat \ {0}
    BY <2>1
  <2>4. Staled(row) = [row EXCEPT !.payload = payload, !.revision = row.revision + 1]
    BY DEF Staled, CurrentRows
  <2> HIDE DEF payload
  <2>5. Staled(row) \in CurrentRows
    BY <2>2, <2>3, <2>4 DEF CurrentRows
  <2> QED
    BY <2>5, NoRowAssumption
<1>2. /\ Staled(row).observedAt = row.observedAt
      /\ Staled(row).payload = payload
  BY DEF Staled, CurrentRows
<1>3. row.payload \in Facts
  BY DEF CurrentRows
<1> QED
  BY <1>1, <1>2, <1>3, NoRowAssumption DEF Marked, Facts

\* A mark is never refused: the row carries the revision before its own.
LEMMA MarksAccepted ==
    ASSUME TypeOK, CarryInv, NEW changes, NEW position, Commit(changes, position),
           \A c \in changes : \E record : \E row \in CurrentRows :
              c = StaleChange(record, row) /\ row.revision = LatestRevision(record)
    PROVE  ~raised'
<1>1. Numbered(Changes)
  BY DEF TypeOK, Numbered, Changes
<1>2. ASSUME NEW c \in changes
      PROVE  c.revision \notin RevisionsOf(c.record)
  <2>1. PICK record : \E row \in CurrentRows :
           c = StaleChange(record, row) /\ row.revision = LatestRevision(record)
    OBVIOUS
  <2>2. c.record = record /\ c.revision = LatestRevision(record) + 1
    BY <2>1, StaleCarries DEF NextRevision
  <2>3. Greatness(record)
    BY <1>1, LatestIsGreatest
  <2>4. ASSUME LatestRevision(record) + 1 \in RevisionsOf(record) PROVE FALSE
    BY <2>3, <2>4 DEF Greatness
  <2> QED
    BY <2>2, <2>4
<1> QED
  BY <1>2 DEF Commit, Collides

LEMMA BalanceMarked ==
    ASSUME TypeOK, CarryInv, NEW provider, NEW source, NEW t,
           MarkBalanceSourceStale(provider, source, t), NEW k \in Balances
    PROVE  /\ ~raised'
           /\ Marked(balance[k], balance'[k],
                     balance[k].payload.provider = provider /\ balance[k].payload.source = source)
<1> DEFINE marked  == LiveOf(balance, provider, source)
           changes == {StaleChange(BalanceId(record), balance[record]) : record \in marked}
           due     == balance[k].payload.provider = provider /\ balance[k].payload.source = source
<1>1. balance \in [Balances -> CurrentRows \cup {None}]
  BY DEF TypeOK, CurrentTypeOK
<1>2. \A record \in marked : record \in Balances /\ balance[record] # None /\ balance[record] \in CurrentRows
  BY <1>1 DEF LiveOf
<1>3. \A c \in changes : \E record : \E row \in CurrentRows :
         c = StaleChange(record, row) /\ row.revision = LatestRevision(record)
  <2>1. ASSUME NEW record \in marked
        PROVE  \E id : \E row \in CurrentRows :
                  /\ StaleChange(BalanceId(record), balance[record]) = StaleChange(id, row)
                  /\ row.revision = LatestRevision(id)
    <3>1. balance[record].revision = LatestRevision(BalanceId(record))
      BY <1>2, RowCarries
    <3> QED
      BY <1>2, <3>1
  <2> QED
    BY <2>1
<1>4. Commit(changes, AtOnce(changes))
  BY DEF MarkBalanceSourceStale
<1>5. ~raised'
  <2> HIDE DEF changes
  <2> QED
    BY <1>3, <1>4, MarksAccepted
<1>6. balance'[k] = IF k \in marked THEN Staled(balance[k]) ELSE balance[k]
  BY <1>5 DEF MarkBalanceSourceStale, Committed
<1>7. CASE k \in marked
  BY <1>2, <1>5, <1>6, <1>7, StaledMarked
<1>8. CASE k \notin marked
  <2>1. balance[k] # None /\ due => balance[k].payload.stale
    BY <1>1, <1>8 DEF LiveOf
  <2> QED
    BY <1>5, <1>6, <1>8, <2>1 DEF Marked
<1> QED
  BY <1>7, <1>8

LEMMA QuotaMarked ==
    ASSUME TypeOK, CarryInv, NEW provider, NEW source, NEW t,
           MarkQuotaSourceStale(provider, source, t), NEW k \in Quotas
    PROVE  /\ ~raised'
           /\ Marked(quota[k], quota'[k],
                     /\ quota[k].payload.provider = provider /\ quota[k].payload.source = source
                     /\ quota[k].observedAt <= t)
<1> DEFINE marked  == {record \in LiveOf(quota, provider, source) : quota[record].observedAt <= t}
           changes == {StaleChange(QuotaId(record), quota[record]) : record \in marked}
           due     == /\ quota[k].payload.provider = provider /\ quota[k].payload.source = source
                      /\ quota[k].observedAt <= t
<1>1. quota \in [Quotas -> CurrentRows \cup {None}]
  BY DEF TypeOK, CurrentTypeOK
<1>2. \A record \in marked : record \in Quotas /\ quota[record] # None /\ quota[record] \in CurrentRows
  BY <1>1 DEF LiveOf
<1>3. \A c \in changes : \E record : \E row \in CurrentRows :
         c = StaleChange(record, row) /\ row.revision = LatestRevision(record)
  <2>1. ASSUME NEW record \in marked
        PROVE  \E id : \E row \in CurrentRows :
                  /\ StaleChange(QuotaId(record), quota[record]) = StaleChange(id, row)
                  /\ row.revision = LatestRevision(id)
    <3>1. quota[record].revision = LatestRevision(QuotaId(record))
      BY <1>2, RowCarries
    <3> QED
      BY <1>2, <3>1
  <2> QED
    BY <2>1
<1>4. Commit(changes, AtOnce(changes))
  BY DEF MarkQuotaSourceStale
<1>5. ~raised'
  <2> HIDE DEF changes
  <2> QED
    BY <1>3, <1>4, MarksAccepted
<1>6. quota'[k] = IF k \in marked THEN Staled(quota[k]) ELSE quota[k]
  BY <1>5 DEF MarkQuotaSourceStale, Committed
<1>7. CASE k \in marked
  BY <1>2, <1>5, <1>6, <1>7, StaledMarked
<1>8. CASE k \notin marked
  <2>1. quota[k] # None /\ due => quota[k].payload.stale
    BY <1>1, <1>8 DEF LiveOf
  <2> QED
    BY <1>5, <1>6, <1>8, <2>1 DEF Marked
<1> QED
  BY <1>7, <1>8

(* The row of either kind.                                                 *)
LEMMA RowLands ==
    ASSUME TypeOK, kind' = kind, NEW t \in ObservationTimes,
           \/ kind = "balance" /\ RecordBalance(Record, FactsOf(Source, FALSE), t)
           \/ kind = "quota" /\ RecordQuota(Record, FactsOf(Source, FALSE), t)
    PROVE  IF raised' THEN Row' = Row ELSE Landed(Row, Row', FactsOf(Source, FALSE), t)
<1>1. Record \in Balances /\ Record \in Quotas
  BY CurrentCollectorAssumption
<1>2. CASE kind = "balance" /\ RecordBalance(Record, FactsOf(Source, FALSE), t)
  <2>1. Row = balance[Record] /\ Row' = balance'[Record]
    BY <1>2 DEF Row
  <2> QED
    BY <1>1, <1>2, <2>1, OwnNames, BalanceLands
<1>3. CASE kind = "quota" /\ RecordQuota(Record, FactsOf(Source, FALSE), t)
  <2>1. Row = quota[Record] /\ Row' = quota'[Record]
    BY <1>3 DEF Row
  <2> QED
    BY <1>1, <1>3, <2>1, OwnNames, QuotaLands
<1> QED
  BY <1>2, <1>3

LEMMA RowMarked ==
    ASSUME TypeOK, CarryInv, kind' = kind, RowInTime, NEW t,
           \/ kind = "balance" /\ MarkBalanceSourceStale(Provider, Source, t)
           \/ kind = "quota" /\ MarkQuotaSourceStale(Provider, Source, t)
    PROVE  ~raised' /\ Marked(Row, Row', Row.observedAt <= t)
<1>1. Record \in Balances /\ Record \in Quotas
  BY CurrentCollectorAssumption
<1>2. CASE kind = "balance" /\ MarkBalanceSourceStale(Provider, Source, t)
  <2>1. Row = balance[Record] /\ Row' = balance'[Record]
    BY <1>2 DEF Row
  <2> QED
    BY <1>1, <1>2, <2>1, BalanceMarked DEF Marked, RowInTime
<1>3. CASE kind = "quota" /\ MarkQuotaSourceStale(Provider, Source, t)
  <2>1. Row = quota[Record] /\ Row' = quota'[Record]
    BY <1>3 DEF Row
  <2> QED
    BY <1>1, <1>3, <2>1, QuotaMarked DEF Marked, RowInTime
<1> QED
  BY <1>2, <1>3

-----------------------------------------------------------------------------
(* The steps of the aggregator.                                            *)

\* Facts a step leaves alone are as much in time as they were.
LEMMA SameFacts ==
    ASSUME TypeOK, RowInTime, kind' = kind, balance' = balance, quota' = quota,
           tick \in Nat, tick' \in Nat, tick' >= tick
    PROVE  Row' = Row /\ RowInTime'
<1>1. Row' = Row
  BY DEF Row
<1>2. Record \in Balances /\ Record \in Quotas
  BY CurrentCollectorAssumption
<1>3. Row \in CurrentRows \cup {None}
  BY <1>2 DEF Row, TypeOK, CurrentTypeOK
<1>4. Row # None => Row.observedAt \in Nat
  BY <1>3, CurrentAssumption DEF CurrentRows, ObservationTimes
<1> QED
  BY <1>1, <1>4 DEF RowInTime

LEMMA SameHealth ==
    ASSUME TypeOK, HealthInTime, sourceStatus' = sourceStatus,
           tick \in Nat, tick' \in Nat, tick' >= tick
    PROVE  HealthInTime'
<1>1. \A key \in OwnKeys : sourceStatus[key] # None => Health(key).lastAttempt \in Nat
  BY OwnNames, StatusColumns DEF TypeOK, Health, OwnKeys
<1> QED
  BY <1>1 DEF HealthInTime, Health

\* A refresh that is under way is alone, or meets another one.
LEMMA OnlyOne ==
    ASSUME AgreeInv, NEW w \in Refreshers, ~Rests(w), alone # None
    PROVE  alone = w /\ Prompt(w) /\ (asked[w] # "raised" => Reached(w))
BY DEF AgreeInv, Undisturbed, Prompt

\* The invariant, by what a step of one refresh must show.
LEMMA Kept ==
    ASSUME NEW w \in Refreshers,
           StoreInv', RefreshTyped', RowInTime', HealthInTime',
           \A v \in Refreshers : InPlace(v)',
           alone' # None => alone' = w /\ Prompt(w)' /\ (asked'[w] # "raised" => Reached(w)')
    PROVE  AgreeInv'
<1>1. ASSUME alone' # None PROVE Undisturbed(alone)'
  <2>1. Undisturbed(w)'
    BY <1>1 DEF Undisturbed
  <2>2. alone' = w
    BY <1>1
  <2> QED
    BY <2>1, <2>2 DEF Undisturbed, Prompt, Reached, SourceSettled
<1> QED
  BY <1>1 DEF AgreeInv

LEMMA TickTyped == AgreeInv => tick \in Nat /\ tick \in 0..MaxTick /\ MaxTick \in Nat
BY OwnNames DEF AgreeInv, RefreshTyped

\* Nothing of the store changes before the collector.
LEMMA StoreAside ==
    ASSUME AgreeInv, UNCHANGED <<storeVars, dailyVars>>, kind' = kind,
           tick' \in Nat, tick' >= tick
    PROVE  StoreInv' /\ RowInTime' /\ HealthInTime' /\ Row' = Row
<1>1. StoreInv /\ TypeOK /\ RowInTime /\ HealthInTime /\ tick \in Nat
  BY TickTyped DEF AgreeInv, StoreInv
<1>2. /\ changeLog' = changeLog /\ raised' = raised /\ sourceStatus' = sourceStatus
      /\ balance' = balance /\ quota' = quota /\ UNCHANGED currentVars
  BY DEF storeVars, feedVars, currentVars
<1>3. raised' \in BOOLEAN
  BY <1>1, <1>2 DEF TypeOK
<1>4. StoreInv'
  BY <1>1, <1>2, <1>3, IdleStore
<1> QED
  BY <1>1, <1>2, <1>4, SameFacts, SameHealth

LEMMA LoadCardsAgrees ==
    ASSUME AgreeInv, NEW w \in Refreshers, LoadCards(w), UNCHANGED dailyVars
    PROVE  AgreeInv'
<1>1. RefreshTyped /\ tick \in Nat /\ \A v \in Refreshers : InPlace(v)
  BY TickTyped DEF AgreeInv
<1> DEFINE loaded == [AtRest EXCEPT !.at = "asking", !.card = cardFile]
<1>2. /\ UNCHANGED <<storeVars, kind, cardFile, lastResult, asked, tick>>
      /\ refresher' = [refresher EXCEPT ![w] = loaded]
      /\ alone' \in {w, None}
      /\ alone' # None => \A v \in Refreshers \ {w} : Rests(v)
  BY DEF LoadCards
<1>3. /\ loaded \in [at : Refreshing, card : TrueCards \cup {None}, attempt : 0..tick]
      /\ loaded.at = "asking"
  <2>1. AtRest \in [at : Refreshing, card : TrueCards \cup {None}, attempt : 0..tick]
    BY <1>1 DEF AtRest, Refreshing
  <2>2. "asking" \in Refreshing /\ cardFile \in TrueCards \cup {None}
    BY <1>1 DEF Refreshing, RefreshTyped
  <2> QED
    BY <2>1, <2>2
<1> HIDE DEF loaded
<1>4. /\ refresher'[w] = loaded /\ refresher'[w].at = "asking"
      /\ \A v \in Refreshers \ {w} : refresher'[v] = refresher[v]
  BY <1>1, <1>2, <1>3 DEF RefreshTyped
<1>5. StoreInv' /\ RowInTime' /\ HealthInTime'
  BY <1>1, <1>2, StoreAside
<1>6. RefreshTyped'
  <2>1. refresher' \in [Refreshers -> [at : Refreshing, card : TrueCards \cup {None},
                                        attempt : 0..tick]]
    BY <1>1, <1>2, <1>3 DEF RefreshTyped
  <2> QED
    BY <1>1, <1>2, <2>1 DEF RefreshTyped
<1>7. ASSUME NEW v \in Refreshers PROVE InPlace(v)'
  BY <1>1, <1>2, <1>4 DEF InPlace, Collecting, OfTheSource, OfTheCard
<1>8. alone' # None => Prompt(w)' /\ Reached(w)'
  BY <1>2, <1>4 DEF Prompt, Reached, Rests, Collecting, OfTheSource, OfTheCard
<1> QED
  BY <1>2, <1>5, <1>6, <1>7, <1>8, Kept

\* What the aggregator makes of a card is a card.
LEMMA ResolvedTyped ==
    ASSUME NEW brought \in TrueCards \cup {None}, NEW cached \in TrueCards \cup {None}
    PROVE  Resolved(brought, cached) \in TrueCards \cup {None}
<1>1. ASSUME NEW card \in TrueCards
      PROVE  Carried(card) \in TrueCards
  BY <1>1 DEF Carried, TrueCards, Cards
<1> QED
  BY <1>1 DEF Resolved

LEMMA AskAgrees ==
    ASSUME AgreeInv, NEW w \in Refreshers, Ask(w), UNCHANGED dailyVars
    PROVE  AgreeInv'
<1>1. RefreshTyped /\ tick \in Nat /\ MaxTick \in Nat /\ \A v \in Refreshers : InPlace(v)
  BY TickTyped DEF AgreeInv
<1>2. /\ UNCHANGED <<storeVars, kind, cardFile, alone>>
      /\ refresher[w].at = "asking" /\ tick < MaxTick /\ tick' = tick + 1
  BY DEF Ask
<1>3. PICK answer \in {"answered", "failed", "raised"} :
         /\ asked' = [asked EXCEPT ![w] = answer]
         /\ lastResult' = [lastResult EXCEPT
               ![w] = IF answer = "answered" THEN tick'
                      ELSE IF answer = "failed" THEN None ELSE @]
  BY DEF Ask
<1>4. PICK brought \in FreshCards :
         refresher' = [refresher EXCEPT ![w].at = "resolved",
                                        ![w].card = Resolved(brought, refresher[w].card)]
  BY DEF Ask
<1> DEFINE card == Resolved(brought, refresher[w].card)
<1>5. brought \in TrueCards \cup {None}
  <2>1. tick' \in 1..MaxTick
    BY <1>1, <1>2
  <2> QED
    BY <2>1 DEF FreshCards, Card, TrueCards, Cards
<1>6. refresher[w] \in [at : Refreshing, card : TrueCards \cup {None}, attempt : 0..tick]
  BY <1>1 DEF RefreshTyped
<1>7. card \in TrueCards \cup {None}
  BY <1>5, <1>6, ResolvedTyped
<1> HIDE DEF card
<1>8. /\ refresher'[w] = [refresher[w] EXCEPT !.at = "resolved", !.card = card]
      /\ \A v \in Refreshers \ {w} : refresher'[v] = refresher[v]
      /\ DOMAIN refresher' = Refreshers
  BY <1>1, <1>4 DEF RefreshTyped, card
<1>9. StoreInv' /\ RowInTime' /\ HealthInTime'
  BY <1>1, <1>2, StoreAside
<1>10. RefreshTyped'
  <2>1. refresher'[w] \in [at : Refreshing, card : TrueCards \cup {None}, attempt : 0..tick']
    <3>1. "resolved" \in Refreshing
      BY DEF Refreshing
    <3>2. refresher'[w] \in [at : Refreshing, card : TrueCards \cup {None}, attempt : 0..tick]
      BY <1>6, <1>7, <1>8, <3>1
    <3> QED
      BY <1>1, <1>2, <3>2
  <2>2. \A v \in Refreshers \ {w} :
           refresher'[v] \in [at : Refreshing, card : TrueCards \cup {None}, attempt : 0..tick']
    BY <1>1, <1>2, <1>8 DEF RefreshTyped
  <2>3. refresher' \in [Refreshers -> [at : Refreshing, card : TrueCards \cup {None},
                                        attempt : 0..tick']]
    BY <1>4, <1>1, <2>1, <2>2 DEF RefreshTyped
  <2>4. lastResult' \in [Refreshers -> 1..tick' \cup {None}]
    BY <1>1, <1>2, <1>3 DEF RefreshTyped
  <2>5. asked' \in [Refreshers -> {"never", "answered", "failed", "raised"}]
    BY <1>1, <1>3 DEF RefreshTyped
  <2> QED
    BY <1>1, <1>2, <2>3, <2>4, <2>5 DEF RefreshTyped
<1>11. refresher'[w].at = "resolved"
  BY <1>6, <1>8
<1>12. ASSUME NEW v \in Refreshers PROVE InPlace(v)'
  <2>1. CASE v = w
    BY <1>1, <1>2, <1>3, <1>11, <2>1 DEF InPlace, Collecting, OfTheSource, OfTheCard, RefreshTyped
  <2>2. CASE v # w
    <3>1. asked'[v] = asked[v] /\ lastResult'[v] = lastResult[v] /\ refresher'[v] = refresher[v]
      BY <1>1, <1>3, <1>8, <2>2 DEF RefreshTyped
    <3> QED
      BY <1>1, <1>2, <3>1 DEF InPlace
  <2> QED
    BY <2>1, <2>2
<1>13. alone' # None => alone = w /\ Prompt(w)
  BY <1>2, OnlyOne DEF Rests
<1>14. alone' # None => Prompt(w)' /\ Reached(w)'
  <2>1. asked'[w] # "raised" => lastResult'[w] = IF asked'[w] = "answered" THEN tick' ELSE None
    BY <1>1, <1>3 DEF RefreshTyped
  <2> QED
    BY <1>8, <1>11, <1>13, <2>1 DEF Prompt, Reached, Rests, Collecting, OfTheSource, OfTheCard
<1> QED
  BY <1>2, <1>9, <1>10, <1>12, <1>13, <1>14, Kept

LEMMA SaveCardsAgrees ==
    ASSUME AgreeInv, NEW w \in Refreshers, SaveCards(w), UNCHANGED dailyVars
    PROVE  AgreeInv'
<1>1. RefreshTyped /\ tick \in Nat /\ \A v \in Refreshers : InPlace(v)
  BY TickTyped DEF AgreeInv
<1>2. /\ UNCHANGED <<storeVars, kind, lastResult, asked, tick, alone>>
      /\ refresher[w].at = "resolved" /\ cardFile' = refresher[w].card
      /\ refresher' = [refresher EXCEPT ![w].at = "instances", ![w].attempt = tick]
  BY DEF SaveCards
<1>3. refresher[w] \in [at : Refreshing, card : TrueCards \cup {None}, attempt : 0..tick]
  BY <1>1 DEF RefreshTyped
<1>4. /\ refresher'[w] = [refresher[w] EXCEPT !.at = "instances", !.attempt = tick]
      /\ \A v \in Refreshers \ {w} : refresher'[v] = refresher[v]
  BY <1>1, <1>2 DEF RefreshTyped
<1>5. StoreInv' /\ RowInTime' /\ HealthInTime'
  BY <1>1, <1>2, StoreAside
<1>6. RefreshTyped'
  <2>1. refresher'[w] \in [at : Refreshing, card : TrueCards \cup {None}, attempt : 0..tick]
    <3>1. "instances" \in Refreshing /\ tick \in 0..tick
      BY <1>1 DEF Refreshing, Collecting, OfTheSource
    <3> QED
      BY <1>3, <1>4, <3>1
  <2>2. refresher' \in [Refreshers -> [at : Refreshing, card : TrueCards \cup {None},
                                        attempt : 0..tick]]
    BY <1>1, <1>2, <1>4, <2>1 DEF RefreshTyped
  <2>3. cardFile' \in TrueCards \cup {None}
    BY <1>2, <1>3
  <2> QED
    BY <1>1, <1>2, <2>2, <2>3 DEF RefreshTyped
<1>7. refresher'[w].at = "instances" /\ refresher'[w].attempt = tick
  BY <1>3, <1>4
<1>8. asked[w] # "never" /\ tick >= 1
  BY <1>1, <1>2 DEF InPlace
<1>9. ASSUME NEW v \in Refreshers PROVE InPlace(v)'
  BY <1>1, <1>2, <1>4, <1>7, <1>8 DEF InPlace, Collecting, OfTheSource, OfTheCard
<1>10. alone' # None => alone = w /\ Prompt(w)
  BY <1>2, OnlyOne DEF Rests
<1>11. alone' # None => Prompt(w)' /\ Reached(w)'
  BY <1>2, <1>4, <1>7, <1>10 DEF Prompt, Reached, Rests, Collecting, OfTheSource, OfTheCard
<1> QED
  BY <1>2, <1>5, <1>6, <1>9, <1>10, <1>11, Kept

\* A refresh that ends early, or whose process does.
LEMMA EndsEarly ==
    ASSUME AgreeInv, NEW w \in Refreshers, ~Rests(w), UNCHANGED dailyVars,
           refresher' = [refresher EXCEPT ![w] = AtRest],
           \/ UNCHANGED <<lastResult, asked>>
           \/ /\ lastResult' = [lastResult EXCEPT ![w] = None]
              /\ asked' = [asked EXCEPT ![w] = "never"],
           UNCHANGED <<storeVars, kind, cardFile, tick, alone>>
    PROVE  AgreeInv'
<1>1. RefreshTyped /\ tick \in Nat /\ \A v \in Refreshers : InPlace(v)
  BY TickTyped DEF AgreeInv
<1>2. /\ refresher'[w] = AtRest /\ refresher'[w].at = "idle"
      /\ \A v \in Refreshers \ {w} :
            refresher'[v] = refresher[v] /\ asked'[v] = asked[v] /\ lastResult'[v] = lastResult[v]
  BY <1>1 DEF RefreshTyped, AtRest
<1>3. StoreInv' /\ RowInTime' /\ HealthInTime'
  BY <1>1, StoreAside
<1>4. RefreshTyped'
  <2>1. AtRest \in [at : Refreshing, card : TrueCards \cup {None}, attempt : 0..tick]
    BY <1>1 DEF AtRest, Refreshing
  <2>2. refresher' \in [Refreshers -> [at : Refreshing, card : TrueCards \cup {None},
                                        attempt : 0..tick]]
    BY <1>1, <2>1 DEF RefreshTyped
  <2>3. lastResult' \in [Refreshers -> 1..tick \cup {None}]
    BY <1>1 DEF RefreshTyped
  <2>4. asked' \in [Refreshers -> {"never", "answered", "failed", "raised"}]
    BY <1>1 DEF RefreshTyped
  <2> QED
    BY <1>1, <2>2, <2>3, <2>4 DEF RefreshTyped
<1>5. ASSUME NEW v \in Refreshers PROVE InPlace(v)'
  <2>1. CASE v = w
    BY <1>2, <2>1 DEF InPlace, Collecting, OfTheSource, OfTheCard
  <2>2. CASE v # w
    BY <1>1, <1>2, <2>2 DEF InPlace
  <2> QED
    BY <2>1, <2>2
<1>6. alone' # None => alone = w /\ Prompt(w)
  BY OnlyOne
<1>7. alone' # None => Prompt(w)' /\ Reached(w)'
  BY <1>2, <1>6 DEF Prompt, Reached, Rests, Collecting, OfTheSource, OfTheCard
<1> QED
  BY <1>3, <1>4, <1>5, <1>6, <1>7, Kept

-----------------------------------------------------------------------------
(* The steps of the collector.                                             *)

LEMMA AttemptTyped ==
    ASSUME AgreeInv, NEW w \in Refreshers, refresher[w].at \in Collecting
    PROVE  /\ tick \in Nat /\ AttemptOf(w) \in Nat /\ AttemptOf(w) <= tick
           /\ AttemptOf(w) \in Times /\ AttemptOf(w) \in ObservationTimes
           /\ asked[w] \in {"answered", "failed", "raised"}
           /\ refresher[w].card \in TrueCards \cup {None}
<1>1. /\ tick \in Nat /\ tick \in 0..MaxTick /\ MaxTick \in Nat
      /\ refresher[w] \in [at : Refreshing, card : TrueCards \cup {None}, attempt : 0..tick]
      /\ asked[w] \in {"never", "answered", "failed", "raised"}
  BY TickTyped DEF AgreeInv, RefreshTyped
<1>2. refresher[w].attempt >= 1 /\ asked[w] # "never"
  BY DEF AgreeInv, InPlace
<1>3. refresher[w].attempt \in 0..tick /\ refresher[w].card \in TrueCards \cup {None}
  BY <1>1
<1>4. refresher[w].attempt \in 1..MaxTick
  BY <1>1, <1>2, <1>3
<1> QED
  BY <1>1, <1>2, <1>3, <1>4, OwnNames DEF AttemptOf

\* A refresh goes on to its next transaction.
LEMMA Onwards ==
    ASSUME AgreeInv, NEW w \in Refreshers, NEW from \in OfTheSource \cup OfTheCard,
           Collects(w, from), NEW next \in Collecting, GoesOn(w, next),
           alone' = alone \/ alone' = None,
           next = "observing" => lastResult[w] # None,
           next \in OfTheCard => kind = "balance",
           next \in {"cardHealth", "cardFailing"} => refresher[w].card # None
    PROVE  /\ RefreshTyped'
           /\ \A v \in Refreshers : InPlace(v)'
           /\ refresher'[w].at = next /\ refresher'[w].card = refresher[w].card
           /\ refresher'[w].attempt = refresher[w].attempt
           /\ alone' # None => /\ alone' = w /\ Prompt(w)'
                               /\ Prompt(w) /\ (asked[w] # "raised" => Reached(w))
<1>1. RefreshTyped /\ tick \in Nat /\ \A v \in Refreshers : InPlace(v)
  BY TickTyped DEF AgreeInv
<1>2. /\ UNCHANGED <<kind, cardFile, lastResult, asked, tick>>
      /\ refresher[w].at = from /\ refresher' = [refresher EXCEPT ![w].at = next]
  BY DEF Collects, GoesOn
<1>3. refresher[w] \in [at : Refreshing, card : TrueCards \cup {None}, attempt : 0..tick]
  BY <1>1 DEF RefreshTyped
<1>4. next \in Refreshing /\ from \in Collecting
  BY DEF Refreshing, Collecting
<1>5. /\ refresher'[w] = [refresher[w] EXCEPT !.at = next]
      /\ \A v \in Refreshers \ {w} : refresher'[v] = refresher[v]
  BY <1>1, <1>2 DEF RefreshTyped
<1>6. /\ refresher'[w].at = next /\ refresher'[w].card = refresher[w].card
      /\ refresher'[w].attempt = refresher[w].attempt
      /\ refresher'[w] \in [at : Refreshing, card : TrueCards \cup {None}, attempt : 0..tick]
  BY <1>3, <1>4, <1>5
<1>7. RefreshTyped'
  <2>1. refresher' \in [Refreshers -> [at : Refreshing, card : TrueCards \cup {None},
                                        attempt : 0..tick]]
    BY <1>1, <1>2, <1>5, <1>6 DEF RefreshTyped
  <2>2. alone' \in Refreshers \cup {None}
    BY <1>1 DEF RefreshTyped
  <2> QED
    BY <1>1, <1>2, <2>1, <2>2 DEF RefreshTyped
<1>8. ASSUME NEW v \in Refreshers PROVE InPlace(v)'
  <2>1. CASE v = w
    <3>1. asked[w] # "never" /\ tick >= 1 /\ refresher[w].attempt >= 1
      BY <1>1, <1>2, <1>4 DEF InPlace
    <3> QED
      BY <1>2, <1>6, <2>1, <3>1 DEF InPlace
  <2>2. CASE v # w
    BY <1>1, <1>2, <1>5, <2>2 DEF InPlace
  <2> QED
    BY <2>1, <2>2
<1>9. ~Rests(w)
  BY <1>2 DEF Rests, OfTheSource, OfTheCard
<1>10. alone' # None => alone = w /\ Prompt(w) /\ (asked[w] # "raised" => Reached(w))
  BY <1>9, OnlyOne
<1>11. alone' # None => Prompt(w)'
  <2>1. refresher[w].at \in Collecting
    BY <1>2, <1>4
  <2> QED
    BY <1>2, <1>5, <1>6, <1>10, <2>1 DEF Prompt, Rests
<1> QED
  BY <1>6, <1>7, <1>8, <1>10, <1>11

\* The store refused the write, and everything is as it was.
LEMMA RefusedStore ==
    ASSUME AgreeInv, Refused, UNCHANGED dailyVars, kind' = kind, tick' = tick
    PROVE  /\ StoreInv' /\ RowInTime' /\ HealthInTime' /\ Row' = Row
           /\ UNCHANGED <<sourceStatus, currentVars, quota>>
<1>1. StoreInv /\ TypeOK /\ RowInTime /\ HealthInTime /\ tick \in Nat
  BY TickTyped DEF AgreeInv, StoreInv
<1>2. /\ changeLog' = changeLog /\ raised' = TRUE /\ sourceStatus' = sourceStatus
      /\ balance' = balance /\ quota' = quota /\ UNCHANGED currentVars
  BY DEF Refused, RollBack, currentVars
<1>3. StoreInv'
  BY <1>1, <1>2, IdleStore
<1> QED
  BY <1>1, <1>2, <1>3, SameFacts, SameHealth

LEMMA PublishInstanceAgrees ==
    ASSUME AgreeInv, NEW w \in Refreshers, PublishInstance(w), UNCHANGED dailyVars
    PROVE  AgreeInv'
<1> DEFINE next == IF lastResult[w] = None THEN "marking" ELSE "observing"
<1>1. Collects(w, "instances") /\ GoesOn(w, next) /\ kind' = kind /\ tick' = tick
  BY DEF PublishInstance, Collects
<1>2. StoreInv /\ TypeOK /\ RowInTime /\ HealthInTime /\ tick \in Nat
  BY TickTyped DEF AgreeInv, StoreInv
<1>3. /\ StoreInv' /\ RowInTime' /\ HealthInTime'
      /\ alone' = alone \/ alone' = None
  <2>1. CASE UpsertProviderInstance(Provider, Identity) /\ UNCHANGED sourceStatus /\ Granted
    <3>1. FactsWritten
      BY <2>1 DEF FactsWritten
    <3>2. balance' = balance /\ quota' = quota /\ alone' = alone
      BY <2>1 DEF UpsertProviderInstance, Granted
    <3> QED
      BY <1>1, <1>2, <2>1, <3>1, <3>2, FactsStore, SameFacts, SameHealth
  <2>2. CASE Swallowed
    BY <1>1, <2>2, RefusedStore DEF Swallowed
  <2>3. CASE UNCHANGED <<storeVars, refusals, alone>>
    BY <1>1, <1>2, <2>3, StoreAside
  <2> QED
    BY <2>1, <2>2, <2>3 DEF PublishInstance
<1>4. /\ next \in Collecting /\ next \notin OfTheCard /\ "instances" \in OfTheSource
      /\ next # "cardHealth" /\ next # "cardFailing"
      /\ next = "observing" => lastResult[w] # None
  BY DEF Collecting, OfTheCard, OfTheSource
<1> HIDE DEF next
<1>5. /\ RefreshTyped' /\ \A v \in Refreshers : InPlace(v)'
      /\ refresher'[w].at = next
      /\ alone' # None => alone' = w /\ Prompt(w)'
  BY <1>1, <1>3, <1>4, Onwards
<1>6. Reached(w)'
  BY <1>5 DEF Reached, next, OfTheCard
<1> QED
  BY <1>3, <1>5, <1>6, Kept

LEMMA RecordObservationAgrees ==
    ASSUME AgreeInv, NEW w \in Refreshers, RecordObservation(w), UNCHANGED dailyVars
    PROVE  AgreeInv'
<1>1. Collects(w, "observing") /\ UNCHANGED <<kind, tick, asked>>
  BY DEF RecordObservation, Collects
<1>2. /\ StoreInv /\ TypeOK /\ RowInTime /\ HealthInTime /\ tick \in Nat /\ tick \in 0..MaxTick
      /\ MaxTick \in Nat
  BY TickTyped DEF AgreeInv, StoreInv
<1>3. lastResult[w] \in 1..tick
  <2>1. lastResult[w] \in 1..tick \cup {None} /\ lastResult[w] # None
    BY <1>1 DEF AgreeInv, RefreshTyped, InPlace, Collects
  <2> QED
    BY <2>1
<1>4. lastResult[w] \in ObservationTimes /\ lastResult[w] \in Nat /\ lastResult[w] <= tick
  BY <1>2, <1>3, OwnNames
<1>5. "observing" \in OfTheSource /\ "observing" \in Collecting
      /\ "marking" \in Collecting /\ "succeeding" \in Collecting
  BY DEF Collecting, OfTheSource
<1>6. Record \in Balances /\ Record \in Quotas
  BY CurrentCollectorAssumption
<1>7. CASE /\ \/ kind = "balance" /\ RecordBalance(Record, FactsOf(Source, FALSE), lastResult[w])
              \/ kind = "quota" /\ RecordQuota(Record, FactsOf(Source, FALSE), lastResult[w])
           /\ UNCHANGED sourceStatus
           /\ Granted
           /\ GoesOn(w, IF raised' THEN AfterRefusal ELSE "succeeding")
  <2> DEFINE next == IF raised' THEN AfterRefusal ELSE "succeeding"
             facts == FactsOf(Source, FALSE)
  <2>1. next \in {"marking", "succeeding"} /\ (next = "succeeding" => ~raised')
    BY DEF AfterRefusal
  <2>2. /\ next \in Collecting /\ next \notin OfTheCard /\ next # "observing"
        /\ next # "cardHealth" /\ next # "cardFailing" /\ alone' = alone
    BY <1>5, <1>7, <2>1 DEF Granted, OfTheCard
  <2>3. GoesOn(w, next)
    BY <1>7
  <2> HIDE DEF next
  <2>4. /\ RefreshTyped' /\ \A v \in Refreshers : InPlace(v)'
        /\ refresher'[w].at = next
        /\ alone' # None => alone' = w /\ Prompt(w)' /\ Prompt(w)
    BY <1>1, <1>5, <2>2, <2>3, Onwards
  <2>5. FactsWritten
    BY <1>4, <1>6, <1>7, OwnNames DEF FactsWritten
  <2>6. StoreInv'
    BY <1>2, <1>7, <2>5, FactsStore
  <2>7. HealthInTime'
    BY <1>1, <1>2, <1>7, SameHealth
  <2>8. IF raised' THEN Row' = Row ELSE Landed(Row, Row', facts, lastResult[w])
    BY <1>1, <1>2, <1>4, <1>7, RowLands
  <2>9. facts.provider = Provider /\ facts.source = Source /\ facts.stale = FALSE
    BY DEF FactsOf
  <2> HIDE DEF facts
  <2>10. RowInTime'
    BY <1>1, <1>2, <1>4, <2>8, <2>9 DEF RowInTime, Landed
  <2>11. ASSUME alone' # None, asked'[w] # "raised"
         PROVE  Reached(w)'
    <3>1. CASE next = "marking"
      BY <2>4, <3>1 DEF Reached, OfTheCard
    <3>2. CASE next = "succeeding"
      <4>1. lastResult[w] = IF asked[w] = "answered" THEN tick ELSE None
        BY <1>1, <1>5, <2>4, <2>11 DEF Prompt, Collects
      <4>2. asked[w] = "answered" /\ lastResult[w] = tick
        BY <1>1, <4>1 DEF AgreeInv, InPlace, Collects
      <4>3. ~(Row # None /\ Row.observedAt > lastResult[w])
        <5>1. Row # None => Row.observedAt \in Nat
          BY <1>2, <1>6, CurrentAssumption
          DEF Row, TypeOK, CurrentTypeOK, CurrentRows, ObservationTimes
        <5> QED
          BY <1>2, <4>2, <5>1 DEF RowInTime
      <4>4. Row' # None /\ ~Row'.payload.stale
        BY <2>1, <2>8, <2>9, <3>2, <4>3 DEF Landed
      <4> QED
        BY <1>1, <2>4, <3>2, <4>2, <4>4 DEF Reached, OfTheCard
    <3> QED
      BY <2>1, <3>1, <3>2
  <2> QED
    BY <2>4, <2>6, <2>7, <2>10, <2>11, Kept
<1>8. CASE Refused /\ UNCHANGED alone /\ GoesOn(w, AfterRefusal)
  <2>1. GoesOn(w, "marking") /\ "marking" \notin OfTheCard
    BY <1>8 DEF AfterRefusal, OfTheCard
  <2>2. /\ RefreshTyped' /\ \A v \in Refreshers : InPlace(v)'
        /\ refresher'[w].at = "marking"
        /\ alone' # None => alone' = w /\ Prompt(w)'
    BY <1>1, <1>5, <1>8, <2>1, Onwards
  <2>3. Reached(w)'
    BY <2>2 DEF Reached, OfTheCard
  <2>4. StoreInv' /\ RowInTime' /\ HealthInTime'
    BY <1>1, <1>8, RefusedStore
  <2> QED
    BY <2>2, <2>3, <2>4, Kept
<1> QED
  BY <1>7, <1>8 DEF RecordObservation

\* What a report of the source's health leaves for the rest of a refresh.
LEMMA HealthReported ==
    ASSUME AgreeInv, NEW key \in OwnKeys, NEW state, NEW t \in Nat, t <= tick,
           Reported(key, state, t), UNCHANGED <<currentVars, kind, tick>>
    PROVE  /\ StoreInv' /\ ~raised' /\ RowInTime' /\ HealthInTime' /\ Row' = Row /\ quota' = quota
           /\ sourceStatus'[key] # None
           /\ t = tick => Health(key)'.lastAttempt = t /\ Health(key)'.state = state
           /\ \A k \in OwnKeys \ {key} :
                 sourceStatus'[k] = sourceStatus[k] /\ Health(k)' = Health(k)
<1>1. /\ StoreInv /\ TypeOK /\ RowInTime /\ HealthInTime /\ tick \in Nat
  BY TickTyped DEF AgreeInv, StoreInv
<1>2. balance' = balance /\ quota' = quota
  BY DEF currentVars
<1>3. Row' = Row /\ RowInTime'
  BY <1>1, <1>2, SameFacts
<1>4. /\ StoreInv' /\ ~raised' /\ sourceStatus'[key] # None
      /\ \A k \in StatusKeys \ {key} : sourceStatus'[k] = sourceStatus[k]
      /\ sourceStatus[key] # None /\ Health(key).lastAttempt > t
            => Health(key)'.lastAttempt = Health(key).lastAttempt
      /\ (sourceStatus[key] # None => Health(key).lastAttempt <= t)
            => Health(key)'.lastAttempt = t /\ Health(key)'.state = state
  BY DEF Reported
<1>5. OwnKeys \subseteq StatusKeys
  BY OwnNames
<1>6. \A k \in OwnKeys \ {key} :
         sourceStatus'[k] = sourceStatus[k] /\ Health(k)' = Health(k)
  BY <1>4, <1>5 DEF Health
<1>7. sourceStatus[key] # None =>
         Health(key).lastAttempt \in Nat /\ Health(key).lastAttempt <= tick
  BY <1>1, <1>5, StatusColumns DEF TypeOK, Health, HealthInTime
<1>8. Health(key)'.lastAttempt <= tick
  <2>1. CASE sourceStatus[key] # None /\ Health(key).lastAttempt > t
    BY <1>4, <1>7, <2>1
  <2>2. CASE ~(sourceStatus[key] # None /\ Health(key).lastAttempt > t)
    <3>1. sourceStatus[key] # None => Health(key).lastAttempt <= t
      BY <1>7, <2>2
    <3> QED
      BY <1>4, <3>1
  <2> QED
    BY <2>1, <2>2
<1>9. HealthInTime'
  <2>1. ASSUME NEW k \in OwnKeys, sourceStatus'[k] # None
        PROVE  Health(k)'.lastAttempt <= tick'
    <3>1. CASE k = key
      BY <1>8, <3>1
    <3>2. CASE k # key
      BY <1>1, <1>6, <2>1, <3>2 DEF HealthInTime
    <3> QED
      BY <3>1, <3>2
  <2> QED
    BY <2>1 DEF HealthInTime, OwnKeys, SourceKey, CardKey
<1>10. t = tick => Health(key)'.lastAttempt = t /\ Health(key)'.state = state
  BY <1>4, <1>7
<1> QED
  BY <1>2, <1>3, <1>4, <1>6, <1>9, <1>10

LEMMA RecordSuccessAgrees ==
    ASSUME AgreeInv, NEW w \in Refreshers, RecordSuccess(w), UNCHANGED dailyVars
    PROVE  AgreeInv'
<1>1. Collects(w, "succeeding") /\ UNCHANGED <<kind, tick, asked>>
  BY DEF RecordSuccess, Collects
<1>2. "succeeding" \in OfTheSource /\ "succeeding" \in Collecting
  BY DEF OfTheSource, Collecting
<1>3. /\ tick \in Nat /\ AttemptOf(w) \in Nat /\ AttemptOf(w) <= tick /\ AttemptOf(w) \in Times
      /\ StoreInv /\ kind \in {"balance", "quota"}
  BY <1>1, <1>2, AttemptTyped DEF Collects, AgreeInv, RefreshTyped
<1>4. CASE /\ RecordSourceSuccess(SourceKey, AttemptOf(w), None) /\ UNCHANGED currentVars
           /\ Granted
           /\ GoesOn(w, IF raised' THEN AfterRefusal ELSE AfterSource)
  <2>1. Reported(SourceKey, "ok", AttemptOf(w))
    BY <1>3, <1>4, OwnNames, SuccessReported
  <2>2. /\ StoreInv' /\ ~raised' /\ RowInTime' /\ HealthInTime' /\ Row' = Row
        /\ sourceStatus'[SourceKey] # None
        /\ AttemptOf(w) = tick =>
              Health(SourceKey)'.lastAttempt = tick /\ Health(SourceKey)'.state = "ok"
        /\ Health(CardKey)' = Health(CardKey)
    BY <1>1, <1>3, <1>4, <2>1, OwnNames, HealthReported
  <2>3. GoesOn(w, AfterSource) /\ alone' = alone
    BY <1>4, <2>2 DEF Granted
  <2>4. /\ AfterSource \in {"card", "done"} /\ AfterSource \in Collecting
        /\ AfterSource = "card" <=> kind = "balance"
    BY <1>3 DEF AfterSource, Collecting, OfTheCard
  <2>5. /\ RefreshTyped' /\ \A v \in Refreshers : InPlace(v)'
        /\ refresher'[w].at = AfterSource
        /\ alone' # None => /\ alone' = w /\ Prompt(w)' /\ Prompt(w)
                            /\ asked[w] # "raised" => Reached(w)
    BY <1>1, <1>2, <1>3, <2>3, <2>4, Onwards DEF OfTheCard
  <2>6. ASSUME alone' # None, asked'[w] # "raised"
        PROVE  Reached(w)'
    <3>1. AttemptOf(w) = tick
      BY <1>1, <1>2, <2>5, <2>6 DEF Prompt, Collects, AttemptOf
    <3>2. asked[w] = "answered" /\ Row # None /\ ~Row.payload.stale
      BY <1>1, <2>5, <2>6 DEF Reached, Collects
    <3>3. SourceSettled(w)'
      BY <1>1, <2>2, <3>1, <3>2 DEF SourceSettled
    <3>4. AfterSource = "done" => kind' # "balance"
      BY <1>1, <2>4
    <3> QED
      BY <2>4, <2>5, <3>3, <3>4 DEF Reached
  <2> QED
    BY <2>2, <2>5, <2>6, Kept
<1>5. CASE Refused /\ UNCHANGED alone /\ GoesOn(w, AfterRefusal)
  <2>1. GoesOn(w, "marking") /\ "marking" \notin OfTheCard /\ "marking" \in Collecting
    BY <1>5 DEF AfterRefusal, OfTheCard, OfTheSource, Collecting
  <2>2. /\ RefreshTyped' /\ \A v \in Refreshers : InPlace(v)'
        /\ refresher'[w].at = "marking"
        /\ alone' # None => alone' = w /\ Prompt(w)'
    BY <1>1, <1>2, <1>5, <2>1, Onwards
  <2>3. Reached(w)'
    BY <2>2 DEF Reached, OfTheCard
  <2>4. StoreInv' /\ RowInTime' /\ HealthInTime'
    BY <1>1, <1>5, RefusedStore
  <2> QED
    BY <2>2, <2>3, <2>4, Kept
<1> QED
  BY <1>4, <1>5 DEF RecordSuccess

LEMMA MarkStaleAgrees ==
    ASSUME AgreeInv, NEW w \in Refreshers, MarkStale(w), UNCHANGED dailyVars
    PROVE  AgreeInv'
<1>1. Collects(w, "marking") /\ GoesOn(w, "failing") /\ UNCHANGED <<kind, tick, asked>>
  BY DEF MarkStale, Collects
<1>2. /\ "marking" \in OfTheSource /\ "marking" \in Collecting
      /\ "failing" \in Collecting /\ "failing" \notin OfTheCard
  BY DEF OfTheSource, OfTheCard, Collecting
<1>3. /\ StoreInv /\ TypeOK /\ CarryInv /\ RowInTime /\ HealthInTime
      /\ tick \in Nat /\ AttemptOf(w) \in Nat
  BY <1>1, <1>2, AttemptTyped DEF Collects, AgreeInv, StoreInv
<1>4. alone' = alone \/ alone' = None
  BY DEF MarkStale, Granted, Swallowed
<1>5. /\ RefreshTyped' /\ \A v \in Refreshers : InPlace(v)'
      /\ refresher'[w].at = "failing"
      /\ alone' # None => alone' = w /\ Prompt(w)' /\ Prompt(w)
  BY <1>1, <1>2, <1>4, Onwards
<1>6. CASE /\ \/ kind = "balance" /\ MarkBalanceSourceStale(Provider, Source, AttemptOf(w))
              \/ kind = "quota" /\ MarkQuotaSourceStale(Provider, Source, AttemptOf(w))
           /\ UNCHANGED sourceStatus
           /\ Granted
  <2>1. FactsWritten
    BY <1>6 DEF FactsWritten
  <2>2. StoreInv' /\ HealthInTime'
    BY <1>1, <1>3, <1>6, <2>1, FactsStore, SameHealth
  <2>3. Marked(Row, Row', Row.observedAt <= AttemptOf(w))
    BY <1>1, <1>3, <1>6, RowMarked
  <2>4. RowInTime'
    BY <1>1, <1>3, <2>3 DEF RowInTime, Marked
  <2>5. ASSUME alone' # None
        PROVE  Reached(w)'
    <3>1. AttemptOf(w) = tick
      BY <1>1, <1>2, <1>5, <2>5 DEF Prompt, Collects, AttemptOf
    <3>2. Row' # None => Row'.payload.stale
      BY <1>3, <2>3, <3>1 DEF RowInTime, Marked
    <3> QED
      BY <1>5, <3>2 DEF Reached, OfTheCard
  <2> QED
    BY <1>5, <2>2, <2>4, <2>5, Kept
<1>7. CASE Swallowed
  <2>1. StoreInv' /\ RowInTime' /\ HealthInTime' /\ alone' = None
    BY <1>1, <1>7, RefusedStore DEF Swallowed
  <2> QED
    BY <1>5, <2>1, Kept
<1> QED
  BY <1>6, <1>7 DEF MarkStale

LEMMA ReportFailureAgrees ==
    ASSUME AgreeInv, NEW w \in Refreshers, ReportFailure(w), UNCHANGED dailyVars
    PROVE  AgreeInv'
<1>1. Collects(w, "failing") /\ GoesOn(w, AfterSource) /\ UNCHANGED <<kind, tick, asked>>
  BY DEF ReportFailure, Collects
<1>2. "failing" \in OfTheSource /\ "failing" \in Collecting
  BY DEF OfTheSource, Collecting
<1>3. /\ tick \in Nat /\ AttemptOf(w) \in Nat /\ AttemptOf(w) <= tick /\ AttemptOf(w) \in Times
      /\ StoreInv /\ kind \in {"balance", "quota"}
  BY <1>1, <1>2, AttemptTyped DEF Collects, AgreeInv, RefreshTyped
<1>4. alone' = alone \/ alone' = None
  BY DEF ReportFailure, Granted, Swallowed
<1>5. /\ AfterSource \in {"card", "done"} /\ AfterSource \in Collecting
      /\ AfterSource = "card" <=> kind = "balance"
  BY <1>3 DEF AfterSource, Collecting, OfTheCard
<1>6. /\ RefreshTyped' /\ \A v \in Refreshers : InPlace(v)'
      /\ refresher'[w].at = AfterSource
      /\ alone' # None => /\ alone' = w /\ Prompt(w)' /\ Prompt(w)
                          /\ asked[w] # "raised" => Reached(w)
  BY <1>1, <1>2, <1>3, <1>4, <1>5, Onwards DEF OfTheCard
<1>7. CASE /\ RecordSourceStatus(SourceKey, Faulty, AttemptOf(w), None)
           /\ UNCHANGED currentVars
           /\ Granted
  <2>1. Reported(SourceKey, Faulty, AttemptOf(w))
    BY <1>3, <1>7, OwnNames, OutcomeReported
  <2>2. /\ StoreInv' /\ RowInTime' /\ HealthInTime' /\ Row' = Row
        /\ sourceStatus'[SourceKey] # None
        /\ AttemptOf(w) = tick =>
              Health(SourceKey)'.lastAttempt = tick /\ Health(SourceKey)'.state = Faulty
    BY <1>1, <1>3, <1>7, <2>1, OwnNames, HealthReported
  <2>3. ASSUME alone' # None, asked'[w] # "raised"
        PROVE  Reached(w)'
    <3>1. AttemptOf(w) = tick
      BY <1>1, <1>2, <1>6, <2>3 DEF Prompt, Collects, AttemptOf
    <3>2. Row # None => Row.payload.stale
      BY <1>1, <1>6, <2>3 DEF Reached, Collects
    <3>3. SourceSettled(w)'
      BY <1>1, <2>2, <3>1, <3>2, OwnNames DEF SourceSettled
    <3>4. AfterSource = "done" => kind' # "balance"
      BY <1>1, <1>5
    <3> QED
      BY <1>5, <1>6, <3>3, <3>4 DEF Reached
  <2> QED
    BY <1>6, <2>2, <2>3, Kept
<1>8. CASE Swallowed
  <2>1. StoreInv' /\ RowInTime' /\ HealthInTime' /\ alone' = None
    BY <1>1, <1>8, RefusedStore DEF Swallowed
  <2> QED
    BY <1>6, <2>1, Kept
<1> QED
  BY <1>7, <1>8 DEF ReportFailure

LEMMA RecordCardAgrees ==
    ASSUME AgreeInv, NEW w \in Refreshers, RecordCard(w), UNCHANGED dailyVars
    PROVE  AgreeInv'
<1> DEFINE card == refresher[w].card
           stale == card.state = "stale"
<1>1. Collects(w, "card") /\ UNCHANGED <<kind, tick, asked>>
  BY DEF RecordCard, Collects
<1>2. /\ "card" \in OfTheCard /\ "card" \in Collecting /\ "done" \in Collecting
      /\ "cardHealth" \in Collecting /\ "cardFailing" \in Collecting /\ "done" \notin OfTheCard
  BY DEF OfTheSource, OfTheCard, Collecting
<1>3. /\ StoreInv /\ TypeOK /\ RowInTime /\ HealthInTime /\ tick \in Nat
      /\ card \in TrueCards \cup {None} /\ kind = "balance"
  <2>1. card \in TrueCards \cup {None} /\ tick \in Nat
    BY <1>1, <1>2, AttemptTyped DEF Collects
  <2>2. kind = "balance"
    BY <1>1, <1>2 DEF AgreeInv, InPlace, Collects
  <2> QED
    BY <2>1, <2>2 DEF AgreeInv, StoreInv
<1>5. ASSUME NEW next \in {"cardHealth", "cardFailing", "done"}, GoesOn(w, next), UNCHANGED alone,
             next \in {"cardHealth", "cardFailing"} => card # None
      PROVE  /\ RefreshTyped' /\ \A v \in Refreshers : InPlace(v)'
             /\ refresher'[w].at = next /\ refresher'[w].card = card
             /\ alone' # None => /\ alone' = w /\ Prompt(w)' /\ Prompt(w)
                                 /\ asked[w] # "raised" => SourceSettled(w)
  <2>1. /\ RefreshTyped' /\ \A v \in Refreshers : InPlace(v)'
        /\ refresher'[w].at = next /\ refresher'[w].card = card
        /\ alone' # None => /\ alone' = w /\ Prompt(w)' /\ Prompt(w)
                            /\ asked[w] # "raised" => Reached(w)
    BY <1>1, <1>2, <1>3, <1>5, Onwards
  <2>2. Reached(w) => SourceSettled(w)
    BY <1>1, <1>2 DEF Reached, Collects
  <2> QED
    BY <2>1, <2>2
<1>6. ASSUME sourceStatus' = sourceStatus, Row' = Row, SourceSettled(w)
      PROVE  SourceSettled(w)'
  BY <1>1, <1>6 DEF SourceSettled, Health
<1>7. CASE /\ card # None /\ card.shows = "amount"
           /\ \/ /\ RecordQuota(CardRecord, FactsOf(CardSource, stale), card.time)
                 /\ UNCHANGED sourceStatus
                 /\ Granted
                 /\ GoesOn(w, IF raised' THEN "cardFailing" ELSE "cardHealth")
              \/ Refused /\ UNCHANGED alone /\ GoesOn(w, "cardFailing")
  <2>1. card \in TrueCards /\ card.time \in ObservationTimes /\ card.time \in Nat
    BY <1>3, <1>7, OwnNames DEF TrueCards, Cards
  <2>2. CASE /\ RecordQuota(CardRecord, FactsOf(CardSource, stale), card.time)
             /\ UNCHANGED sourceStatus
             /\ Granted
             /\ GoesOn(w, IF raised' THEN "cardFailing" ELSE "cardHealth")
    <3> DEFINE next == IF raised' THEN "cardFailing" ELSE "cardHealth"
               facts == FactsOf(CardSource, stale)
    <3>1. /\ next \in {"cardHealth", "cardFailing", "done"} /\ GoesOn(w, next) /\ UNCHANGED alone
          /\ next = "cardHealth" => ~raised'
          /\ next # "done"
      BY <2>2 DEF Granted
    <3> HIDE DEF next
    <3>2. /\ RefreshTyped' /\ \A v \in Refreshers : InPlace(v)'
          /\ refresher'[w].at = next /\ refresher'[w].card = card
          /\ alone' # None => /\ alone' = w /\ Prompt(w)'
                              /\ asked[w] # "raised" => SourceSettled(w)
      BY <1>5, <1>7, <3>1
    <3>3. CardRecord \in Quotas /\ facts \in Facts
      BY OwnNames, CurrentCollectorAssumption
    <3>4. StoreInv'
      <4>1. FactsWritten
        BY <2>1, <2>2, <3>3 DEF FactsWritten
      <4> QED
        BY <1>3, <2>2, <4>1, FactsStore
    <3>5. /\ balance' = balance
          /\ ~raised' => Landed(quota[CardRecord], quota'[CardRecord], facts, card.time)
      BY <1>3, <2>1, <2>2, <3>3, QuotaLands
    <3>6. Row' = Row /\ RowInTime'
      BY <1>1, <1>3, <3>5 DEF Row, RowInTime
    <3>7. HealthInTime'
      BY <1>1, <1>3, <2>2, SameHealth
    <3>8. ~raised' => CardStored(card)'
      <4>1. facts.stale <=> card.state = "stale"
        BY DEF FactsOf
      <4>2. quota[CardRecord] # None => quota[CardRecord].observedAt \in Nat
        BY <1>3, <3>3, CurrentAssumption DEF TypeOK, CurrentTypeOK, CurrentRows, ObservationTimes
      <4> HIDE DEF facts
      <4>3. ASSUME ~raised'
            PROVE  /\ quota'[CardRecord] # None
                   /\ quota'[CardRecord].observedAt >= card.time
                   /\ quota'[CardRecord].observedAt = card.time =>
                         (quota'[CardRecord].payload.stale <=> card.state = "stale")
        <5>1. CASE quota[CardRecord] # None /\ quota[CardRecord].observedAt > card.time
          BY <2>1, <3>5, <4>2, <4>3, <5>1 DEF Landed
        <5>2. CASE ~(quota[CardRecord] # None /\ quota[CardRecord].observedAt > card.time)
          <6>1. /\ quota'[CardRecord] # None /\ quota'[CardRecord].payload = facts
                /\ quota'[CardRecord].observedAt = card.time
            BY <3>5, <4>3, <5>2 DEF Landed
          <6>2. quota'[CardRecord].payload.stale <=> card.state = "stale"
            BY <4>1, <6>1
          <6> QED
            BY <2>1, <6>1, <6>2
        <5> QED
          BY <5>1, <5>2
      <4> QED
        BY <3>2, <4>3 DEF CardStored
    <3>9. ASSUME alone' # None, asked'[w] # "raised"
          PROVE  Reached(w)'
      <4>1. SourceSettled(w)'
        BY <1>1, <1>6, <2>2, <3>2, <3>6, <3>9
      <4>2. next = "cardHealth" => CardStored(refresher[w].card)'
        BY <3>1, <3>2, <3>8 DEF CardStored
      <4> QED
        BY <3>1, <3>2, <4>1, <4>2 DEF Reached
    <3> QED
      BY <3>2, <3>4, <3>6, <3>7, <3>9, Kept
  <2>3. CASE Refused /\ UNCHANGED alone /\ GoesOn(w, "cardFailing")
    <3>1. /\ RefreshTyped' /\ \A v \in Refreshers : InPlace(v)'
          /\ refresher'[w].at = "cardFailing"
          /\ alone' # None => /\ alone' = w /\ Prompt(w)'
                              /\ asked[w] # "raised" => SourceSettled(w)
      BY <1>5, <1>7, <2>3
    <3>2. StoreInv' /\ RowInTime' /\ HealthInTime' /\ Row' = Row /\ sourceStatus' = sourceStatus
      BY <1>1, <2>3, RefusedStore
    <3>3. ASSUME alone' # None, asked'[w] # "raised"
          PROVE  Reached(w)'
      <4>1. SourceSettled(w)'
        BY <1>1, <1>6, <3>1, <3>2, <3>3
      <4> QED
        BY <3>1, <4>1 DEF Reached
    <3> QED
      BY <3>1, <3>2, <3>3, Kept
  <2> QED
    BY <1>7, <2>2, <2>3
<1>8. CASE UNCHANGED <<storeVars, refusals, alone>>
           /\ \/ /\ card # None /\ card.shows # "amount" /\ GoesOn(w, "cardHealth")
              \/ /\ card # None => card.shows # "amount"
                 /\ GoesOn(w, "done")
  <2>1. PICK next \in {"cardHealth", "done"} :
           GoesOn(w, next) /\ (next = "cardHealth" => card # None)
    BY <1>8
  <2>2. ~HasAmount(card)
    BY <1>8 DEF HasAmount
  <2>3. /\ RefreshTyped' /\ \A v \in Refreshers : InPlace(v)'
        /\ refresher'[w].at = next /\ refresher'[w].card = card
        /\ alone' # None => /\ alone' = w /\ Prompt(w)'
                            /\ asked[w] # "raised" => SourceSettled(w)
    BY <1>5, <1>8, <2>1
  <2>4. StoreInv' /\ RowInTime' /\ HealthInTime' /\ Row' = Row /\ sourceStatus' = sourceStatus
    BY <1>1, <1>3, <1>8, StoreAside DEF storeVars
  <2>5. ASSUME alone' # None, asked'[w] # "raised"
        PROVE  Reached(w)'
    <3>1. SourceSettled(w)'
      BY <1>1, <1>6, <2>3, <2>4, <2>5
    <3>2. ~HasAmount(refresher[w].card)'
      BY <2>2, <2>3 DEF HasAmount
    <3> QED
      BY <2>1, <2>3, <3>1, <3>2 DEF Reached
  <2> QED
    BY <2>3, <2>4, <2>5, Kept
<1> QED
  BY <1>7, <1>8 DEF RecordCard

LEMMA RecordCardHealthAgrees ==
    ASSUME AgreeInv, NEW w \in Refreshers, RecordCardHealth(w), UNCHANGED dailyVars
    PROVE  AgreeInv'
<1> DEFINE card == refresher[w].card
           state == IF refresher[w].at = "cardFailing" THEN Faulty ELSE refresher[w].card.state
<1>1. PICK at \in {"cardHealth", "cardFailing"} : Collects(w, at)
  BY DEF RecordCardHealth
<1>2. GoesOn(w, "done") /\ UNCHANGED <<kind, tick, asked>> /\ refresher[w].at = at
  BY <1>1 DEF RecordCardHealth, Collects
<1>3. at \in OfTheCard /\ at \in Collecting /\ "done" \in Collecting /\ "done" \notin OfTheCard
  BY DEF OfTheSource, OfTheCard, Collecting
<1>4. /\ tick \in Nat /\ AttemptOf(w) \in Nat /\ AttemptOf(w) <= tick /\ AttemptOf(w) \in Times
      /\ StoreInv /\ card \in TrueCards /\ kind = "balance"
  <2>1. /\ tick \in Nat /\ AttemptOf(w) \in Nat /\ AttemptOf(w) <= tick /\ AttemptOf(w) \in Times
        /\ card \in TrueCards \cup {None}
    BY <1>2, <1>3, AttemptTyped
  <2>2. card # None /\ kind = "balance" /\ StoreInv
    BY <1>2, <1>3 DEF AgreeInv, InPlace
  <2> QED
    BY <2>1, <2>2
<1>5. alone' = alone \/ alone' = None
  BY DEF RecordCardHealth, Granted, Swallowed
<1>6. /\ RefreshTyped' /\ \A v \in Refreshers : InPlace(v)'
      /\ refresher'[w].at = "done" /\ refresher'[w].card = card
      /\ alone' # None => /\ alone' = w /\ Prompt(w)' /\ Prompt(w)
                          /\ asked[w] # "raised" => Reached(w)
  BY <1>1, <1>2, <1>3, <1>5, Onwards
<1>7. CASE /\ IF state = "ok" THEN RecordSourceSuccess(CardKey, AttemptOf(w), None)
              ELSE RecordSourceStatus(CardKey, state, AttemptOf(w), None)
           /\ UNCHANGED currentVars
           /\ Granted
  <2>1. state = "ok" \/ state \in Faults \cup {"stale"}
    BY <1>4, OwnNames DEF TrueCards, Cards
  <2>2. Reported(CardKey, state, AttemptOf(w))
    <3> HIDE DEF state
    <3> QED
      BY <1>4, <1>7, <2>1, OwnNames, SuccessReported, OutcomeReported
  <2>3. /\ StoreInv' /\ RowInTime' /\ HealthInTime' /\ Row' = Row /\ quota' = quota
        /\ AttemptOf(w) = tick => Health(CardKey)'.state = state
        /\ sourceStatus'[SourceKey] = sourceStatus[SourceKey]
        /\ Health(SourceKey)' = Health(SourceKey)
    <3> HIDE DEF state
    <3> QED
      BY <1>2, <1>4, <1>7, <2>2, OwnNames, HealthReported
  <2>4. ASSUME alone' # None, asked'[w] # "raised"
        PROVE  Reached(w)'
    <3>1. AttemptOf(w) = tick
      BY <1>2, <1>3, <1>6, <2>4 DEF Prompt, AttemptOf
    <3>2. SourceSettled(w) /\ (at = "cardHealth" /\ HasAmount(card) => CardStored(card))
      BY <1>2, <1>3, <1>6, <2>4 DEF Reached
    <3>3. SourceSettled(w)'
      BY <1>2, <2>3, <3>2 DEF SourceSettled
    <3>4. ASSUME HasAmount(card), Health(CardKey)'.state = card.state
          PROVE  CardStored(card)
      <4>1. card.state # Faulty
        BY <1>4, <3>4, OwnNames DEF HasAmount, TrueCards
      <4>2. at # "cardFailing"
        BY <1>2, <2>3, <3>1, <3>4, <4>1
      <4> QED
        BY <3>2, <3>4, <4>2
    <3>5. HasAmount(refresher[w].card)' => HasAmount(card)
      BY <1>6 DEF HasAmount
    <3>6. CardStored(card) => CardStored(refresher[w].card)'
      BY <1>6, <2>3 DEF CardStored
    <3> QED
      BY <1>6, <3>3, <3>4, <3>5, <3>6 DEF Reached
  <2> QED
    BY <1>6, <2>3, <2>4, Kept
<1>8. CASE Swallowed
  <2>1. StoreInv' /\ RowInTime' /\ HealthInTime' /\ alone' = None
    BY <1>2, <1>8, RefusedStore DEF Swallowed
  <2> QED
    BY <1>6, <2>1, Kept
<1> QED
  BY <1>7, <1>8 DEF RecordCardHealth

-----------------------------------------------------------------------------
LEMMA AgreeInitHolds == Init /\ CurrentCollectorInit => AgreeInv
<1> SUFFICES ASSUME Init, CurrentCollectorInit
             PROVE  AgreeInv
  OBVIOUS
<1>1. TypeOK /\ CarryInv
  BY InitHolds, InitCarries
<1>2. changeLog = <<>> /\ \A key \in StatusKeys : sourceStatus[key] = None
  BY DEF Init, StatusInit
<1>3. Unpublished
  BY <1>2 DEF Unpublished, RevisionsOf, ChangesOf
<1>4. SourceKey \in StatusKeys /\ CardKey \in StatusKeys /\ MaxTick \in Nat
  BY OwnNames
<1>5. HealthInTime
  BY <1>2, <1>4 DEF HealthInTime, OwnKeys
<1>6. Row = None
  BY CurrentCollectorAssumption DEF Row, Init, CurrentInit
<1>7. \A w \in Refreshers : refresher[w] = AtRest
  BY DEF CurrentCollectorInit
<1>8. AtRest \in [at : Refreshing, card : TrueCards \cup {None}, attempt : 0..0]
  BY DEF AtRest, Refreshing
<1>9. RefreshTyped
  BY <1>4, <1>8 DEF RefreshTyped, CurrentCollectorInit
<1>10. \A w \in Refreshers : InPlace(w)
  BY <1>7 DEF InPlace, AtRest, Collecting, OfTheSource, OfTheCard
<1> QED
  BY <1>1, <1>3, <1>5, <1>6, <1>9, <1>10
  DEF AgreeInv, StoreInv, RowInTime, CurrentCollectorInit

(* The invariant reads no rows but its own.                                *)
LEMMA OwnRowsDecide ==
    ASSUME AgreeInv, UNCHANGED OwnRows, UNCHANGED refreshVars, StoreInv'
    PROVE  AgreeInv'
<1>1. /\ UNCHANGED <<kind, cardFile, lastResult, asked, refresher, tick, refusals, alone>>
      /\ sourceStatus'[SourceKey] = sourceStatus[SourceKey]
      /\ sourceStatus'[CardKey] = sourceStatus[CardKey]
      /\ quota'[CardRecord] = quota[CardRecord]
  BY DEF refreshVars, OwnRows
<1>2. Row' = Row
  BY <1>1 DEF Row, OwnRows
<1>3. /\ Health(SourceKey)' = Health(SourceKey)
      /\ Health(CardKey)' = Health(CardKey)
  BY <1>1 DEF Health, SourceKey, CardKey
<1>4. RowInTime' /\ HealthInTime'
  BY <1>1, <1>2, <1>3 DEF AgreeInv, RowInTime, HealthInTime, OwnKeys, Health, SourceKey, CardKey
<1>5. RefreshTyped' /\ \A w \in Refreshers : InPlace(w)'
  BY <1>1 DEF AgreeInv, RefreshTyped, InPlace
<1>6. ASSUME NEW w, Undisturbed(w)
      PROVE  Undisturbed(w)'
  <2>1. Prompt(w)'
    BY <1>1, <1>6 DEF Undisturbed, Prompt, Rests
  <2>2. SourceSettled(w)' <=> SourceSettled(w)
    BY <1>1, <1>2, <1>3 DEF SourceSettled, SourceKey
  <2>3. \A card : CardStored(card)' <=> CardStored(card)
    BY <1>1 DEF CardStored
  <2>4. Reached(w)' <=> Reached(w)
    BY <1>1, <1>2, <1>3, <2>2, <2>3 DEF Reached
  <2> QED
    BY <1>1, <1>6, <2>1, <2>4 DEF Undisturbed
<1>7. ASSUME alone' # None
      PROVE  Undisturbed(alone)'
  <2>1. Undisturbed(alone)
    BY <1>1, <1>7 DEF AgreeInv
  <2> QED
    BY <1>1, <1>6, <2>1
<1> QED
  BY <1>4, <1>5, <1>7 DEF AgreeInv

LEMMA AgreeStep ==
    ASSUME AgreeInv, [RefreshStep \/ Others]_currentState
    PROVE  AgreeInv'
<1>1. ASSUME NEW w \in Refreshers, UNCHANGED dailyVars
      PROVE  /\ SaveFails(w) => AgreeInv'
             /\ Restart(w) => AgreeInv'
  <2>1. CASE SaveFails(w)
    BY <1>1, <2>1, EndsEarly DEF SaveFails, Rests
  <2>2. CASE Restart(w)
    BY <1>1, <2>2, EndsEarly DEF Restart
  <2> QED
    BY <2>1, <2>2
<1>2. CASE CurrentCollectorNext /\ UNCHANGED dailyVars
  BY <1>1, <1>2, LoadCardsAgrees, AskAgrees, SaveCardsAgrees, PublishInstanceAgrees,
     RecordObservationAgrees, RecordSuccessAgrees, MarkStaleAgrees, ReportFailureAgrees,
     RecordCardAgrees, RecordCardHealthAgrees
  DEF CurrentCollectorNext
<1>3. CASE Others
  <2>1. StoreInv'
    BY <1>3, OthersStore DEF Others, AgreeInv
  <2> QED
    BY <1>3, <2>1, OwnRowsDecide DEF Others
<1>4. CASE UNCHANGED currentState
  <2>1. /\ UNCHANGED <<changeLog, raised, sourceStatus, dailyVars, currentVars>>
        /\ UNCHANGED <<balance, quota, refreshVars>>
    BY <1>4 DEF currentState, vars, feedVars, currentVars
  <2>2. raised' \in BOOLEAN
    BY <2>1 DEF AgreeInv, StoreInv, TypeOK
  <2>3. StoreInv'
    BY <2>1, <2>2, IdleStore DEF AgreeInv
  <2>4. UNCHANGED OwnRows
    BY <2>1 DEF OwnRows, SourceKey, CardKey
  <2> QED
    BY <2>1, <2>3, <2>4, OwnRowsDecide
<1> QED
  BY <1>2, <1>3, <1>4 DEF RefreshStep

LEMMA AgreementShown == AgreeInv => SourcesAgree
<1> SUFFICES ASSUME AgreeInv, NEW w \in Refreshers,
                    alone = w, refresher[w].at = "done", asked[w] # "raised"
             PROVE  /\ Health(SourceKey).lastAttempt = AttemptOf(w)
                    /\ asked[w] = "failed" => Health(SourceKey).state = Faulty
                    /\ Row # None => (Row.payload.stale <=> Health(SourceKey).state # "ok")
                    /\ LET card == refresher[w].card
                       IN  kind = "balance" /\ card # None /\ card.shows = "amount"
                           /\ Health(CardKey).state = card.state =>
                           /\ quota[CardRecord].observedAt >= card.time
                           /\ quota[CardRecord].observedAt = card.time =>
                                 (quota[CardRecord].payload.stale <=> card.state = "stale")
  BY DEF SourcesAgree
<1>1. Undisturbed(w)
  BY CurrentCollectorAssumption DEF AgreeInv
<1>2. AttemptOf(w) = tick
  BY <1>1 DEF Undisturbed, Prompt, AttemptOf, Collecting
<1>3. Reached(w)
  BY <1>1 DEF Undisturbed
<1>4. SourceSettled(w)
  BY <1>3 DEF Reached
<1>5. LET card == refresher[w].card
      IN  kind = "balance" /\ HasAmount(card) /\ Health(CardKey).state = card.state
             => CardStored(card)
  BY <1>3 DEF Reached
<1> QED
  BY <1>2, <1>4, <1>5 DEF SourceSettled, CardStored, HasAmount

(* A refresh of the current facts that ran alone to its end, whatever      *)
(* refreshes were killed or overlapped before it, leaves the fact of the   *)
(* source and the health of the source in agreement, and the quota of the  *)
(* card not behind the card (ActivityCollector's observation, success,     *)
(* stale mark and failure report, one transaction each), whatever imports, *)
(* retention and the collectors of other providers write in between.       *)
THEOREM SourcesKeepAgreeing == CurrentCollectorSpec => []SourcesAgree
<1>1. Init /\ CurrentCollectorInit => AgreeInv
  BY AgreeInitHolds
<1>2. AgreeInv /\ [RefreshStep \/ Others]_currentState => AgreeInv'
  BY AgreeStep
<1>3. AgreeInv => SourcesAgree
  BY AgreementShown
<1> QED
  BY <1>1, <1>2, <1>3, PTL DEF CurrentCollectorSpec

-----------------------------------------------------------------------------
(* The service.  A refresh of the history knows the provider it asks and   *)
(* the days it asks for, so that its transactions are those of a writer of *)
(* the ledger; it writes no row of the current facts, and the refreshes of *)
(* those none of the history.                                              *)
AsksForDays == {"official", "openusage", "billing"}

Knows(me) ==
    /\ me.at = "idle" => me.attempt = 0
    /\ me.at \in {"usage", "costs"} => me.todo # {}
    /\ me.at \in Asking => me.provider \in me.todo
    /\ me.at \in AsksForDays => me.window \in Ranges
    /\ me.at = "official" => me.provider \in Importers

RefreshesKnow ==
    /\ \A w \in Workers : Knows(worker[w])
    /\ importedBy \in [DayKeys -> 1..MaxVersion \cup {None}]
    /\ fresh \subseteq Importers
    /\ cut \subseteq Providers \X {"usage", "costs", "contract"}

(* The windows are stretches of days. *)
LEMMA WindowsAreRanges ==
    ASSUME NEW w, NEW provider
    PROVE  /\ OfficialWindows(w, provider) \subseteq Ranges
           /\ FallbackWindow(w, provider) \in Ranges
           /\ CostWindows(w, provider) \subseteq Ranges
<1>1. MaxDay \in Nat /\ Incremental \in 1..MaxDay
  BY CollectorAssumption, DayAssumption DEF Days
<1>2. MaxDay \in Days /\ 1 \in Days /\ Incremental \in Days
  BY <1>1 DEF Days
<1>3. ASSUME NEW since \in Days
      PROVE  since..MaxDay \in Ranges
  <2>1. MaxDay \in since..MaxDay
    BY <1>1 DEF Days
  <2> QED
    BY <1>2, <2>1 DEF Ranges
<1>4. Today = MaxDay..MaxDay /\ Days = 1..MaxDay
  BY <1>1 DEF Today, Days
<1>5. {Today, ThisWeek, Days} \subseteq Ranges
  <2>1. Today \in Ranges
    BY <1>2, <1>3, <1>4
  <2>2. Days \in Ranges
    BY <1>2, <1>3, <1>4
  <2>3. ThisWeek \in Ranges
    BY <1>2, <1>3 DEF ThisWeek
  <2> QED
    BY <2>1, <2>2, <2>3
<1>6. OfficialWindows(w, provider) \subseteq {Today, ThisWeek, Days}
  BY DEF OfficialWindows
<1>7. FallbackWindow(w, provider) \in {Today, ThisWeek, Days}
  BY DEF FallbackWindow
<1>8. CostWindows(w, provider) \subseteq {Today, ThisWeek, Days}
  BY DEF CostWindows
<1> QED
  BY <1>5, <1>6, <1>7, <1>8

(* One process moves on, and knows what it needs. *)
LEMMA MoveKnows ==
    ASSUME RefreshesTyped, RefreshesKnow, NEW w \in Workers, NEW next, Goes(w, next), Knows(next)
    PROVE  \A v \in Workers : Knows(worker'[v])
<1>1. \A v \in Workers : worker'[v] = IF v = w THEN next ELSE worker[v]
  BY DEF RefreshesTyped, Goes
<1> QED
  BY <1>1 DEF RefreshesKnow

(* What comes behind a provider is another one, or nothing. *)
LEMMA AfterKnows ==
    ASSUME RefreshesTyped, NEW w \in Workers, NEW next \in {AfterUsage(w), AfterCosts(w)}
    PROVE  Knows(next)
<1> DEFINE me   == worker[w]
           todo == me.todo \ {me.provider}
           Then(stage, left) == [Leaves(w) EXCEPT !.at = stage, !.todo = left]
<1>1. me \in Refreshes
  BY DEF RefreshesTyped
<1>2. ASSUME NEW stage, NEW left
      PROVE  Then(stage, left).at = stage /\ Then(stage, left).todo = left
  BY <1>1 DEF Refreshes, Leaves
<1>3. \/ next = Idle
      \/ todo # {} /\ next = Then("usage", todo)
      \/ next = Then("retention", {})
      \/ Importers # {} /\ next = Then("costs", Importers)
      \/ todo # {} /\ next = Then("costs", todo)
      \/ next = Then("retention", todo)
  BY DEF AfterUsage, AfterCosts
<1>4. Knows(Idle)
  BY DEF Knows, Idle, Asking, AsksForDays
<1>5. ASSUME NEW stage \in {"usage", "costs", "retention"}, NEW left,
             stage \in {"usage", "costs"} => left # {}
      PROVE  Knows(Then(stage, left))
  <2>1. Then(stage, left).at = stage /\ Then(stage, left).todo = left
    BY <1>2
  <2> HIDE DEF Then
  <2> QED
    BY <1>5, <2>1 DEF Knows, Asking, AsksForDays
<1> HIDE DEF Then
<1> QED
  BY <1>3, <1>4, <1>5

LEMMA KnowsStep ==
    ASSUME Providers # {}, RefreshesTyped, RefreshesKnow, [CollectorNext]_everything
    PROVE  RefreshesKnow'
<1>1. ASSUME NEW w \in Workers, NEW next, Goes(w, next), Knows(next),
             UNCHANGED historyVars
      PROVE  RefreshesKnow'
  BY <1>1, MoveKnows DEF RefreshesKnow, historyVars
<1>2. \A w \in Workers : worker[w] \in Refreshes /\ Drawn(worker[w], clock) /\ Knows(worker[w])
  BY DEF RefreshesTyped, RefreshesKnow
<1>3. ASSUME NEW w \in Workers, Begin(w)
      PROVE  RefreshesKnow'
  <2>1. \E todo, scope : todo # {} /\ Goes(w, Starting(todo, scope))
    BY <1>3 DEF Begin
  <2>2. PICK todo, scope : todo # {} /\ Goes(w, Starting(todo, scope))
    BY <2>1
  <2>3. Starting(todo, scope).at = "usage" /\ Starting(todo, scope).todo = todo
    BY DEF Starting, Idle
  <2>4. Knows(Starting(todo, scope))
    BY <2>2, <2>3 DEF Knows, Asking, AsksForDays
  <2> QED
    BY <1>1, <1>3, <2>2, <2>4 DEF Begin
<1>4. ASSUME NEW w \in Workers, NEW stage \in Asking, NEW provider \in worker[w].todo,
             NEW window, stage \in AsksForDays => window \in Ranges,
             stage = "official" => provider \in Importers, NEW blind,
             Goes(w, [worker[w] EXCEPT !.at = stage, !.provider = provider,
                                       !.window = window, !.blind = blind]),
             UNCHANGED historyVars
      PROVE  RefreshesKnow'
  <2> DEFINE me == worker[w]
             next == [me EXCEPT !.at = stage, !.provider = provider,
                                !.window = window, !.blind = blind]
  <2>1. me \in Refreshes
    BY <1>2
  <2>2. Goes(w, next)
    BY <1>4
  <2>3. next.at = stage /\ next.provider = provider /\ next.window = window /\ next.todo = me.todo
    BY <2>1 DEF Refreshes
  <2> HIDE DEF next
  <2>4. Knows(next)
    BY <1>4, <2>3 DEF Knows, Asking
  <2> QED
    BY <1>1, <1>4, <2>2, <2>4
<1>5. ASSUME NEW w \in Workers, ChooseUsage(w)
      PROVE  RefreshesKnow'
  <2> DEFINE me == worker[w]
  <2>1. PICK provider \in me.todo :
           \/ /\ provider \in Importers
              /\ \E window \in OfficialWindows(w, provider) :
                    Goes(w, [me EXCEPT
                               !.at = "official", !.provider = provider, !.window = window,
                               !.blind = window # Days /\ ~HasSourceSuccess(provider)])
           \/ Goes(w, [me EXCEPT !.at = "fallback", !.provider = provider])
    BY <1>5 DEF ChooseUsage
  <2>2. /\ "official" \in Asking /\ "fallback" \in Asking /\ "fallback" \notin AsksForDays
        /\ me \in Refreshes /\ UNCHANGED historyVars
    BY <1>2, <1>5 DEF Asking, AsksForDays, ChooseUsage
  <2>3. \A window \in OfficialWindows(w, provider) : window \in Ranges
    BY WindowsAreRanges
  <2>4. CASE Goes(w, [me EXCEPT !.at = "fallback", !.provider = provider])
    <3>1. [me EXCEPT !.at = "fallback", !.provider = provider]
             = [me EXCEPT !.at = "fallback", !.provider = provider,
                          !.window = me.window, !.blind = me.blind]
      BY <2>2 DEF Refreshes
    <3>2. Goes(w, [me EXCEPT !.at = "fallback", !.provider = provider,
                             !.window = me.window, !.blind = me.blind])
      BY <2>4, <3>1
    <3> QED
      BY <1>4, <2>2, <3>2
  <2> QED
    BY <1>4, <2>1, <2>2, <2>3, <2>4
<1>6. ASSUME NEW w \in Workers, ChooseCosts(w)
      PROVE  RefreshesKnow'
  <2>0. PICK provider \in worker[w].todo : \E window \in CostWindows(w, provider) :
           Goes(w, [worker[w] EXCEPT !.at = "billing", !.provider = provider,
                                     !.window = window,
                                     !.blind = window # Days /\ ~HasCostHistory(provider)])
    BY <1>6 DEF ChooseCosts
  <2>1. PICK window \in CostWindows(w, provider) :
           Goes(w, [worker[w] EXCEPT !.at = "billing", !.provider = provider,
                                     !.window = window,
                                     !.blind = window # Days /\ ~HasCostHistory(provider)])
    BY <2>0
  <2>2. "billing" \in Asking /\ window \in Ranges
    BY WindowsAreRanges DEF Asking
  <2>3. UNCHANGED historyVars
    BY <1>6 DEF ChooseCosts
  <2> QED
    BY <1>4, <2>1, <2>2, <2>3
<1>7. ASSUME NEW w \in Workers, ChooseFallback(w)
      PROVE  RefreshesKnow'
  <2> DEFINE me == worker[w]
             window == FallbackWindow(w, me.provider)
  <2>1. /\ me.provider \in me.todo /\ window \in Ranges /\ "openusage" \in Asking
        /\ me \in Refreshes
    BY <1>2, <1>7, WindowsAreRanges DEF ChooseFallback, Knows, Asking
  <2>2. [me EXCEPT !.at = "openusage", !.window = window]
           = [me EXCEPT !.at = "openusage", !.provider = me.provider,
                        !.window = window, !.blind = me.blind]
    BY <2>1 DEF Refreshes
  <2>3. /\ Goes(w, [me EXCEPT !.at = "openusage", !.provider = me.provider,
                              !.window = window, !.blind = me.blind])
        /\ UNCHANGED historyVars
    BY <1>7, <2>2 DEF ChooseFallback
  <2> QED
    BY <1>4, <2>1, <2>3
<1>8. ASSUME NEW w \in Workers, OfficialFails(w)
      PROVE  RefreshesKnow'
  <2> DEFINE me == worker[w]
  <2>1. me.provider \in me.todo /\ "fallback" \in Asking /\ me \in Refreshes
    BY <1>2, <1>8 DEF OfficialFails, Knows, Asking
  <2>2. [me EXCEPT !.at = "fallback", !.window = {}, !.blind = FALSE]
           = [me EXCEPT !.at = "fallback", !.provider = me.provider,
                        !.window = {}, !.blind = FALSE]
    BY <2>1 DEF Refreshes
  <2>3. /\ Goes(w, [me EXCEPT !.at = "fallback", !.provider = me.provider,
                              !.window = {}, !.blind = FALSE])
        /\ UNCHANGED historyVars
    BY <1>8, <2>2 DEF OfficialFails
  <2>4. "fallback" \notin AsksForDays
    BY DEF AsksForDays
  <2> QED
    BY <1>4, <2>1, <2>3, <2>4
<1>9. ASSUME NEW w \in Workers, FallbackFails(w) \/ CostsFail(w)
      PROVE  RefreshesKnow'
  <2>1. /\ Goes(w, AfterUsage(w)) \/ Goes(w, AfterCosts(w))
        /\ UNCHANGED historyVars
    BY <1>9 DEF FallbackFails, CostsFail
  <2> QED
    BY <1>1, <2>1, AfterKnows
<1>10. ASSUME NEW w \in Workers, OfficialCommits(w) \/ FallbackCommits(w) \/ CostsCommit(w)
       PROVE  RefreshesKnow'
  <2>1. \A v \in Workers : Knows(worker'[v])
    BY <1>10, MoveKnows, AfterKnows DEF OfficialCommits, FallbackCommits, CostsCommit
  <2>2. Revision \in 1..MaxVersion \cup {None}
    BY CollectorAssumption DEF RefreshesTyped, Revision
  <2>3. importedBy' \in [DayKeys -> 1..MaxVersion \cup {None}]
    BY <1>10, <2>2 DEF OfficialCommits, FallbackCommits, CostsCommit, RefreshesKnow
  <2>4. fresh' \subseteq Importers
    BY <1>2, <1>10 DEF OfficialCommits, FallbackCommits, CostsCommit, RefreshesKnow, Knows
  <2>5. cut' \subseteq Providers \X {"usage", "costs", "contract"}
    <3> DEFINE provider == worker[w].provider
    <3>1. worker[w].at \in Asking /\ provider \in Providers
      BY <1>2, <1>10 DEF OfficialCommits, FallbackCommits, CostsCommit, Drawn, Asking
    <3>2. ASSUME NEW parts, NEW lacking \in SUBSET {"usage", "costs", "contract"},
                 cut' \in {cut, CutBy(w, parts, lacking)}
          PROVE  cut' \subseteq Providers \X {"usage", "costs", "contract"}
      BY <3>1, <3>2 DEF CutBy, RefreshesKnow
    <3>3. /\ NoUsage(provider) \in SUBSET {"usage", "costs", "contract"}
          /\ NoCosts(provider) \in SUBSET {"usage", "costs", "contract"}
          /\ OtherContract(provider) \in SUBSET {"usage", "costs", "contract"}
      BY DEF NoUsage, NoCosts, OtherContract
    <3>4. NoUsage(provider) \cup OtherContract(provider) \in SUBSET {"usage", "costs", "contract"}
      BY <3>3
    <3>5. CASE OfficialCommits(w)
      BY <3>2, <3>4, <3>5 DEF OfficialCommits
    <3>6. CASE FallbackCommits(w)
      BY <3>2, <3>3, <3>6 DEF FallbackCommits
    <3>7. CASE CostsCommit(w)
      BY <3>2, <3>3, <3>7 DEF CostsCommit
    <3> QED
      BY <1>10, <3>5, <3>6, <3>7
  <2> QED
    BY <2>1, <2>3, <2>4, <2>5 DEF RefreshesKnow
<1>11. Knows(Idle)
  BY DEF Knows, Idle, Asking, AsksForDays
<1>12. ASSUME NEW w \in Workers, Retain(w) \/ Killed(w)
       PROVE  RefreshesKnow'
  BY <1>1, <1>11, <1>12 DEF Retain, Killed
<1>13. CASE Upgrade
  BY <1>11, <1>13 DEF Upgrade, RefreshesKnow, historyVars
<1>14. CASE UNCHANGED everything
  BY <1>14 DEF RefreshesKnow, everything, collectorVars, historyVars
<1> QED
  BY <1>3, <1>5, <1>6, <1>7, <1>8, <1>9, <1>10, <1>12, <1>13, <1>14 DEF CollectorNext


-----------------------------------------------------------------------------
(* The transactions of a refresh of the history are those of a writer of   *)
(* the ledger.                                                             *)
LEMMA CollectorWrites ==
    ASSUME RefreshesTyped, RefreshesKnow, CollectorNext
    PROVE  [Next]_vars
<1>1. /\ Official \in UsageSources /\ OpenUsage \in UsageSources /\ Billing \in CostSources
      /\ {Official, OpenUsage, Billing} \subseteq Sources
      /\ CatalogSource \notin {Official, OpenUsage, Billing}
      /\ Failed \in Faults
  BY CollectorAssumption, SourceAssumption DEF Sources
<1>2. ASSUME NEW w \in Workers, worker[w].at \in AsksForDays
      PROVE  /\ worker[w].provider \in Providers /\ worker[w].attempt \in Times
             /\ worker[w].window \in Ranges /\ Revision \in Contracts \cup {None}
  <2>1. worker[w].at \in Asking
    BY <1>2 DEF Asking, AsksForDays
  <2> QED
    BY <1>2, <2>1, HandsTyped DEF RefreshesKnow, Knows
<1>3. ASSUME NEW w \in Workers, NEW source \in {Official, OpenUsage}, NEW revision \in {Revision, None},
             worker[w].at \in AsksForDays, CanWrite,
             \E rows \in [InRange(UsageKeys, worker[w].provider, worker[w].window) -> Values \cup {None}] :
                CommitUsageImport(worker[w].provider, source, worker[w].window, rows,
                                  worker[w].attempt, revision),
             UNCHANGED <<costVars, currentVars>>
      PROVE  Next
  <2>1. /\ worker[w].provider \in Providers /\ worker[w].attempt \in Times
        /\ worker[w].window \in Ranges /\ revision \in Contracts \cup {None}
        /\ source \in UsageSources
    BY <1>1, <1>2, <1>3
  <2>2. UsageImports
    BY <1>3, <2>1 DEF UsageImports
  <2> QED
    BY <1>3, <2>2 DEF Next, DailyNext
<1>4. ASSUME NEW w \in Workers, CostsCommit(w)
      PROVE  Next
  <2>1. /\ worker[w].at = "billing" /\ CanWrite /\ UNCHANGED usageVars /\ UNCHANGED currentVars
        /\ \E rows \in [InRange(CostKeys, worker[w].provider, worker[w].window) -> Values \cup {None}] :
              CommitCostImport(worker[w].provider, Billing, worker[w].window, rows, worker[w].attempt)
    BY <1>4 DEF CostsCommit
  <2>2. worker[w].provider \in Providers /\ worker[w].attempt \in Times /\ worker[w].window \in Ranges
    BY <1>2, <2>1 DEF AsksForDays
  <2>3. CostImports
    BY <1>1, <2>1, <2>2 DEF CostImports
  <2> QED
    BY <2>1, <2>3 DEF Next, DailyNext
<1>5. ASSUME NEW w \in Workers, NEW source \in {Official, OpenUsage, Billing}, NEW state \in {Failed, "stale"},
             worker[w].at \in Asking, CanWrite,
             RecordSourceStatus(<<worker[w].provider, source>>, state, worker[w].attempt, None),
             UNCHANGED <<dailyVars, currentVars>>
      PROVE  Next
  <2> DEFINE key == <<worker[w].provider, source>>
  <2>1. /\ key \in StatusKeys /\ worker[w].attempt \in Times /\ key[2] = source
    BY <1>1, <1>5, HandsTyped DEF StatusKeys
  <2>2. None \in ExpectedBy(key[2]) /\ state \in StatesBy(key[2])
    BY <1>1, <1>5, <2>1 DEF ExpectedBy, StatesBy
  <2>3. RecordSourceStatus(key, state, worker[w].attempt, None)
    BY <1>5
  <2> HIDE DEF key
  <2>4. StatusNext
    BY <1>5, <2>1, <2>2, <2>3 DEF StatusNext
  <2> QED
    BY <1>5, <2>4 DEF Next
<1>6. ASSUME NEW w \in Workers, OfficialCommits(w)
      PROVE  Next
  <2>1. worker[w].at \in AsksForDays /\ CanWrite /\ UNCHANGED <<costVars, currentVars>>
    BY <1>6 DEF OfficialCommits, AsksForDays
  <2> QED
    BY <1>3, <1>6, <2>1 DEF OfficialCommits
<1>7. ASSUME NEW w \in Workers, FallbackCommits(w)
      PROVE  Next
  <2>1. worker[w].at \in AsksForDays /\ CanWrite /\ UNCHANGED <<costVars, currentVars>>
    BY <1>7 DEF FallbackCommits, AsksForDays
  <2>2. \E rows \in [InRange(UsageKeys, worker[w].provider, worker[w].window) -> Values \cup {None}] :
           CommitUsageImport(worker[w].provider, OpenUsage, worker[w].window, rows, worker[w].attempt, None)
    BY <1>7 DEF FallbackCommits
  <2> QED
    BY <1>3, <2>1, <2>2
<1>8. ASSUME NEW w \in Workers, OfficialFails(w)
      PROVE  Next
  BY <1>5, <1>8 DEF OfficialFails, Asking
<1>9. ASSUME NEW w \in Workers, FallbackFails(w)
      PROVE  Next
  <2>1. PICK state \in {Failed, "stale"} :
           RecordSourceStatus(<<worker[w].provider, OpenUsage>>, state, worker[w].attempt, None)
    BY <1>9 DEF FallbackFails
  <2>2. worker[w].at \in Asking /\ CanWrite /\ UNCHANGED <<dailyVars, currentVars>>
    BY <1>9 DEF FallbackFails, Asking
  <2> QED
    BY <1>5, <2>1, <2>2
<1>10. ASSUME NEW w \in Workers, CostsFail(w)
       PROVE  Next
  BY <1>5, <1>10 DEF CostsFail, Asking
<1>11. ASSUME NEW w \in Workers, Retain(w)
       PROVE  Next
  <2>1. 1 \in Days
    BY CollectorAssumption, DayAssumption DEF Days
  <2>2. 1 \in ObservationTimes \cup {MaxObservation + 1}
    BY CurrentAssumption DEF ObservationTimes
  <2> QED
    BY <1>11, <2>1, <2>2 DEF Retain, Retention, Next
<1>12. ASSUME NEW w \in Workers,
              Begin(w) \/ ChooseUsage(w) \/ ChooseFallback(w) \/ ChooseCosts(w) \/ Killed(w)
       PROVE  UNCHANGED vars
  BY <1>12 DEF Begin, ChooseUsage, ChooseFallback, ChooseCosts, Killed
<1>13. Upgrade => UNCHANGED vars
  BY DEF Upgrade
<1> QED
  BY <1>4, <1>6, <1>7, <1>8, <1>9, <1>10, <1>11, <1>12, <1>13 DEF CollectorNext

(* They write no row of the current facts and no health of theirs.         *)
LEMMA CollectorElsewhere ==
    ASSUME TypeOK, RefreshesTyped, CollectorNext
    PROVE  UNCHANGED OwnRows
<1> DEFINE Away(key) == key \in StatusKeys /\ key \notin OwnKeys
<1>1. /\ {Official, OpenUsage, Billing} \subseteq Sources
      /\ {Source, CardSource} \cap {Official, OpenUsage, Billing} = {}
  BY CollectorAssumption, SourceAssumption, ServiceAssumption DEF Sources
<1>2. ASSUME NEW w \in Workers, worker[w].at \in Asking,
             NEW source \in {Official, OpenUsage, Billing}
      PROVE  Away(<<worker[w].provider, source>>) /\ worker[w].attempt \in Times
  <2>1. worker[w].provider \in Providers /\ worker[w].attempt \in Times
    BY <1>2, HandsTyped
  <2> QED
    BY <1>1, <2>1 DEF StatusKeys, OwnKeys, SourceKey, CardKey
<1>3. ASSUME NEW key, Away(key), NEW facts,
             sourceStatus' = sourceStatus \/ sourceStatus' = WithStatus(key, facts),
             UNCHANGED currentVars
      PROVE  UNCHANGED OwnRows
  <2>1. sourceStatus \in [StatusKeys -> StatusRows \cup {None}]
    BY DEF TypeOK, StatusTypeOK
  <2>2. \A k \in OwnKeys : sourceStatus'[k] = sourceStatus[k]
    BY <1>3, <2>1, OwnNames DEF WithStatus
  <2> QED
    BY <1>3, <2>2 DEF OwnRows, OwnKeys, currentVars
<1>4. ASSUME NEW w \in Workers, OfficialCommits(w) \/ FallbackCommits(w) \/ CostsCommit(w)
      PROVE  UNCHANGED OwnRows
  <2>1. PICK source \in {Official, OpenUsage, Billing} :
           LET key == <<worker[w].provider, source>>
           IN  \/ sourceStatus' = sourceStatus
               \/ sourceStatus' = WithStatus(key, AfterSuccess(key, worker[w].attempt, None))
    BY <1>4 DEF OfficialCommits, FallbackCommits, CostsCommit, CommitUsageImport,
                CommitCostImport, Committed
  <2>2. worker[w].at \in Asking /\ UNCHANGED currentVars
    BY <1>4 DEF OfficialCommits, FallbackCommits, CostsCommit, Asking
  <2> HIDE DEF Away
  <2> QED
    BY <1>2, <1>3, <2>1, <2>2
<1>5. ASSUME NEW w \in Workers, OfficialFails(w) \/ FallbackFails(w) \/ CostsFail(w)
      PROVE  UNCHANGED OwnRows
  <2>1. PICK source \in {Official, OpenUsage, Billing}, state \in {Failed, "stale"} :
           RecordSourceStatus(<<worker[w].provider, source>>, state, worker[w].attempt, None)
    BY <1>5 DEF OfficialFails, FallbackFails, CostsFail
  <2>2. worker[w].at \in Asking /\ UNCHANGED currentVars
    BY <1>5 DEF OfficialFails, FallbackFails, CostsFail, Asking
  <2>3. LET key == <<worker[w].provider, source>>
        IN  \/ sourceStatus' = sourceStatus
            \/ sourceStatus' = WithStatus(key, AfterOutcome(key, state, worker[w].attempt, None))
    BY <2>1 DEF RecordSourceStatus, Committed
  <2> HIDE DEF Away
  <2> QED
    BY <1>2, <1>3, <2>2, <2>3
<1>6. ASSUME NEW w \in Workers, Retain(w)
      PROVE  UNCHANGED OwnRows
  BY <1>6 DEF Retain, PurgeBefore, OwnRows, SourceKey, CardKey
<1>7. ASSUME UNCHANGED vars
      PROVE  UNCHANGED OwnRows
  BY <1>7 DEF vars, currentVars, OwnRows, SourceKey, CardKey
<1>8. ASSUME NEW w \in Workers,
              Begin(w) \/ ChooseUsage(w) \/ ChooseFallback(w) \/ ChooseCosts(w) \/ Killed(w)
       PROVE  UNCHANGED vars
  BY <1>8 DEF Begin, ChooseUsage, ChooseFallback, ChooseCosts, Killed
<1>9. Upgrade => UNCHANGED vars
  BY DEF Upgrade
<1> QED
  BY <1>4, <1>5, <1>6, <1>7, <1>8, <1>9 DEF CollectorNext

(* So they are among the others, to a refresh of the current facts.        *)
LEMMA CollectorAmongOthers ==
    ASSUME TypeOK, RefreshesTyped, RefreshesKnow, CollectorNext, UNCHANGED refreshVars
    PROVE  [RefreshStep \/ Others]_currentState
<1>1. [Next]_vars /\ UNCHANGED OwnRows
  BY CollectorWrites, CollectorElsewhere
<1> QED
  BY <1>1 DEF Others, currentState

-----------------------------------------------------------------------------
(* A refresh of the current facts writes as one of the writers, or was     *)
(* refused: then everything stays, and only the caller hears of it.        *)
WritesOrNot == Next \/ UNCHANGED <<changeLog, sourceStatus, dailyVars, currentVars>>

LEMMA RefreshWrites ==
    ASSUME AgreeInv, RefreshStep
    PROVE  WritesOrNot
<1>1. UNCHANGED dailyVars
  BY DEF RefreshStep
<1>2. Swallowed \/ Refused \/ UNCHANGED storeVars => WritesOrNot
  BY <1>1 DEF Swallowed, Refused, RollBack, storeVars, feedVars, WritesOrNot
<1>3. Granted => CanWrite
  BY DEF Granted
<1>4. \A w \in Refreshers : refresher[w].at \in Collecting =>
         AttemptOf(w) \in Times /\ AttemptOf(w) \in ObservationTimes
  BY AttemptTyped
<1>5. ASSUME NEW w \in Refreshers, PublishInstance(w)
      PROVE  WritesOrNot
  <2>1. CASE UpsertProviderInstance(Provider, Identity) /\ UNCHANGED sourceStatus /\ Granted
    <3>1. Provider \in Providers /\ Identity \in Instances
      BY CurrentCollectorAssumption
    <3>2. CurrentNext
      BY <1>3, <2>1, <3>1 DEF CurrentNext
    <3> QED
      BY <1>1, <2>1, <3>2 DEF WritesOrNot, Next
  <2> QED
    BY <1>2, <1>5, <2>1 DEF PublishInstance
<1>6. ASSUME NEW w \in Refreshers, RecordObservation(w)
      PROVE  WritesOrNot
  <2>1. CASE /\ \/ RecordBalance(Record, FactsOf(Source, FALSE), lastResult[w])
                \/ RecordQuota(Record, FactsOf(Source, FALSE), lastResult[w])
             /\ UNCHANGED sourceStatus /\ Granted
    <3>1. Record \in Balances /\ Record \in Quotas /\ FactsOf(Source, FALSE) \in Facts
      BY CurrentCollectorAssumption, OwnNames
    <3>2. lastResult[w] \in 1..tick \cup {None} /\ lastResult[w] # None
      BY <1>6 DEF RecordObservation, Collects, AgreeInv, RefreshTyped, InPlace
    <3>3. lastResult[w] \in 1..MaxTick
      BY <3>2, TickTyped
    <3>4. CurrentNext
      BY <1>3, <2>1, <3>1, <3>3, OwnNames DEF CurrentNext
    <3> QED
      BY <1>1, <2>1, <3>4 DEF WritesOrNot, Next
  <2> QED
    BY <1>2, <1>6, <2>1 DEF RecordObservation
<1>7. ASSUME NEW key \in OwnKeys, NEW t \in Times, Granted, UNCHANGED currentVars,
             \/ RecordSourceSuccess(key, t, None)
             \/ \E state \in StatesBy(key[2]) : RecordSourceStatus(key, state, t, None)
      PROVE  WritesOrNot
  <2>1. key \in StatusKeys /\ None \in ExpectedBy(key[2])
    BY OwnNames DEF OwnKeys, ExpectedBy
  <2>2. StatusNext
    BY <1>3, <1>7, <2>1 DEF StatusNext
  <2> QED
    BY <1>1, <1>7, <2>2 DEF WritesOrNot, Next
<1>8. ASSUME NEW w \in Refreshers, RecordSuccess(w)
      PROVE  WritesOrNot
  <2>1. AttemptOf(w) \in Times /\ SourceKey \in OwnKeys
    BY <1>4, <1>8 DEF RecordSuccess, Collects, Collecting, OfTheSource, OwnKeys
  <2> QED
    BY <1>2, <1>7, <1>8, <2>1 DEF RecordSuccess
<1>9. ASSUME NEW w \in Refreshers, MarkStale(w)
      PROVE  WritesOrNot
  <2>1. CASE /\ \/ MarkBalanceSourceStale(Provider, Source, AttemptOf(w))
                \/ MarkQuotaSourceStale(Provider, Source, AttemptOf(w))
             /\ UNCHANGED sourceStatus /\ Granted
    <3>1. Provider \in Providers /\ Source \in CurrentSources
      BY CurrentCollectorAssumption
    <3>2. AttemptOf(w) \in ObservationTimes
      BY <1>4, <1>9 DEF MarkStale, Collects, Collecting, OfTheSource
    <3>3. CurrentNext
      BY <1>3, <2>1, <3>1, <3>2 DEF CurrentNext
    <3> QED
      BY <1>1, <2>1, <3>3 DEF WritesOrNot, Next
  <2> QED
    BY <1>2, <1>9, <2>1 DEF MarkStale
<1>10. ASSUME NEW w \in Refreshers, ReportFailure(w)
       PROVE  WritesOrNot
  <2>1. AttemptOf(w) \in Times /\ SourceKey \in OwnKeys /\ Faulty \in StatesBy(SourceKey[2])
    BY <1>4, <1>10, OwnNames DEF ReportFailure, Collects, Collecting, OfTheSource, OwnKeys, StatesBy
  <2> QED
    BY <1>2, <1>7, <1>10, <2>1 DEF ReportFailure
<1>11. ASSUME NEW w \in Refreshers, RecordCard(w)
       PROVE  WritesOrNot
  <2> DEFINE card == refresher[w].card
  <2>1. CASE /\ card # None
             /\ RecordQuota(CardRecord, FactsOf(CardSource, card.state = "stale"), card.time)
             /\ UNCHANGED sourceStatus /\ Granted
    <3>1. card \in Cards
      BY <2>1 DEF AgreeInv, RefreshTyped, TrueCards
    <3>2. card.time \in ObservationTimes
      BY <3>1, OwnNames DEF Cards
    <3>3. CardRecord \in Quotas /\ FactsOf(CardSource, card.state = "stale") \in Facts
      BY CurrentCollectorAssumption, OwnNames
    <3>4. CurrentNext
      BY <1>3, <2>1, <3>2, <3>3 DEF CurrentNext
    <3> QED
      BY <1>1, <2>1, <3>4 DEF WritesOrNot, Next
  <2> QED
    BY <1>2, <1>11, <2>1 DEF RecordCard
<1>12. ASSUME NEW w \in Refreshers, RecordCardHealth(w)
       PROVE  WritesOrNot
  <2> DEFINE state == IF refresher[w].at = "cardFailing" THEN Faulty ELSE refresher[w].card.state
  <2>1. refresher[w].at \in {"cardHealth", "cardFailing"}
    BY <1>12 DEF RecordCardHealth, Collects
  <2>2. refresher[w].card \in Cards
    BY <2>1 DEF AgreeInv, RefreshTyped, TrueCards, InPlace
  <2>3. state \in {"ok", "stale", Faulty}
    BY <2>2 DEF Cards
  <2>4. Faulty \in StatesBy(CardKey[2]) /\ "stale" \in StatesBy(CardKey[2])
    BY CurrentCollectorAssumption, OwnNames DEF StatesBy, CardKey
  <2>5. AttemptOf(w) \in Times /\ CardKey \in OwnKeys
    BY <1>4, <2>1 DEF Collecting, OfTheCard, OwnKeys
  <2>6. \/ /\ IF state = "ok" THEN RecordSourceSuccess(CardKey, AttemptOf(w), None)
              ELSE RecordSourceStatus(CardKey, state, AttemptOf(w), None)
           /\ UNCHANGED currentVars /\ Granted
        \/ Swallowed
    BY <1>12 DEF RecordCardHealth
  <2> HIDE DEF state
  <2>7. CASE Swallowed
    BY <1>2, <2>7
  <2>8. CASE state = "ok" /\ ~Swallowed
    BY <1>7, <2>5, <2>6, <2>8
  <2>9. CASE state # "ok" /\ ~Swallowed
    <3>1. state \in StatesBy(CardKey[2])
      BY <2>3, <2>4, <2>9
    <3> QED
      BY <1>7, <2>5, <2>6, <2>9, <3>1
  <2> QED
    BY <2>7, <2>8, <2>9
<1>13. ASSUME NEW w \in Refreshers,
              LoadCards(w) \/ Ask(w) \/ SaveCards(w) \/ SaveFails(w) \/ Restart(w)
       PROVE  WritesOrNot
  BY <1>2, <1>13 DEF LoadCards, Ask, SaveCards, SaveFails, Restart
<1> QED
  BY <1>5, <1>6, <1>8, <1>9, <1>10, <1>11, <1>12, <1>13 DEF RefreshStep, CurrentCollectorNext

(* It writes no history, and no health of an importer.                     *)
LEMMA RefreshElsewhere ==
    ASSUME AgreeInv, RefreshStep
    PROVE  UNCHANGED HistoryRows
<1>1. UNCHANGED dailyVars
  BY DEF RefreshStep
<1>2. \A p \in Providers : <<p, Official>> \in StatusKeys /\ <<p, Official>> \notin OwnKeys
  BY CollectorAssumption, SourceAssumption, ServiceAssumption
  DEF StatusKeys, Sources, OwnKeys, SourceKey, CardKey
<1>3. ASSUME NEW key \in OwnKeys, NEW facts, sourceStatus' = Committed(WithStatus(key, facts), sourceStatus)
      PROVE  UNCHANGED HistoryRows
  <2>1. sourceStatus \in [StatusKeys -> StatusRows \cup {None}]
    BY DEF AgreeInv, StoreInv, TypeOK, StatusTypeOK
  <2>2. \A p \in Providers : sourceStatus'[<<p, Official>>] = sourceStatus[<<p, Official>>]
    BY <1>2, <1>3, <2>1 DEF WithStatus, Committed
  <2> QED
    BY <1>1, <2>2 DEF HistoryRows
<1>4. ASSUME UNCHANGED sourceStatus
      PROVE  UNCHANGED HistoryRows
  BY <1>1, <1>4 DEF HistoryRows
<1>5. Swallowed \/ Refused \/ UNCHANGED storeVars => UNCHANGED sourceStatus
  BY DEF Swallowed, Refused, storeVars
<1>6. ASSUME NEW w \in Refreshers, RecordSuccess(w) \/ ReportFailure(w) \/ RecordCardHealth(w)
      PROVE  UNCHANGED HistoryRows
  BY <1>3, <1>4, <1>5, <1>6 DEF RecordSuccess, ReportFailure, RecordCardHealth, RecordSourceSuccess,
     RecordSourceStatus, OwnKeys
<1>7. ASSUME NEW w \in Refreshers,
             \/ LoadCards(w) \/ Ask(w) \/ SaveCards(w) \/ SaveFails(w) \/ Restart(w)
             \/ PublishInstance(w) \/ RecordObservation(w) \/ MarkStale(w) \/ RecordCard(w)
      PROVE  UNCHANGED sourceStatus
  BY <1>5, <1>7 DEF LoadCards, Ask, SaveCards, SaveFails, Restart, PublishInstance, RecordObservation,
     MarkStale, RecordCard
<1> QED
  BY <1>4, <1>6, <1>7 DEF RefreshStep, CurrentCollectorNext

(* What leaves the history alone leaves the years whole. *)
LEMMA YearAside ==
    ASSUME RefreshesTyped, YearInv, UNCHANGED HistoryRows, UNCHANGED collectorVars
    PROVE  YearInv'
<1>1. UNCHANGED <<coverage, costCoverage, contract, version, importedBy, cut, worker>>
  BY DEF HistoryRows, dailyVars, usageVars, costVars, collectorVars, historyVars
<1>2. \A p \in Providers : sourceStatus'[<<p, Official>>] = sourceStatus[<<p, Official>>]
  <2> DEFINE health == [p \in Providers |-> sourceStatus[<<p, Official>>]]
  <2>1. health' = health
    BY DEF HistoryRows
  <2>2. \A p \in Providers : health[p] = sourceStatus[<<p, Official>>]
    OBVIOUS
  <2>3. \A p \in Providers : health'[p] = sourceStatus'[<<p, Official>>]
    OBVIOUS
  <2> HIDE DEF health
  <2> QED
    BY <2>1, <2>2, <2>3
<1>3. YearsWhole' /\ ContractReimported' /\ Onward
  BY <1>1, <1>2, StillWhole DEF HasSourceSuccess
<1>4. ASSUME NEW w \in Workers
      PROVE  Chosen(w, worker[w])'
  <2>1. Chosen(w, worker[w]) /\ (worker[w].at \in Asking => worker[w].provider \in Providers)
    BY DEF YearInv, RefreshesTyped, Drawn
  <2>2. \A me : (me.at \in Asking => me.provider \in Providers) /\ Chosen(w, me)
                => Chosen(w, me)'
    BY <1>3, ChoicesStand
  <2> QED
    BY <1>1, <2>1, <2>2
<1> QED
  BY <1>3, <1>4 DEF YearInv

-----------------------------------------------------------------------------
ServiceInv == AgreeInv /\ RefreshesTyped /\ RefreshesKnow

LEMMA ServiceStep ==
    ASSUME ServiceInv, [ServiceNext]_serviceVars
    PROVE  /\ ServiceInv'
           /\ WritesOrNot
           /\ [RefreshStep \/ Others]_currentState
<1>1. /\ AgreeInv /\ RefreshesTyped /\ RefreshesKnow /\ TypeOK
      /\ Providers # {}
  BY CurrentCollectorAssumption DEF ServiceInv, AgreeInv, StoreInv
<1>2. CASE CollectorNext /\ UNCHANGED <<refreshVars, socketVars>>
  <2>1. [Next]_vars /\ [RefreshStep \/ Others]_currentState
    BY <1>1, <1>2, CollectorWrites, CollectorAmongOthers
  <2>2. WritesOrNot
    BY <2>1 DEF WritesOrNot, vars, feedVars
  <2>3. RefreshesTyped' /\ RefreshesKnow'
    BY <1>1, <1>2, RefreshesStep, KnowsStep
  <2> QED
    BY <1>1, <2>1, <2>2, <2>3, AgreeStep DEF ServiceInv
<1>3. ASSUME UNCHANGED collectorVars, [RefreshStep \/ Others]_currentState
      PROVE  ServiceInv'
  <2>1. RefreshesTyped' /\ RefreshesKnow'
    BY <1>1, <1>3 DEF collectorVars, historyVars, RefreshesTyped, RefreshesKnow
  <2> QED
    BY <1>1, <1>3, <2>1, AgreeStep DEF ServiceInv
<1>4. CASE RefreshStep /\ UNCHANGED <<collectorVars, socketVars>>
  BY <1>1, <1>3, <1>4, RefreshWrites
<1>5. CASE Bystanders /\ UNCHANGED <<collectorVars, socketVars>>
  BY <1>3, <1>5 DEF Bystanders, Others, WritesOrNot
<1>6. CASE UNCHANGED <<vars, collectorVars, refreshVars>>
  <2>1. UNCHANGED currentState /\ WritesOrNot
    BY <1>6 DEF currentState, WritesOrNot, vars, feedVars
  <2> QED
    BY <1>3, <1>6, <2>1
<1> QED
  BY <1>2, <1>4, <1>5, <1>6 DEF ServiceNext, serviceVars

LEMMA ServiceInitHolds == ServiceInit => ServiceInv
<1> SUFFICES ASSUME ServiceInit
             PROVE  ServiceInv
  OBVIOUS
<1>1. AgreeInv /\ RefreshesTyped
  BY AgreeInitHolds, CollectorInitHolds DEF ServiceInit
<1>2. RefreshesKnow
  BY DEF ServiceInit, CollectorInit, RefreshesKnow, Knows, Idle, Asking, AsksForDays
<1> QED
  BY <1>1, <1>2 DEF ServiceInv

(* The whole of what is proved of the ledger.                              *)
LedgerInv ==
    /\ TypeOK /\ LogReplaysTables
    /\ CarryInv
    /\ UsageInv /\ CostInv
    /\ DeadlineBacked /\ CatalogHasNoDeadline
    /\ HistoryInv

LedgerForward ==
    /\ \A key \in DayKeys :
          coverage[key] # None /\ coverage'[key] # None
             /\ coverage'[key].payload.source = coverage[key].payload.source =>
                coverage'[key].importedAt >= coverage[key].importedAt
    /\ \A key \in StatusKeys :
          key[2] # CatalogSource /\ sourceStatus[key] # None /\ sourceStatus'[key] # None =>
             sourceStatus'[key].payload.lastAttempt >= sourceStatus[key].payload.lastAttempt
    /\ \A record \in Balances : RowForward(balance[record], balance'[record])
    /\ \A record \in Quotas : RowForward(quota[record], quota'[record])

LEMMA LedgerStep ==
    ASSUME LedgerInv, TypeOK', WritesOrNot
    PROVE  LedgerInv' /\ LedgerForward
<1> USE DEF LedgerInv
<1>1. CASE Next
  <2>1. LogReplaysTables'
    BY <1>1, NextStep
  <2>2. CarryInv' /\ HistoryInv'
    BY <1>1, NextCarry, NextHistory
  <2>3. UsageInv' /\ CostInv'
    BY <1>1, UsageKeeps, CostKeeps
  <2>4. DeadlineBacked' /\ CatalogHasNoDeadline'
    BY <1>1, DeadlinesKept
  <2>5. LedgerForward
    BY <1>1, UsageKeeps, HealthKeeps, FactsForward DEF LedgerForward, HealthForward, UsageInv
  <2> QED
    BY <2>1, <2>2, <2>3, <2>4, <2>5
<1>2. CASE UNCHANGED <<changeLog, sourceStatus, dailyVars, currentVars>>
  <2>1. /\ UNCHANGED <<changeLog, sourceStatus, usage, convention, coverage, cost, costCoverage>>
        /\ UNCHANGED <<balance, quota, snapshot>>
        /\ Still /\ raised' \in BOOLEAN
    BY <1>2 DEF Still, dailyVars, usageVars, costVars, currentVars, TypeOK
  <2>2. LogReplaysTables'
    BY <1>2, <2>1, IdleStep
  <2>3. CarryInv'
    BY <2>1, StillRows, CarryIdle
  <2>4. UsageInv' /\ CostInv'
    BY <2>1 DEF UsageInv, CostInv, HealthOrdered, RowsUnderCoverage, CoverageBacked, CostsUnderCoverage
  <2>5. DeadlineBacked' /\ CatalogHasNoDeadline'
    BY <2>1 DEF DeadlineBacked, CatalogHasNoDeadline
  <2>6. HistoryInv'
    BY <2>1, QuietIdle, QuietKeeps
  <2>7. LedgerForward
    <3>1. /\ coverage \in [DayKeys -> CoverageRows \cup {None}]
          /\ sourceStatus \in [StatusKeys -> StatusRows \cup {None}]
          /\ balance \in [Balances -> CurrentRows \cup {None}]
          /\ quota \in [Quotas -> CurrentRows \cup {None}]
      BY DEF TypeOK, DailyTypeOK, StatusTypeOK, CurrentTypeOK
    <3>2. \A key \in DayKeys : coverage[key] # None => coverage[key].importedAt \in Nat
      BY <3>1, TimeAssumption DEF CoverageRows, Times
    <3>3. \A key \in StatusKeys : sourceStatus[key] # None => sourceStatus[key].payload.lastAttempt \in Nat
      BY <3>1, TimeAssumption DEF StatusRows, StatusFacts, Times
    <3> QED
      BY <2>1, <3>1, <3>2, <3>3, SameForward DEF LedgerForward
  <2> QED
    BY <2>2, <2>3, <2>4, <2>5, <2>6, <2>7
<1> QED
  BY <1>1, <1>2 DEF WritesOrNot

LEMMA LedgerInitHolds == Init => LedgerInv
BY InitHolds, InitCarries, FactsInit, InitHistory DEF LedgerInv

-----------------------------------------------------------------------------
(* No more writes are refused than the bound says.                         *)
LEMMA RefusalsStep ==
    ASSUME refusals \in 0..MaxRefusals, [RefreshStep \/ Others]_currentState
    PROVE  refusals' \in 0..MaxRefusals
<1>1. MaxRefusals \in Nat
  BY CurrentCollectorAssumption
<1>2. Refused => refusals' \in 0..MaxRefusals
  BY <1>1 DEF Refused
<1>3. Swallowed => Refused
  BY DEF Swallowed
<1>4. Granted => refusals' = refusals
  BY DEF Granted
<1>5. ASSUME NEW w \in Refreshers,
             \/ LoadCards(w) \/ Ask(w) \/ SaveCards(w) \/ SaveFails(w) \/ Restart(w)
             \/ PublishInstance(w) \/ RecordObservation(w) \/ RecordSuccess(w) \/ MarkStale(w)
             \/ ReportFailure(w) \/ RecordCard(w) \/ RecordCardHealth(w)
      PROVE  refusals' = refusals \/ Refused
  BY <1>3, <1>4, <1>5 DEF LoadCards, Ask, SaveCards, SaveFails, Restart, PublishInstance,
     RecordObservation, RecordSuccess, MarkStale, ReportFailure, RecordCard, RecordCardHealth
<1>6. Others \/ UNCHANGED currentState => refusals' = refusals
  BY DEF Others, currentState, refreshVars
<1> QED
  BY <1>2, <1>5, <1>6 DEF RefreshStep, CurrentCollectorNext

LEMMA CollectorTyped == RefreshesTyped /\ RefreshesKnow => CollectorTypeOK
<1> SUFFICES ASSUME RefreshesTyped, RefreshesKnow
             PROVE  CollectorTypeOK
  OBVIOUS
<1>1. clock \in 0..MaxTime /\ version \in 0..MaxVersion /\ clock \in Nat
  BY TimeAssumption DEF RefreshesTyped
<1>2. \A range \in Ranges : range # {} /\ range \subseteq Days
  BY RangesAreDays DEF Ranges
<1>3. ASSUME NEW w \in Workers
      PROVE  /\ worker[w].at \in Stages
             /\ worker[w].attempt \in 0..clock
             /\ worker[w].at \in {"usage", "costs"} => worker[w].todo # {}
             /\ worker[w].at \in Asking => worker[w].provider \in worker[w].todo
             /\ worker[w].at \in AsksForDays => worker[w].window # {} /\ worker[w].window \subseteq Days
  BY <1>1, <1>2 DEF RefreshesTyped, Refreshes, Drawn, RefreshesKnow, Knows
<1> QED
  BY <1>1, <1>3 DEF CollectorTypeOK, RefreshesKnow, Stages, Asking, AsksForDays

LEMMA CurrentCollectorTyped == AgreeInv /\ refusals \in 0..MaxRefusals => CurrentCollectorTypeOK
<1> SUFFICES ASSUME AgreeInv, refusals \in 0..MaxRefusals
             PROVE  CurrentCollectorTypeOK
  OBVIOUS
<1>1. RefreshTyped /\ \A w \in Refreshers : InPlace(w)
  BY DEF AgreeInv
<1>2. TrueCards \subseteq Cards
  BY DEF TrueCards
<1> QED
  BY <1>1, <1>2 DEF CurrentCollectorTypeOK, RefreshTyped, InPlace

(* Each part of the service does what it does alone: the other parts are   *)
(* to it what it allows for.                                               *)
LEMMA ServesOnly == [ServiceNext]_serviceVars => [SocketNext]_socketVars
BY DEF ServiceNext, serviceVars

(* The refreshes of the history, those of the command line and of the menu *)
(* bar app among them, are to a refresh of the current facts some of the   *)
(* others it allows for: the service runs such refreshes, and nothing      *)
(* else it does shows in their ledger.                                     *)
THEOREM ServiceRunsRefreshes == ServiceSpec => CurrentCollectorSpec
<1>1. ServiceInit => ServiceInv
  BY ServiceInitHolds
<1>2. ServiceInv /\ [ServiceNext]_serviceVars => ServiceInv' /\ [RefreshStep \/ Others]_currentState
  BY ServiceStep
<1>3. ServiceInit => Init /\ CurrentCollectorInit
  BY DEF ServiceInit
<1> QED
  BY <1>1, <1>2, <1>3, PTL DEF ServiceSpec, CurrentCollectorSpec

(* So beside the refreshes of the history as alone, a refresh that nobody  *)
(* met leaves fact and health in agreement.                                *)
THEOREM ServiceSourcesAgree == ServiceSpec => []SourcesAgree
BY ServiceRunsRefreshes, SourcesKeepAgreeing, PTL

(* A refresh of the history knows its provider and its days, one of the    *)
(* current facts its card and its attempt, and a server its place in its   *)
(* code, however many of each the service, the command line and the app    *)
(* run side by side, and whatever is killed, refused or upgraded.          *)
THEOREM ServiceTyping == ServiceSpec => []ServiceTypeOK
<1> DEFINE Inv == ServiceInv /\ refusals \in 0..MaxRefusals /\ SocketInv
<1>1. ServiceInit => Inv
  <2>1. ServiceInit => refusals \in 0..MaxRefusals
    BY CurrentCollectorAssumption DEF ServiceInit, CurrentCollectorInit
  <2> QED
    BY <2>1, ServiceInitHolds, SocketInitHolds DEF ServiceInit
<1>2. Inv /\ [ServiceNext]_serviceVars => Inv'
  BY ServiceStep, RefusalsStep, ServesOnly, SocketStepKeeps
<1>3. Inv => ServiceTypeOK
  <2>1. SocketInv => SocketTypeOK
    BY DEF SocketInv, SocketTyped, SocketTypeOK, ServerStates, ServerPlaces, Nodes
  <2> QED
    BY <2>1, CollectorTyped, CurrentCollectorTyped DEF ServiceInv, ServiceTypeOK
<1> QED
  BY <1>1, <1>2, <1>3, PTL DEF ServiceSpec

(* The years stay whole, and of the installed contract, but where a daemon *)
(* or a failed read cut them, whatever the refreshes of the current facts  *)
(* and everybody else write beside.                                        *)
THEOREM ServiceYearsStayWhole == ServiceSpec => [](HistoryIsWhole /\ ContractReimported)
<1>1. ServiceInit => ServiceInv /\ YearInv
  BY ServiceInitHolds, YearInitHolds DEF ServiceInit
<1>2. ServiceInv /\ YearInv /\ [ServiceNext]_serviceVars => ServiceInv' /\ YearInv'
  <2> SUFFICES ASSUME ServiceInv, YearInv, [ServiceNext]_serviceVars
               PROVE  YearInv'
    BY ServiceStep
  <2>1. AgreeInv /\ RefreshesTyped /\ TypeOK
    BY DEF ServiceInv, AgreeInv, StoreInv
  <2>2. CASE CollectorNext
    BY <2>1, <2>2, YearStep
  <2>3. CASE RefreshStep /\ UNCHANGED <<collectorVars, socketVars>>
    BY <2>1, <2>3, RefreshElsewhere, YearAside
  <2>4. CASE Bystanders /\ UNCHANGED <<collectorVars, socketVars>>
    BY <2>1, <2>4, YearAside DEF Bystanders
  <2>5. CASE UNCHANGED <<vars, collectorVars, refreshVars>>
    <3>1. UNCHANGED everything
      BY <2>5 DEF everything
    <3> QED
      BY <2>1, <3>1, YearStep
  <2> QED
    BY <2>2, <2>3, <2>4, <2>5 DEF ServiceNext, serviceVars
<1>3. YearInv => HistoryIsWhole /\ ContractReimported
  BY YearIsWhole DEF YearInv
<1> QED
  BY <1>1, <1>2, <1>3, PTL DEF ServiceSpec

(* And everything the ledger promises of its own operations holds of it    *)
(* while the service and everybody else work on it, refused writes         *)
(* included: the feed replays to the tables, revisions are carried, days   *)
(* are covered and backed, the history of quotas keeps up, and no late     *)
(* worker takes anything back.                                             *)
THEOREM ServiceKeepsTheLedger ==
    ServiceSpec =>
        /\ [](TypeOK /\ LogReplaysTables /\ RowsCarryLatestRevision)
        /\ [](RowsUnderCoverage /\ CoverageBacked /\ CostsUnderCoverage)
        /\ [](DeadlineBacked /\ HistoryKeepsUp)
        /\ NoOlderImport /\ NothingMovesBack
<1>1. ServiceInit => ServiceInv /\ LedgerInv
  BY ServiceInitHolds, LedgerInitHolds DEF ServiceInit
<1>2. ServiceInv /\ LedgerInv /\ [ServiceNext]_serviceVars
         => ServiceInv' /\ LedgerInv' /\ LedgerForward
  <2> SUFFICES ASSUME ServiceInv, LedgerInv, [ServiceNext]_serviceVars
               PROVE  ServiceInv' /\ LedgerInv' /\ LedgerForward
    OBVIOUS
  <2>1. ServiceInv' /\ WritesOrNot
    BY ServiceStep
  <2>2. TypeOK'
    BY <2>1 DEF ServiceInv, AgreeInv, StoreInv
  <2> QED
    BY <2>1, <2>2, LedgerStep
<1>3. LedgerInv =>
         /\ TypeOK /\ LogReplaysTables /\ RowsCarryLatestRevision
         /\ RowsUnderCoverage /\ CoverageBacked /\ CostsUnderCoverage
         /\ DeadlineBacked /\ HistoryKeepsUp
  BY DEF LedgerInv, CarryInv, UsageInv, CostInv, HistoryInv
<1>4. LedgerForward =>
         [\A key \in DayKeys :
             /\ coverage[key] # None
             /\ coverage'[key] # None
             /\ coverage'[key].payload.source = coverage[key].payload.source
             => coverage'[key].importedAt >= coverage[key].importedAt]_vars
  BY DEF LedgerForward
<1>5. LedgerForward =>
         [\A key \in StatusKeys :
             /\ key[2] # CatalogSource
             /\ sourceStatus[key] # None
             /\ sourceStatus'[key] # None
             => sourceStatus'[key].payload.lastAttempt
                   >= sourceStatus[key].payload.lastAttempt]_vars
  BY DEF LedgerForward
<1>6. LedgerForward =>
         [/\ \A record \in Balances :
                balance[record] # None =>
                   /\ balance'[record] # None
                   /\ balance'[record].observedAt >= balance[record].observedAt
          /\ \A record \in Quotas :
                quota[record] # None =>
                   /\ quota'[record] # None
                   /\ quota'[record].observedAt >= quota[record].observedAt]_vars
  BY DEF LedgerForward, RowForward
<1> QED
  BY <1>1, <1>2, <1>3, <1>4, <1>5, <1>6, PTL
  DEF ServiceSpec, NoOlderImport, NothingMovesBack, HealthMovesForward, ObservationsMoveForward

=============================================================================
