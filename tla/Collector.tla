----------------------------- MODULE Collector -----------------------------
(***************************************************************************)
(* The processes that keep the history of the ledger: ActivityCollector of *)
(* openusage_bar/daily_history.py, run by the daemon, by the menu bar app  *)
(* and by `--fresh` on the command line.  Each refresh reads the ledger to *)
(* choose a window of days, asks a slow source, and commits what it got:   *)
(* the official importer first, OpenUsage as its fallback, then costs.     *)
(* Any other process may write in between, and a process may be killed     *)
(* (run_bounded, quitting, updating) between any two of its transactions.  *)
(*                                                                         *)
(* All refreshes happen on day MaxDay; Days is the year before it.         *)
(***************************************************************************)
EXTENDS Ledger

CONSTANTS
    Workers,      \* processes; the lock of each admits one refresh at a time
    Daemons,      \* those that pass history_days = HISTORY_DAYS = 0
    Official,     \* usage_source_id of the official importers
    OpenUsage,    \* "openusage.daily"
    Billing,      \* cost_source_id of the official importers
    Importers,    \* providers with an official importer
    Eager,        \* those it may refresh ahead of everything else
    Failed,       \* "temporarily_unavailable"
    Incremental,  \* first of the last seven days
    MaxVersion    \* bound on history_contract_revision

VARIABLES
    clock,      \* the last attempt time any process captured
    version,    \* history_contract_revision of the installed importers, 0 if none
    worker,     \* what each process is about to do
    importedBy, \* history: version of the official import that set a day
    fresh,      \* history: providers a fresh refresh, not blind, imported officially
    cut         \* history: what was imported for less than the year it stands for

historyVars   == <<importedBy, fresh, cut>>
collectorVars == <<clock, version, worker, historyVars>>
everything    == <<vars, collectorVars>>

ASSUME CollectorAssumption ==
    /\ Daemons \subseteq Workers
    /\ Eager \subseteq Importers /\ Importers \subseteq Providers
    /\ {Official, OpenUsage} \subseteq UsageSources /\ Official # OpenUsage
    /\ Billing \in CostSources /\ Billing # Official
    /\ Failed \in Faults
    /\ Incremental \in Days
    /\ MaxVersion \in Nat /\ 1..MaxVersion \subseteq Contracts

-----------------------------------------------------------------------------
(* The local variables of a refresh.                                       *)

Today == {MaxDay}

Idle == [at |-> "idle", scope |-> "all", attempt |-> 0, todo |-> {},
         provider |-> None, window |-> {}, blind |-> FALSE]

(* Mutant: a status is taken for a success. *)
HasSourceStatus(provider) == sourceStatus[<<provider, Official>>] # None

HasSourceSuccess(provider) ==
    LET row == sourceStatus[<<provider, Official>>]
    IN  row # None /\ row.payload.lastSuccess # None

HasDailyHistory(provider) == \E day \in Days : coverage[<<provider, day>>] # None

HasCostHistory(provider) == \E day \in Days : costCoverage[<<provider, day>>] # None

Revision == IF version = 0 THEN None ELSE version

ThisWeek == Incremental..MaxDay

(* Mutant: the contract revision is not compared. *)
WindowsOfAnyContract(w, provider) ==
    IF w \in Daemons THEN {Today}
    ELSE IF HasSourceSuccess(provider) THEN {ThisWeek} ELSE {ThisWeek, Days}

(* 7 days behind a success under the installed contract, else 365.  A      *)
(* read of the success that fails counts as one, a read of the contract    *)
(* that fails as another contract.                                         *)
OfficialWindows(w, provider) ==
    IF w \in Daemons THEN {Today}
    ELSE IF Revision \notin {None, contract[<<provider, Official>>]} THEN {Days}
    ELSE IF HasSourceSuccess(provider) /\ Revision = None THEN {ThisWeek}
    ELSE {ThisWeek, Days}

(* Today behind any history, else 365.  A read of it that fails ends the   *)
(* fallback: FallbackFails.                                                *)
FallbackWindow(w, provider) ==
    IF w \in Daemons \/ HasDailyHistory(provider) THEN Today ELSE Days

(* 7 days behind any costs; a read of them that fails counts as some.      *)
CostWindows(w, provider) ==
    IF w \in Daemons THEN {Today}
    ELSE IF HasCostHistory(provider) THEN {ThisWeek} ELSE {ThisWeek, Days}

CollectorInit ==
    /\ clock = 0
    /\ version = 0
    /\ worker = [w \in Workers |-> Idle]
    /\ importedBy = [key \in DayKeys |-> None]
    /\ fresh = {}
    /\ cut = {}

-----------------------------------------------------------------------------
(* Moves of one process between its transactions.                          *)

Goes(w, next) == worker' = [worker EXCEPT ![w] = next]

Starting(todo, scope) ==
    [Idle EXCEPT !.at = "usage", !.scope = scope, !.attempt = clock + 1, !.todo = todo]

(* refresh: every provider, usage then costs then retention.               *)
(* refresh_usage: the usage of the eager ones.                             *)
Begin(w) ==
    /\ worker[w].at = "idle"
    /\ clock < MaxTime
    /\ clock' = clock + 1
    /\ \/ Goes(w, Starting(Providers, "all"))
       \/ Eager # {} /\ Goes(w, Starting(Eager, "usage"))
    /\ UNCHANGED <<vars, version, historyVars>>

(* One provider after another.  An importer is asked first; a provider     *)
(* without one goes to OpenUsage at once.  blind: only a failed read made  *)
(* the window short.                                                       *)
ChooseUsage(w) ==
    /\ worker[w].at = "usage"
    /\ \E provider \in worker[w].todo :
          \/ /\ provider \in Importers
             /\ \E window \in OfficialWindows(w, provider) :
                   Goes(w, [worker[w] EXCEPT
                              !.at = "official", !.provider = provider, !.window = window,
                              !.blind = window # Days /\ ~HasSourceSuccess(provider)])
          \/ /\ provider \notin Importers
             /\ Goes(w, [worker[w] EXCEPT !.at = "fallback", !.provider = provider])
    /\ UNCHANGED <<vars, clock, version, historyVars>>

(* Done with a provider.                                                   *)
Leaves(w) == [worker[w] EXCEPT !.provider = None, !.window = {}, !.blind = FALSE]

(* Behind the usage of the last provider come the costs of the importers,  *)
(* behind those retention.                                                 *)
AfterUsage(w) ==
    LET todo == worker[w].todo \ {worker[w].provider}
    IN  IF todo # {} THEN [Leaves(w) EXCEPT !.at = "usage", !.todo = todo]
        ELSE IF worker[w].scope = "usage" THEN Idle
        ELSE IF Importers = {} THEN [Leaves(w) EXCEPT !.at = "retention", !.todo = {}]
        ELSE [Leaves(w) EXCEPT !.at = "costs", !.todo = Importers]

(* Mutant: the end of the costs goes unnoticed. *)
AfterCostsAgain(w) ==
    [Leaves(w) EXCEPT !.at = "costs", !.todo = @ \ {worker[w].provider}]

AfterCosts(w) ==
    LET todo == worker[w].todo \ {worker[w].provider}
    IN  [Leaves(w) EXCEPT !.at = IF todo = {} THEN "retention" ELSE "costs", !.todo = todo]

(* History: a window short of the year, drawn by a daemon or blindly, cuts *)
(* what its days now stand for, if the rest was not there; a whole year    *)
(* mends it.                                                               *)
CutBy(w, parts, lacking) ==
    LET me == worker[w]
    IN  IF me.window = Days THEN cut \ ({me.provider} \X parts)
        ELSE IF w \in Daemons \/ me.blind THEN cut \cup ({me.provider} \X lacking)
        ELSE cut

NoUsage(provider) == IF HasDailyHistory(provider) THEN {} ELSE {"usage"}

NoCosts(provider) == IF HasCostHistory(provider) THEN {} ELSE {"costs"}

OtherContract(provider) ==
    IF Revision # None /\ contract[<<provider, Official>>] \notin {None, Revision}
    THEN {"contract"} ELSE {}

(* The importer answered: committed or refused behind a newer attempt, the *)
(* provider is done.  A commit that raises is a failure, below.            *)
OfficialCommits(w) ==
    LET me == worker[w]
        accepted == ~HasNewerAttempt(<<me.provider, Official>>, me.attempt)
    IN  /\ me.at = "official" /\ CanWrite
        /\ \E rows \in [InRange(UsageKeys, me.provider, me.window) -> Values \cup {None}] :
              CommitUsageImport(me.provider, Official, me.window, rows, me.attempt, Revision)
        /\ ~raised'
        /\ importedBy' = [key \in DayKeys |->
                             IF accepted /\ key \in InRange(DayKeys, me.provider, me.window)
                             THEN Revision ELSE importedBy[key]]
        /\ fresh' = IF accepted /\ w \notin Daemons /\ ~me.blind
                    THEN fresh \cup {me.provider} ELSE fresh
        /\ cut' = IF accepted
                  THEN CutBy(w, {"usage", "contract"},
                             NoUsage(me.provider) \cup OtherContract(me.provider))
                  ELSE cut
        /\ Goes(w, AfterUsage(w))
        /\ UNCHANGED <<costVars, currentVars, clock, version>>

(* It failed, answered out of scope, or the commit raised.                 *)
OfficialFails(w) ==
    LET me == worker[w]
    IN  /\ me.at = "official" /\ CanWrite
        /\ RecordSourceStatus(<<me.provider, Official>>, Failed, me.attempt, None)
        /\ Goes(w, [me EXCEPT !.at = "fallback", !.window = {}, !.blind = FALSE])
        /\ UNCHANGED <<dailyVars, currentVars, clock, version, historyVars>>

ChooseFallback(w) ==
    /\ worker[w].at = "fallback"
    /\ Goes(w, [worker[w] EXCEPT !.at = "openusage",
                                 !.window = FallbackWindow(w, worker[w].provider)])
    /\ UNCHANGED <<vars, clock, version, historyVars>>

(* OpenUsage has rows to offer: they take the window over.                 *)
FallbackCommits(w) ==
    LET me == worker[w]
        keys == InRange(UsageKeys, me.provider, me.window)
        accepted == ~HasNewerAttempt(<<me.provider, OpenUsage>>, me.attempt)
    IN  /\ me.at = "openusage" /\ CanWrite
        /\ \E rows \in [keys -> Values \cup {None}] :
              /\ \E key \in keys : rows[key] # None
              /\ CommitUsageImport(me.provider, OpenUsage, me.window, rows, me.attempt, None)
        /\ ~raised'
        /\ importedBy' = [key \in DayKeys |->
                             IF accepted /\ key \in InRange(DayKeys, me.provider, me.window)
                             THEN None ELSE importedBy[key]]
        /\ cut' = IF accepted THEN CutBy(w, {"usage"}, NoUsage(me.provider)) ELSE cut
        /\ Goes(w, AfterUsage(w))
        /\ UNCHANGED <<costVars, currentVars, clock, version, fresh>>

(* It failed, was empty or ambiguous, or could not be asked: last good     *)
(* usage stays, as stale, unless that cannot be read or said.              *)
FallbackFails(w) ==
    LET me == worker[w]
    IN  /\ me.at \in {"fallback", "openusage"} /\ CanWrite
        /\ \E state \in {Failed, "stale"} :
              /\ state = "stale" => HasDailyHistory(me.provider)
              /\ RecordSourceStatus(<<me.provider, OpenUsage>>, state, me.attempt, None)
        /\ Goes(w, AfterUsage(w))
        /\ UNCHANGED <<dailyVars, currentVars, clock, version, historyVars>>

ChooseCosts(w) ==
    /\ worker[w].at = "costs"
    /\ \E provider \in worker[w].todo : \E window \in CostWindows(w, provider) :
          Goes(w, [worker[w] EXCEPT !.at = "billing", !.provider = provider,
                                    !.window = window,
                                    !.blind = window # Days /\ ~HasCostHistory(provider)])
    /\ UNCHANGED <<vars, clock, version, historyVars>>

CostsCommit(w) ==
    LET me == worker[w]
    IN  /\ me.at = "billing" /\ CanWrite
        /\ \E rows \in [InRange(CostKeys, me.provider, me.window) -> Values \cup {None}] :
              CommitCostImport(me.provider, Billing, me.window, rows, me.attempt)
        /\ ~raised'
        /\ cut' = IF HasNewerAttempt(<<me.provider, Billing>>, me.attempt) THEN cut
                  ELSE CutBy(w, {"costs"}, NoCosts(me.provider))
        /\ Goes(w, AfterCosts(w))
        /\ UNCHANGED <<usageVars, currentVars, clock, version, importedBy, fresh>>

CostsFail(w) ==
    LET me == worker[w]
    IN  /\ me.at = "billing" /\ CanWrite
        /\ RecordSourceStatus(<<me.provider, Billing>>, Failed, me.attempt, None)
        /\ Goes(w, AfterCosts(w))
        /\ UNCHANGED <<dailyVars, currentVars, clock, version, historyVars>>

(* apply_retention(730): the cutoff lies before the year.                  *)
Retain(w) ==
    /\ worker[w].at = "retention"
    /\ PurgeBefore(1, 1)
    /\ Goes(w, Idle)
    /\ UNCHANGED <<clock, version, historyVars>>

Killed(w) ==
    /\ worker[w].at # "idle"
    /\ Goes(w, Idle)
    /\ UNCHANGED <<vars, clock, version, historyVars>>

(* An update replaces every process.                                       *)
Upgrade ==
    /\ version < MaxVersion
    /\ version' = version + 1
    /\ worker' = [w \in Workers |-> Idle]
    /\ UNCHANGED <<vars, clock, historyVars>>

CollectorNext ==
    \/ \E w \in Workers :
          \/ Begin(w)
          \/ ChooseUsage(w) \/ OfficialCommits(w) \/ OfficialFails(w)
          \/ ChooseFallback(w) \/ FallbackCommits(w) \/ FallbackFails(w)
          \/ ChooseCosts(w) \/ CostsCommit(w) \/ CostsFail(w)
          \/ Retain(w) \/ Killed(w)
    \/ Upgrade

CollectorSpec == Init /\ CollectorInit /\ [][CollectorNext]_everything

-----------------------------------------------------------------------------
(* A refresh knows the provider it asks about and the days it asks for     *)
(* until it has committed them, and no attempt is ahead of the clock.      *)
CollectorTypeOK ==
    /\ clock \in 0..MaxTime
    /\ version \in 0..MaxVersion
    /\ fresh \subseteq Importers
    /\ cut \subseteq Providers \X {"usage", "costs", "contract"}
    /\ importedBy \in [DayKeys -> 1..MaxVersion \cup {None}]
    /\ \A w \in Workers :
          /\ worker[w].at \in {"idle", "usage", "official", "fallback", "openusage",
                               "costs", "billing", "retention"}
          /\ worker[w].attempt \in 0..clock
          /\ worker[w].at \in {"usage", "costs"} => worker[w].todo # {}
          /\ worker[w].at \in {"official", "fallback", "openusage", "billing"} =>
                worker[w].provider \in worker[w].todo
          /\ worker[w].at \in {"official", "openusage", "billing"} =>
                worker[w].window # {} /\ worker[w].window \subseteq Days

(* No process leaves a hole, but for one a daemon or a failed read cut: a  *)
(* provider that has any history of usage, or of costs, has it for the     *)
(* whole year, whoever was killed or failed between the read that chose a  *)
(* window and its commit.                                                  *)
HistoryIsWhole ==
    \A provider \in Providers :
        /\ HasDailyHistory(provider) /\ <<provider, "usage">> \notin cut =>
              \A day \in Days : coverage[<<provider, day>>] # None
        /\ HasCostHistory(provider) /\ <<provider, "costs">> \notin cut =>
              \A day \in Days : costCoverage[<<provider, day>>] # None

(* The stored contract revision says under which contract the year was     *)
(* imported: whenever an importer changes its contract, days imported      *)
(* under the old one do not survive the revision that replaces it, unless  *)
(* it is a daemon that brings the new one, with no more than today.        *)
ContractReimported ==
    \A key \in DayKeys :
        importedBy[key] # None /\ <<key[1], "contract">> \notin cut =>
            importedBy[key] = contract[<<key[1], Official>>]

(* "Historical backfills remain available through the dedicated CLI fresh  *)
(* workflow": once a refresh without a history window has imported a       *)
(* provider, its year is covered.                                          *)
FreshBackfills ==
    \A provider \in fresh : \A day \in Days : coverage[<<provider, day>>] # None

(* "Fall back to OpenUsage only when the official source fails": OpenUsage *)
(* takes no day over while the newest official attempt is a success.       *)
FallbackOnlyAfterFailure ==
    [][\A key \in DayKeys :
          /\ coverage[key] # None /\ coverage[key].payload.source = Official
          /\ coverage'[key] # None /\ coverage'[key].payload.source = OpenUsage
          => sourceStatus[<<key[1], Official>>].payload.state # "ok"]_everything

=============================================================================
