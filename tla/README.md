# OpenUsage Bar: its ledger, gateway, plugin API and connections, specified and proved

OpenUsage Bar collects what AI providers report about usage, costs, balances and
quotas into one SQLite ledger (`openusage_bar/activity_store.py`), serves it
through a loopback Local API, routes requests through a local gateway and answers
plugins through an idempotent control plane; commands of the settings window and
the command line edit connections, accounts and the installed service. This
directory models the parts whose correctness depends on interleavings, ordering,
retries, failures and restarts. All paths below are relative to `src/`.

## Inventory

| Component | State | Operations | Talks to | What is hard | What makes it correct |
|---|---|---|---|---|---|
| Activity store (`activity_store.py`) | daily usage, costs, coverage markers, token conventions, balances, quotas, quota history, instances, source status, contract revisions, `change_log` | imports, observations, stale marks, status, retention, reads of snapshots and changes | collector processes write, Local API and the native apps read, all through one SQLite file | several processes write; attempts commit out of order; deletion and re-insertion; one transaction touches many tables | the log replays to the tables; revisions continue; days belong to one source; health and observations do not go back |
| Change feed (`query.py`, `snapshot_changes`) | none of its own; the consumer keeps a cursor and a replica | read a page after a cursor | consumers poll while writers write | pages are cut between concurrent transactions; consumers crash | no change is skipped; a caught-up replica is the tables |
| Activity collector (`daily_history.py`, `aggregator.py`, `RefreshCoordinator` in `local_api.py`) | card cache, locks, last results kept by the adapters | refresh, refresh current, refresh usage | adapters, importers, the store | user and scheduled refreshes in one process, more processes beside it; official source first and OpenUsage as its fallback | one source owns a day; a result is recorded at its own attempt; a scheduled refresh eventually runs |
| Catalog monitor (`daily_history.py` 65-143) | last attempt, in the store | maybe run | detector, store | read, run slowly, then write; clock set back | at most one per process; only a clock rollback replaces a later attempt |
| Gateway runtime (`gateway/runtime.py`, `streaming.py`, `response.py`) | one request's stream | call, stream | provider transports, cache, telemetry, fallback | provider failures before and after the first output, abandoned consumers | one terminal event; at most one fallback, never after output; only complete answers are cached |
| Fallback (`gateway/fallback.py`) | breaker state, health window | allow, record, select, decide | runtime | concurrent probes, clock regress, window capacity | one probe in half-open; decisions respect the gates |
| Pools (`gateway/pools.py`) | round-robin cursor | select | runtime | exclusions shift the rotation | only eligible members, in proportion to weight |
| Response cache (`gateway/cache.py`) | SQLite tables, hot map, pending touches | store, lookup, clear, evict | runtime | hot map and database diverge; expiry; size cap | a hit is stored, fresh and not evicted or cleared |
| Telemetry (`gateway/telemetry.py`) | records, incomplete windows | record, retention, burn rate | runtime, policy | records dropped when busy | a burn rate is never computed over a window with dropped records |
| Accounts (`gateway/commands.py`, `config.py`, `keychain.py`) | configuration file, keychain | create, edit, remove, round trip | keychain, file lock | two stores, no common transaction | no account without its credential, compensation on failure |
| Plugin control plane (`plugin/store.py`, `api.py`) | idempotency records, decisions | idempotent execution, outcome, lookup | gateway advice | owner dies, waiters time out, expiry, capacity | one execution per key; every waiter sees the owner's answer |
| Provider configuration (`provider_config.py`, `provider_commands.py`) | configuration files | add, edit, remove | keychain | lock and atomic replace | no lost update |
| Managed collector, services, uninstall (`managed_collector.py`, `platform_services.py`, `lifecycle_state.py`) | installed files | install, uninstall, delete state | operating system | crash between renames | old or new version, never neither |
| Child processes (`bounded_process.py`) | one process group, its pipes and their threads | run bounded | adapters | deadline, overflow and exit at once; descendants that keep a pipe open or leave the group | a success is complete, the call returns, nothing is left in its group |
| Listeners (`gateway/server.py`, `_BoundedThreads` in `local_api.py`) | thread slots, deadlines, one watchdog or a timer per request | accept, register, expire, abort, close | runtime, Local API | a request ends while its deadline fires while the listener closes | slots are given back; the overdue are cut and nobody else; closing ends |
| Socket of the Local API (`UnixHTTPServer` in `local_api.py`) | a name in the file system | probe, replace, bind, serve, remove | other servers of the user | a name left by a dead server; checks and renames of several servers interleave | who serves has the name; only one's own node is removed |
| Adapters and importers | none | fetch | providers | parsing | pure functions of their input |
| Desktop shell, macOS app, web front end, CLI | view state | display, refresh | Local API, ledger read-only | — | presentation |

`PROJECT.json` lists each of them with its status, and under `hazards` every
place of this code where an order or a failure that no test writes down can
bite, with the properties that guard it or the module that is to.

## Modules

### The ledger, its collector and its readers

| Module | Models | Correspondence |
|---|---|---|
| `ChangeLog` | table `change_log`, `_append_change`, `_next_revision_locked`, `_write_transaction` | `changeLog` is the table in `change_seq` order; `raised` says that the last transaction raised and was rolled back. `Commit(changes, position)` appends a transaction's changes in the order the code appends them |
| `SourceHealth` | table `source_status` | `RecordSourceSuccess`, `RecordSourceStatus`, `DeleteSourceStatus` are the three methods; `AfterSuccess` and `AfterOutcome` are their UPSERTs with the WHERE that drops older attempts; `HasNewerAttempt` is the fence of the imports |
| `DailyLedger` | tables `daily_model_usage`, `daily_token_conventions`, `daily_coverage`, `daily_costs`, `daily_cost_coverage`, `ledger_meta` | `CommitUsageImport` and `CommitCostImport` are `commit_usage_import_success` and `commit_cost_import_success` with the `_replace_daily_*_locked` methods they call |
| `CurrentLedger` | tables `provider_instances`, `balance_state`, `quota_state`, `quota_snapshots` | one action per method: `UpsertProviderInstance`, `RecordBalance`, `MarkBalanceSourceStale`, `RecordQuota`, `MarkQuotaSourceStale` |
| `Ledger` | the store as a whole | composes the three above over one log, adds `PurgeBefore` (`purge_before`, called by `apply_retention`), and states the properties |
| `LedgerReader` | a consumer of `GET /v1/changes` | `ReadPage` is `snapshot_changes` and `QueryService.changes`; `SaveCursor` and `Crash` are the consumer of `docs/api/local-api-v1.md` |
| `Collector` | `ActivityCollector.refresh` and `refresh_usage` in several processes | `worker[w]` holds the local variables of one refresh and where it stands; between two of its transactions any other process may run, and `Killed` or `Upgrade` may end it. The commits are the actions of `DailyLedger` and `SourceHealth` |
| `Service` | the background service as a whole | `Collector`, `CurrentCollector` and `SocketPath` on one ledger, step by step in any order, beside `Bystanders`: the catalog monitor and the collectors of other providers, which leave the imported history and the health of the official importers alone |
| `CurrentCollector` | `Aggregator.refresh`, `CardCache`, `LedgerRefresher`, `ActivityCollector.refresh_current` and the same part of `refresh`, in several processes | `refresher[w]` is where a refresh stands, with the card it will show and its attempt time; `cardFile` is `cards.json`; `lastResult` is what an adapter keeps from its last answer. One step per read of the adapters, write of the file and transaction of the ledger, each of which may be refused; the transactions are the actions of `CurrentLedger` and `SourceHealth`. `asked` and `alone` are history variables for the properties. `Others` is what everybody else writes to the ledger meanwhile |
| `BoundedProcess` | `bounded_process.run_bounded` on POSIX | the child and what it forks, the pipes, the reader and writer threads, and `sup`, which is where the loop stands, what it saw and the failure it will raise |
| `RefreshCoordinator` | `local_api.RefreshCoordinator` | the condition with its waiters, the flag `_running`, the desktop's `try_start` and the daemon's `run_blocking`; a woken thread still has to take the lock, so another refresh may start before it |

### The gateway

| Module | Models | Correspondence |
|---|---|---|
| `CacheContract` | what the response cache promises | a map of answers with what each hit may be: the last answer stored under the key, unexpired, not cleared |
| `ResponseCache` | `gateway/cache.SQLiteGatewayCache` | the entries table with its prefix rows, the hot map, the pending touches and the transaction that is open; one action per method, per hit path and per way a transaction fails. It implements `CacheContract` under a refinement mapping |
| `GatewayStream` | `gateway/runtime.GatewayRuntime.stream` and `call`, the parser of `streaming.py`, the limits of `providers.py` | a call's upstream, the frames parsed but not yet given, the events given, the sequence number, what is admitted to the cache and the telemetry record |
| `Telemetry` | `gateway/telemetry.GatewayTelemetryStore` | rows, marks of windows in which a record was dropped, the writer lock and the two looks of a burn-rate query |
| `CircuitBreaker` | `CircuitBreaker` of `gateway/fallback.py` | `breaker` is the object's attributes, one action per method, with the time its caller brings; `probedAt` is a history variable |
| `AccountCommands` | `gateway/commands.py`, `gateway/config.py` | the configuration file with accounts and pools, the keychain, and the command that holds the file lock, with every step that may fail, be compensated or be the last |
| `Gateway` | the parts of the gateway beside each other, as `collector_cli._build_default_gateway_server` puts them together, and the commands on what is configured for it | the conjunction of the parts' states; each step is a step of one part |
| `MCGateway`, `MCCalls` | — | the parts composed for TLC, one at a time; the second call begins only once the first answer is stored, and calls are named in the order they come |

### The listeners

| Module | Models | Correspondence |
|---|---|---|
| `ListenerContract` | what both listeners promise of their connections | how many are held, who may be refused, cut or turned away, and that the due are cut and the end ends |
| `BoundedThreads` | what `_BoundedThreads` of `gateway/server.py` and of `local_api.py` have in common | `conn[r]` is where the thread of a connection stands between `process_request` and the release of its slot; `deadline` is the registry under the lock; `stage` and `todo` are `server_close` |
| `GatewayListener` | the deadlines of the gateway | one watchdog that sleeps on the condition until the earliest deadline, with `_expired_deadlines` |
| `LocalListener` | the deadlines of the Local API | one `threading.Timer` per request, cancelled and joined when the request or the listener ends. Both implement `ListenerContract`, liveness included |
| `Daemon` | what the daemon and its clients do beside the collecting | `LedgerReader`, `RefreshCoordinator`, `ManagedCollector`, one listener of either kind and `BoundedProcess`, step by step in any order |
| `SocketPath` | `_prepare_socket_path`, `_unlink_socket_if`, `server_bind`, `server_activate` and `server_close` of `UnixHTTPServer` | one action per system call on the name: look, connect, look again, rename to the quarantine, unlink or restore, bind, listen, remember the inode, chmod |

### Plugins, connections and the installed collector

| Module | Models | Correspondence |
|---|---|---|
| `PluginPromises` | what `docs/api/plugin-api-v1.md` promises of a key | each key is executed at most once per life of its record, all its callers get one answer, or a safe failure |
| `PluginStore` | `plugin/store.PluginStore` and the part of `plugin/api.py` that calls it | the idempotency records and decisions of the database, the processes with the identifiers the operating system gave them, and each call with its place in claim, mutation, commit, wait and reply. It implements `PluginPromises` |
| `ProviderConnections` | `ui.ProviderController` behind `provider_commands.py`, `config.ProviderConfigStore` | the rows of the file, the keychain entries and one running mutation per process; `promised` is a history variable of what the last mutation that answered ok left |
| `ManagedCollector` | `managed_collector.py`, the service part of `platform_services.py` | the executable at its stable path, the backup, the service as absent, off or on, and the lifecycle command with where it stands |
| `MCRecords` | — | a sort order of the record ids, for all runs of the ledger and its clients |
| `MCLedger`, `MCStore`, `MCReader`, `MCCollector`, `MCService`, `MCPlugin` | — | values of constants, symmetry, and the parts of a run |

### Proofs

| Module | Proves about |
|---|---|
| `ChangeLogProofs`, `LedgerProofs` | `ChangeLog`, `Ledger` |
| `LedgerClientProofs` | `Collector`, `CurrentCollector` and their composition `Service`, over `LedgerProofs` |
| `GatewayProofs` | `AccountCommands`, `CircuitBreaker`, `ProviderConnections`, `Telemetry` |
| `ServiceProofs` | `ManagedCollector`, `SocketPath`, `BoundedProcess` |
| `PluginProofs` | `PluginStore`, against `PluginPromises` |
| `AnswerProofs` | `ResponseCache`, against `CacheContract`; `GatewayStream` |
| `DaemonProofs` | `LedgerReader` over `LedgerProofs`; `GatewayListener` and `LocalListener`, against `ListenerContract`; their composition `Daemon` |

What is one step. A database transaction is one step: `BEGIN IMMEDIATE` admits
one writer at a time in any process, and a reader sees a snapshot. What
interleaves is the order in which whole transactions of different workers arrive,
which the modules leave completely open. Where the code does more than one thing
to more than one store (keychain and file, hot map and table, executable and
service), each is a step of its own with its failure, and anything may happen
between two of them that the code's locks do not exclude.

What the modules abstract:

- **Ledger.** A row's payload is a model value, with the fields the code compares
  kept apart: the source of usage rows and markers, `stale`, the observation time,
  the columns of the source status. One `account_ref` per provider; `error_code`
  goes with the state of a status; `imported_at` of rows is not in any payload and
  nothing reads it. Times are small numbers; `Freshness` and `Heartbeat` are the
  code's two durations in those units. A ledger starts empty: the schema's
  creation and migration are not modelled. `Place` is the sort order of record ids.
- **Collector.** The official importers start without a contract revision, as some
  of the code's are, and updates bring one and replace it, for all at once; an
  importer answers for exactly the days it was asked; the reads of the last
  success and of the revision are one step, and each may fail. The report of a
  failure is written: a store that refuses that too is not modelled. All refreshes fall on one day,
  `MaxDay`, and `Days` is the year before it, `Incremental..MaxDay` its last seven
  days. Attempt times of different refreshes differ.
- **Current facts.** One provider stands for all: either a balance source beside a
  card with a quota, or a quota source that replaces the card's. An answer has one
  observation and its amount never changes, so only times and staleness tell
  observations apart; a scope mismatch or an invalid result is a failure like any
  other. Adapters that bring cards of the same provider, whose cards are merged
  first, and families without a quota are left out. The clock moves with each read
  and two reads never share a time. The menu bar app writes the same file of cards
  and no ledger, which is a process that is killed behind `SaveCards`.
- **Coordinator.** `Thread.start` raising after `_mark_started` would leave
  `_running` set for good (`local_api.py:146`); a thread that cannot be started is
  not modelled.
- **Child process.** POSIX; the Job Object of Windows and the decoding of the
  output are left out. A descriptor number that is given to another file between
  `fileno()` and `read()` in a thread left behind is not modelled. A reader or
  writer that finds its stream closed turns a timeout into `reader_failed` or
  `runner_failed`, as in the code.
- **Listeners.** A connection is accepted and gets its slot in one step, since one
  thread accepts. `Timer.start` raising inside the lock of `local_api.py` would
  leave the slot taken and make the join of `server_close` raise; a timer that
  cannot be started is not modelled. The clock goes to `MaxNow` and then stands.
- **Socket.** Only sockets come to the name and each node has an inode of its own
  while it is in use. Rename replaces its target or not (`Replacing`).
  `ServesUnderTheName` is about servers that start and end one after the other
  (`met` records that two were on their way at once); `clobber` shows what happens
  otherwise. If bind fails, `socketserver` calls `server_close` before the
  deadlines are configured, so the error raised is an `AttributeError` instead of
  the `OSError`; what happens to the name is the same.
- **Cache.** One process uses the cache (`collector_cli.py:1051`). The clock does
  not go back, a commit that raises either happened or was rolled back, and the
  look at the file behind a commit may raise although it happened. Rows edited by
  other programs, and which requests and answers may be cached at all, are left
  out. A request is a key with its prefixes, an answer a value with a size.
- **Stream.** One shape of request; upstream chunks are what the parser may make of
  them. No entry point configures a selector (`collector_cli.py:1051-1054`), so
  the choice to fall back is free and raises nothing.
- **Circuit.** Times are small numbers or none; only tests make a circuit today.
- **Telemetry.** Rows and marks of one scope; every record reports tokens; the
  limit of 1,000 rows is left out; a query does not last longer than what is left
  of a window and the clock does not go back. `clear` has no caller in
  production; records it was told to forget are excused (`forgotten`).
- **Accounts.** A save that fails after `os.replace` answers `config_write_failed`
  although it wrote, and the credential is taken back; `troubled` names the
  accounts this or a crash hit, and the property excepts them. A keychain call may
  raise having done its work. `create_pool` restarts the revision of a pool at 1.
  The credential roundtrip (`commands.py:196-335`) only composes these commands.
- **Plugin.** A service may be given the process identifier of a dead one; a
  record expires at the time it was given. The time a call lasts is not bounded,
  its waiting is.
- **Connections.** There is no lock. Loading the file and reading the old entries
  is one step; refused mutations are left out; the macOS app ends a mutation after
  30 seconds (`ProviderMutationClient.swift`). The undo of a plain connection's
  addition deletes its key and not more, as the code does.
- **Installed collector.** Linux; temporary copies and exchanged directories are
  left out, the directory that cannot be opened again after the activation and the
  one that cannot be removed after the executable are not; the service is absent,
  off or on. A failed activation removes the unit
  the previous version had, so after a failure only the executable is guaranteed,
  and the `.previous-` copy a killed install leaves is never taken up again.

## Runs

| Run | Question | Bounds | Result |
|---|---|---|---|
| `store` | do the tables survive late, repeated and failing writers and retention? | one group at a time: usage (two sources, one model, two days, two values, two attempt times), costs (two currencies, days 0 to 2), current state (one record of each kind, observation times to 3, heartbeat 2, three snapshots), health (a card source and the catalog monitor, attempt times to 3); 5 changes | holds |
| `reader` | does the daemon deliver, refresh, stay installed, keep its listeners' contract and end its child processes? | one part at a time: pages of 1 or 2 with one crash and 4 changes; one desktop and the daemon's loop at the coordinator; two versions of the executable; three connections, two slots, a deadline of 1 and time to 2, at each of the two listeners; a child with one helper, one stream with limit 1 of which 2 are written | holds |
| `service` | does the background service leave the history whole and the current facts in agreement with their health, and serve under its name? | one part at a time: two refreshes of one provider with usage and costs, by a daemon or by either of two processes without a history window, any read of the history failing, two contracts, two days of which one is recent; two processes that refresh current facts with two reads, any card and one refused write, or with three reads and no card; one that refreshes current facts beside one that refreshes history, without cards or updates; two socket servers, three inodes, one death | holds |
| `masked` | is a balance that could not be read marked stale? | as the second part of `service` | violated |
| `plugin` | does the plugin store keep its promises? | two calls, three keys, two process identifiers, one decision, capacity 3, time to 1; deadlock is checked | holds |
| `gateway` | do the cache, the calls, the telemetry, the account commands and the provider connections keep their stores in step? | one part at a time, see below | holds |
| `reinsert` | may a deleted status be recorded again? | one source | violated, see Findings |
| `backfill` | does a full refresh behind the daemon's import the year? | as the first part of `service`, one daemon and one other process | violated |
| `takeover` | does OpenUsage replace official days only after a failure? | as the first part of `service`, without a daemon | violated |
| `residue` | is what a dead service left resolved by the next start? | two calls, two identifiers | violated |
| `lost` | does a mutation preserve the other connections? | two processes, two connections | violated |
| `clobber` | is a live socket never replaced? | two servers, three inodes | violated |

*Ledger.* `MaxChanges` is the only bound on the length of a behaviour: no
transaction starts once the log has 5 changes, and a transaction that starts below
the bound may exceed it, so logs get as long as 4 plus the largest import. That goes
for the transactions of the collectors too, whose runs never reach it. Five
changes are enough for the longest story a property tells: insert, take over or
correct, delete or expire, insert again, and one more writer in between. Two days
let ranges overlap without being equal, two attempt times let two workers commit in
either order, and a third lets a deadline fall between them. Deadlock is not
checked: at the bound the writers stop, which the program never does. The
collector's refreshes of the history are bounded by their number (the clock, which
`MCService` keeps below `MaxTime`) instead; two are enough to read, be overtaken and
commit, for one to find what a daemon or a failed read left, and the three
transactions of each interleave freely. The theorems say the same of any number of
refreshes and processes.

*Current facts.* They are bounded by the number of reads (`MaxTick`). Two show what
one refresh leaves to the next, whichever of its transactions was refused or was its
last, with every answer of the source and every kind of card, cached or not. Two
that overlap and a third that runs alone behind them need three reads and show
without cards. One of them beside one refresh of the history shows that neither
disturbs the other's part of the ledger. `SourcesAgree` says nothing of refreshes that overlap: the balance of
one and the health of the other may be what remains, until the next one. Processes
of one kind are interchangeable (symmetry), as the run has no liveness property.

*Daemon.* Four changes are a page cut in the middle of a transaction, a crash behind
it and retention in front of the cursor.

*Service.* Two servers are enough for one to find what another left or is about to
use; three inodes are enough for a node in quarantine, a stale one and a fresh one.
Three connections at two slots reach the limit, overlap in their deadlines, and one
can end, expire and be aborted at once; the two units of time let two deadlines
differ. The helper can hold a pipe, leave the group or outlive the leader, the
stream can overflow, and every thread can be late.

*Gateway.* The cache has three requests of one conversation (the second and third
continue the first and share its prefixes), answers of size 1 and 2, a cap of 6
units that two large entries pass with their prefix rows, a life of 2, two hot
entries, one pending touch before they are written, and time to 2: every limit is
reached and every entry can be hot, stale, evicted and expired. Two calls suffice
for one that is answered from what another stored; four sequence numbers are
enough to reach the last one in the middle of a chunk. The telemetry has two
requests on two handles, one query that looks twice and one clear, and a clock to 3:
a window of 1, and marks and rows that last for 2, so that requests end in the window,
at its two ends and before it, the clock moves during a query, and marks and rows are
outdated. The circuit opens after two failures for an interval of 2, with times
to 5, which are two intervals and one more, and a time that is none. The accounts are two with one alias, two secrets, one pool and
revisions to 2: enough to reuse a name and to find a revision changed. The
connections are one of a Step Plan, with three entries, and a plain one, two
credentials, and one writer, since with two the property is false (`lost`).

*Plugin.* One decision and two outcome keys that name it are the smallest contest
of outcomes; the third key advises. Capacity 3 can be exhausted, the one unit of
time lets a record expire while its owner works, and two identifiers let a dead
owner's be reused. `residue` shows that the last is where the promise breaks;
`plugin` counts a residual record as residual only if its owner's identifier is not
in use.

Where parts share a run, a behaviour never leaves its part: they share no state,
and each explores its whole space. A property of a part is not vacuous in the run,
since a mutant of the code violates each of them under the same bounds.

**Fairness.** A consumer keeps polling and keeps persisting what it processed (weak
fairness of `ReadPage` and `SaveCursor`), which is what the API's documentation asks
of it; its crashes are bounded (`MaxCrashes`), since one that always crashes before
it persists does not advance. A refresh that runs ends, because its subprocess or its
requests have deadlines, and the daemon's loop goes on (weak fairness of `EndRefresh`
and `WaitAgain`); a woken thread that competes for a lock gets it in the long run
(strong fairness of `Resume`). A call of the plugin store takes its next step (weak
fairness of `Serve`, for each call), waiting included, which is bounded in the code.
The gateway's watchdog runs and each timer of the Local API fires, both of which
are threads that wait for nothing but the clock and a lock that is held briefly;
a listener that has begun to end takes its next step. `run_bounded` takes its next
step, its clock passes the deadline, and a process that was sent SIGKILL dies;
the child, its helpers and the threads at the pipes owe nothing, and neither do the
threads of a listener. Writers, consumers of streams, users and crashes owe nothing.

## Properties

Ledger:

- `LogReplaysTables`: a consumer of the whole log holds exactly the tables. It
  fails as soon as any transaction forgets, repeats or misorders a change.
- `RowsCarryLatestRevision`: revisions of a record rise in log order without gaps,
  across deletion and re-insertion (`RevisionsContinue`), and rows carry the last
  one.
- `RowsUnderCoverage`, `CostsUnderCoverage`, `CoverageBacked`: a row lies on a
  covered day and belongs to the source that covered it, its token convention is
  bound to it, and a covered day is backed by a success of its source at least as
  new. A covered day without rows is a claim of zero; these say that the claim is
  never made by accident.
- `NoOlderImport`, `NothingMovesBack` (for health and for observations): nothing a
  later attempt or observation wrote is replaced by an earlier one's, with the one
  exception the code makes for the catalog monitor, whose read and compare-and-swap
  are one step here.
- `DeadlineBacked`: no source counts as fresh beyond its last success.
- `HistoryKeepsUp`: every live quota value reached the history before it was
  published, and the history is never an hour behind the last observation.
- `HistoryIsWhole`: between the read that chooses a window and its commit anyone
  may have imported, failed or been killed; still no provider is left with a part
  of its year, except where one of two ways to leave one was taken, which `cut`
  records when it happens: a daemon imported its one day where there was nothing,
  or the read that looks for an earlier import failed and was taken for a yes.
  Those holes stay until a whole year is imported (see Findings).
- `ContractReimported`: days imported under an earlier contract do not survive the
  revision that replaces it, except where a daemon stored a new revision with no
  more than today (`cut` again). A failed read of the revision does no harm here,
  because it is taken for another contract.
- `NothingSkipped`, `EveryChangeIsRead`: the change feed delivers: a consumer has
  what the log says up to its cursor, whatever crashes, is the tables when it has
  caught up, and gets there.
- `ScheduledRefreshRuns`: the daemon's refresh neither sleeps through the end of
  the one it waits for nor is put off forever by the desktop's.

Service:

- `SourcesAgree`: a refresh of the current facts that ran alone leaves the fact and
  the health of its source telling the same (live and healthy, or stale and failed)
  and the card's quota no older and no livelier than the card, whatever refused,
  killed or overlapping refreshes left behind, and although fact and health are two
  transactions and each failure is swallowed. Excepted is a source whose adapter
  raises, which is what `masked` is about.
- `ServesUnderTheName`: as long as starts do not overlap, a server that serves has
  the name and will take away its own node and no other, whoever crashed at
  whatever step before it.
- `ListenerKeepsContract` (refinement, for both listeners): no more threads than
  slots, no refusal while there is a slot, no connection cut before its deadline or
  the end, no connection served once the listener is closed; every overdue
  connection is cut although watchdog and timers race with its end, and closing
  ends whichever handlers are slow.
- `CallIsBounded`: a call that succeeds has everything anybody wrote to the pipes,
  nothing of the group runs when it returns, and the group is signalled only while
  its identifier is its own; `CallEnds`: it returns although children and threads
  may hang.

Gateway:

- `MemoryMatchesTable`: the hot map holds nothing the table does not, and the
  touches that are not yet written are of entries that were used later.
- `ServesWhatIsStored` (refinement): every hit, hot, exact or by prefix, is what
  `CacheContract` allows at that moment.
- `EvictsLeastRecent`: what a store evicts was used before everything it keeps.
- `OneAnswer`: a call's events are numbered without a gap, start once and end in
  exactly one terminal event, all its output of one upstream (`OneSource`);
  `KeptAsTaken`: the cache holds only complete answers of the primary provider, and
  none of a call its consumer left; a record counts a call as a success exactly if
  its completed event was taken. Of a call that was left it asks no record: the code
  writes none (see Findings).
- `RateCountsAll`: a burn rate that is given counts every request of its window that
  was recorded by the time the rows were read, and none of the window was dropped by
  the time of the second look at the marks, which is later. A request whose row is
  committed between the two is in neither, as in the code; so is what a clear
  deleted or was told to forget (`forgotten`).
- `ProbesAreSpaced`: as long as no success closes a circuit, two probes are a whole
  interval apart, although times and reports come in any order.
- `CredentialsAgree`, `PoolsReferenceAccounts`: between commands configuration and
  keychain agree, and a pool never names an account that does not exist.

Plugins, connections, installation:

- `PromisesKept` (refinement): the store implements `PluginPromises`;
  `NeverTakenOver`: the record of a live owner is not completed by another;
  `OneTerminalOutcome`: all receipts of a decision agree on the first terminal
  outcome; `DecisionOutlivesAnswer`: a stored answer names a decision that is
  stored; `EveryCallAnswered`: every request is answered in the end.
- `ConnectionsAsPromised`: a connection nobody works on is what the last mutation
  that answered ok made it, whatever failed since, and has a credential if it has
  a row.
- `ExecutableSurvives`: an install that fails leaves the executable it found, and so
  does a removal, unless it fails at the empty directory, when service and executable
  are both gone. Between commands a service that is switched on has its executable,
  unless a command was killed, could not roll back, or the service manager did not
  take back what it had switched on (`faults`); after a kill or a failed rollback one
  still exists.

The remaining ones are violated, see Findings.

## Proofs

For every value of the constants:

| Theorem | Statement |
|---|---|
| `LedgerProofs!TypeCorrect` | `Spec => []TypeOK` |
| `LedgerProofs!LogReplays` | `Spec => []LogReplaysTables` |
| `LedgerProofs!RevisionsAreCarried` | `Spec => []RowsCarryLatestRevision`, of which `RevisionsContinue` is a part |
| `LedgerProofs!UsageIsCovered`, `UsageIsBacked`, `CostsAreBacked` | `Spec => []RowsUnderCoverage`, `[]CoverageBacked`, `[]CostsUnderCoverage` |
| `LedgerProofs!DeadlinesAreBacked` | `Spec => []DeadlineBacked` |
| `LedgerProofs!ImportsMoveForward`, `FactsMoveForward` | `Spec => NoOlderImport`, `Spec => NothingMovesBack` |
| `LedgerProofs!HistoryFollows` | `Spec => []HistoryKeepsUp` |
| `LedgerClientProofs!CollectorsKeepTheLedger` | `CollectorSpec => [](TypeOK /\ LogReplaysTables)` |
| `LedgerClientProofs!YearsStayWhole`, `RevisionSpeaksForTheYear` | `CollectorSpec => []HistoryIsWhole` and `CollectorSpec => []ContractReimported`, daemons and failed reads included |
| `LedgerClientProofs!SourcesKeepAgreeing` | `CurrentCollectorSpec => []SourcesAgree` |
| `LedgerClientProofs!ServiceRunsRefreshes` | `ServiceSpec => CurrentCollectorSpec` |
| `LedgerClientProofs!ServiceTyping`, `ServiceSourcesAgree` | `ServiceSpec => []ServiceTypeOK`, `ServiceSpec => []SourcesAgree` |
| `LedgerClientProofs!ServiceYearsStayWhole` | `ServiceSpec => [](HistoryIsWhole /\ ContractReimported)` |
| `LedgerClientProofs!ServiceKeepsTheLedger` | `ServiceSpec` implies every invariant and action property of the ledger above |
| `GatewayProofs!AccountsTyped`, `PoolsKeptWhole`, `CredentialsKept` | type correctness, `PoolsReferenceAccounts` and `CredentialsAgree` of `AccountSpec` |
| `GatewayProofs!ProbesKeepDistance` | `BreakerSpec => ProbesAreSpaced` |
| `ServiceProofs!ExecutableKept` | `InstallSpec => []ExecutableSurvives` |
| `GatewayProofs!ConnectionsKept` | `OneWriter` implies `ConnectionSpec => []ConnectionsAsPromised` |
| `GatewayProofs!RatesCountAll` | `TelemetrySpec => RateCountsAll` |
| `ServiceProofs!SocketTyping`, `ServersKeepTheName` | type correctness and `ServesUnderTheName` of `SocketSpec` |
| `ServiceProofs!CallTyping`, `CallBounded` | type correctness and `CallIsBounded` of `CallSpec` |
| `PluginProofs!PluginTypes`, `OwnersKeepTheirRows`, `FirstOutcomeWins`, `DecisionsOutlive` | type correctness, `NeverTakenOver`, `OneTerminalOutcome` and `DecisionOutlivesAnswer` of `PluginSpec` |
| `PluginProofs!StoreKeepsItsPromises` | `PluginSpec => PromisesKept`: the store implements `PluginPromises` |
| `AnswerProofs!MemoryKnowsTheTable`, `OldestGoesFirst` | `CacheSpec => []MemoryMatchesTable`, `CacheSpec => EvictsLeastRecent` |
| `AnswerProofs!CacheKeepsItsContract` | `CacheSpec => ServesWhatIsStored`: the cache implements `CacheContract` |
| `AnswerProofs!CallsGiveOneAnswer`, `AnswersAreKeptAsTaken` | `StreamSpec => []OneAnswer`, `StreamSpec => []KeptAsTaken` |
| `AnswerProofs!CacheKeepsItsLimits`, `CallsStayTyped` | `CacheSpec => []CacheTypeOK`, in which are the limits; `StreamSpec => []StreamTypeOK` |
| `GatewayProofs!ConnectionsStayTyped`, `TelemetryStaysTyped` | `ConnectionSpec => []ConnectionTypeOK`, for any number of writers; `TelemetrySpec => []TelemetryTypeOK` |
| `GatewayProofs!GatewayRunsItsParts` | `GatewaySpec` implies the specification of each of its parts |
| `GatewayProofs!GatewayTyping`, `GatewayIsSafe` | `GatewaySpec => []GatewayTypeOK`, `GatewaySpec => [](MemoryMatchesTable /\ OneAnswer /\ KeptAsTaken /\ CredentialsAgree /\ PoolsReferenceAccounts)` |
| `GatewayProofs!GatewayStepsAllowed` | `GatewaySpec` implies `EvictsLeastRecent`, `ServesWhatIsStored`, `RateCountsAll` and `ProbesAreSpaced` |
| `DaemonProofs!ReaderMissesNothing` | `ReaderSpec => []NothingSkipped` |
| `DaemonProofs!GatewayListenerAllowed`, `LocalListenerAllowed` | each listener implements the contract's initial states and steps |
| `DaemonProofs!DaemonTyping`, `DaemonIsSafe` | `DaemonSpec => []DaemonTypeOK`, `DaemonSpec => [](NothingSkipped /\ ExecutableSurvives /\ CallIsBounded)` |
| `DaemonProofs!DaemonListens` | `DaemonSpec` implements the initial states and steps of `ListenerContract` |

The assumptions are those the modules declare: the bounds are natural numbers,
there are finitely many record ids, which `Place` sorts without ties
(`RecordAssumption`), `None` is neither a row nor a time (`NoRowAssumption`,
`NoTimeAssumption`), the card and catalog sources import no daily facts
(`SourceAssumption`), and the values for "nothing" are no values
(`AccountAssumption`, `NowhereAssumption`, `ConnectionAssumption`, `SocketAssumption`,
`ProcessAssumption`), `"ok"` and `"stale"` are not faults (`FaultAssumption`), no row, promise or question of the plugin
is `None` (`PluginAssumption`, `NoneAssumption`), no row of the cache or of its contract is
`None`, its keys are finitely many (they are SHA-256 sums), its sizes, times and limits are numbers and a response is stored for some
time (`CacheAssumption`, `RowAssumption`), the heartbeat of
the history is not zero (`CurrentAssumption`), a call may have at least five events and
"no caller" does not call (`StreamAssumption`), a circuit's threshold and interval are
not zero and its times are numbers (`BreakerAssumption`), marks of the telemetry last as
long as its windows, rows as long as marks, and "nobody" is no mark (`TelemetryAssumption`), the sources of a collector are
distinct and its contract revisions are ones the store takes (`CollectorAssumption`), the
source of a provider is not the source of its card, which is not the catalog's
(`CurrentCollectorAssumption`), nor an importer of usage or costs (`ServiceAssumption`), and a listener has finitely
many clients and at least one slot (`ThreadsAssumption`). TLC evaluates
all of them on every run that has the module. `OneWriter` is a hypothesis of
`ConnectionsKept` and not an assumption: run `lost` shows what happens without it.

*The log.* `ChangeLogProofs` treats the log alone: `InOrder` lists each change
of a finite set exactly once (the changes of one transaction are totally ordered
by position and id), so a committed transaction gives the records it names the
payload of their change and leaves `Replayed` of every other record alone. This
needs that a transaction publishes at most one change per record, which is proved
of each operation. `LogReplaysTables` then is inductive with `TypeOK`: for each of
the operations the new row of every record is the payload of its change if it has
one and the old row otherwise; when the UNIQUE index rejects the transaction both
sides stay.

*Revisions.* The store takes the next revision of some changes from the log and of
others from the row they replace, and starts at 1 where there is no row. `CarryInv`
adds to `RowsCarryLatestRevision` that a snapshot in the history has been published.
The two ways agree: a row has the latest revision, and where the row is gone a
transaction that is accepted has a revision the log does not have yet while its
predecessor is there, which is the next one because revisions leave no gaps
(`FreshRevision`). So it is the UNIQUE index that keeps the revisions right behind
a deleted status; run `reinsert` shows its price.

*Daily facts and health.* `UsageInv` and `CostInv` add `HealthOrdered`: the last
success of a source is no later than its last attempt. A marker is no later than a
success of its source, so an import that would go behind the marker is behind the
last attempt too, where the fence stops it. `DeadlineBacked` needs that the catalog
monitor, the one writer that may replace a newer attempt, never sets a deadline
without a success.

*The history of quotas.* `HistoryKeepsUp` speaks of the log and of the rows; what
decides whether an observation needs a new entry is the history table, which
retention empties. `EntryPublished` says that what is in the table is in the log,
`EntryBehind` that it is no newer than the row of its quota. So an observation that
finds the table recent enough finds a published entry behind it (`SeenBefore`), and
one that does not publishes its own entry before the quota (`EntryTaken`, with
`CommitOrders` for the order within the transaction). All other writers are `Quiet`:
they publish no live quota.

*The reader.* `ReaderInv` says that for every record the replica holds the payload of
a change no earlier than the last one behind the cursor. A crash takes the cursor back
and not the replica, which is why it may be ahead; a page that is read anew applies
the same changes once more, ending with the last. At the high-water mark that is the
last change of the log, and `LogReplaysTables` says that it is what the table holds.
No writer takes anything from the log (`NextGrows`).

*The collectors.* A window is chosen in one step and committed in another, with
anybody's steps between them. `YearInv` says what the choice rests on: whatever stands
for an earlier import (a covered day, a billed day, a success of the official source)
stands for the whole year or was cut (`Stands`, `Billed`), and a process about to commit
a window shorter than the year is free to (a daemon, or one whose read failed: what it
cuts is put on record by its commit, `CutSays`) or has chosen it over a year that stands
(`Chosen`) and, for the importer, under the contract it will record. Both stay true under everybody's steps because days are
never taken away and the contract of a provider changes only to the installed one,
while an upgrade leaves no process with an old choice (`Onward`, `ChoicesStand`). A
refused or failed commit stands for no import (`FailureKeepsSuccess`), and retention
cuts off only what lies before the year (`RetainKeepsYear`).

*The current facts.* `SourcesAgree` speaks of a refresh that nobody overlapped, and
all it may rely on is what the others left. `AgreeInv` says that no row and no health
is ahead of the clock (`RowInTime`, `HealthInTime`), so a refresh that read the clock
last writes the newest of both, and that the store takes what it is given: health
whose row is gone has never been published (`Unpublished`), so a report is not refused
by the UNIQUE index (`HealthStore`), and neither is a mark (`MarksAccepted`). With that
the refresh nobody meets holds what it asked at the last tick (`Prompt`), and `Reached`
says at each of its places what it has done: the row is live before it reports success,
stale before it reports a failure, and from then on the two agree (`SourceSettled`);
the quota of the card is stored before the card's health (`CardStored`). Between its
steps anybody else may write the ledger (`Others`): imports of history, retention, the
catalog monitor, collectors of other providers. All that is asked of them is that they
leave the rows of this source and card as they are; that they then publish nothing of
their health either is shown of each operation (`OthersStore`), and the invariant reads
nothing else (`OwnRowsDecide`).

*The service.* The two kinds of refreshes meet in the ledger only, so each has to be
among the writers the other allows. To a refresh of the current facts a step of the
history is one of `Others` (`CollectorAmongOthers`): the store refuses it or takes it as
one of its own operations, and the balances, the quotas and the health they have are not
what it writes; so `ServiceSpec` implements `CurrentCollectorSpec`, and what is proved of
that holds (`ServiceRunsRefreshes`). The other way round, `RefreshElsewhere` shows that a
refresh of the current facts leaves days, contracts and the health of the official
importers alone, which is all `YearInv` reads (`YearAside`); of everybody else that is
what `Bystanders` says. That a refresh of the history is a step of the ledger's
specification needs that its windows lie in the calendar (`WindowsAreRanges`) and that
what it commits it was allowed to choose (`RefreshesKnow`); then each invariant of the
ledger is inductive here too (`LedgerStep`).

*Accounts.* Neither property is inductive: while a command is between its two
stores they disagree on purpose. `PoolInv` says what the running command has
checked (an account it removes is in no pool of the file it loaded, and nobody else
writes that file while it holds the lock); `CredentialInv` says, for each place a
command can stand at, what the keychain has of the account it works on and what
its compensation will put there, and that all other accounts agree.

*The circuit.* `ProbeInv` says that a circuit which has admitted a probe stays open
until a success closes it, since a time no earlier than the last probe once that
probe is over, and that the clock has not gone back since; a clock that does go back
makes the circuit distrust its times (`DistrustKeeps`) and wait anew.

*The telemetry.* The property is about one step, a query's answer, so the invariant
has to say what the step relies on (`TelemetryInv`): a recorded request is in the
table and a dropped one behind the mark, unless it was forgotten or is too old to be
asked for; what a query has counted is all that was recorded when it read
(`QueriesSee`). A mark is one time and one count for all the requests it stands for, and
two things take it away: a look that finds it outdated, harmless because queries read
their clock under the lock and never look ahead of it (`PruneKeeps`), and a clear,
harmless because the mark's count is that of the last mark made, so a clear that may
take it has seen every dropped request (`MarksAreCounted`). A clear that raises, its rows
deleted or not, takes no mark. That the clock does not
run further than the kept marks during one query is a guard of `ClockTick`.

*The executable.* `ExecutableSurvives` speaks of the moments between commands.
`InstallInv` adds what holds inside one: the executable it found is at the stable
path, in its backup, or was replaced by the new one while the backup is still there,
and a removal that has unlinked it has nothing more to undo (`FoundIsKept`); a service
it has not touched still has what it had, and one whose executable is being removed is
absent (`ServiceHasFound`).

*Connections.* The promise is broken on purpose between the first entry written and
the file saved. `ConnectionInv` compares every entry with the promise except those
`Held` by the running mutation: those it has written and not yet undone. Each step
either moves an entry into or out of what is held, or ends with nothing held. What
makes the undo right is `Runs`: the mutation still has the file and the entries as
it found them, which is where one writer is needed.

*The name.* While no two servers are ever on their way at once, `SocketInv` says that
at most one server is on its way (`OneOnItsWay`), what it found at the name
(`NobodyServes`), and that a server that serves has the node at the name
(`HasTheName`). A node is removed after it was compared, and nobody else is on the
way to put another one there.

*The call.* `CallInv` says where the process group can end (`GroupStops`, and its
identifier stays taken until the leader is waited for, `LeaderWaitedFor`), that
what was written is in a pipe, in a buffer or was cut off by a reader that says so
(`NothingLost`, `ReadersSay`), and that a success was judged after the readers ended
(`SuccessIsJudged`).

*The plugin.* `PluginInv` adds to the three invariants what rows and requests hold. A
stored receipt names the decision and outcome of its own payload, and every decision
named was minted while none beyond those exists (`MadeAdvice`, `MadeReceipt`), so a new
decision collides with no receipt, and an outcome that agrees with the decision's row
agrees with all receipts. No record expires later than a decision made now (`Shaped`).
A request in hand belongs to a service that runs (`Served`), so recovery, which spares
the rows of live processes, never takes an owner's row, whoever reuses an identifier.
The refinement maps each step: arrivals ask, claims and departures retire, recovery
abandons, completions settle the key with their effect on the decisions, and a waiter
that finds its answer is told; MutationRaises and the operating system's steps stutter.

*The cache.* `MemoryMatchesTable` is inductive with the types (`CacheInv`). The two
ways a step can hurt it each have a lemma: `HotStays` for the hot map (what is hot
was hot or has its row, and no unexpired row is dropped), `RolledBackHolds` for the
touches (those a failed transaction has dropped are taken out of the history of
uses too, those it kept are still pending). Eviction reads the times in the swept
table, which by the invariant are the last uses (`StoreParts`). For the refinement
every step but a store and a clear keeps each row it does not drop (`OthersKeep`,
`KeepsWithin`), so what decides is what a lookup answers: a hot entry is backed by
its row (`Backs`), a table hit is an unexpired row that the sweep left, and a hint's source
stays.

*The limits of the cache.* Bytes are told apart by the key whose they are (`BytesOf`,
`HotBytesOf`), so that a sum of sizes is the cardinality of a set and is bounded by that of
a larger one, without induction over data. `CacheLimits` adds to the limits that a key has one hot
entry at most, which is what makes the bytes of the hot map those of its entries, and
that every row has a touch for each of its prefixes. Only a store adds bytes to the
table, and it keeps a tail of the table that fits (`StoreFits`); every other step keeps
or drops rows and moves their touches (`FewerRowsFit`). The hot map is what is left of
one entry more once it fits (`RememberedFits`), and the touches, written when there are as
many as the limit, stay few (`TouchesStayFew`).

*The gateway's calls.* `OneAnswer` speaks of the events alone; what a step may add to
them depends on how far the call has come, and that is `Told`: a call that is not live
says nothing before its end, a live one on its way has as many events as its sequence
number says, none of them terminal, and no output its parser has not observed
(`OnItsWay`), and an answered one has had its result as its last event (`CallEnded`).
`OneMoreEvent` is the heart: an event with the next number may follow if nothing before
it ended the answer, and a fallback if nothing before it was output. So the check for
observed output before a fallback is what keeps two providers apart, and room for one
more event before a fallback is what leaves a number for the terminal event.
`WholeAnswer` shows the same of `gateway_events`. `KeptAsTaken` adds that the call whose
answer is stored has nothing left to take (`KeptAnswer`).

*Connections and telemetry, their types.* What a mutation still has to write or undo
is among the parts it was asked to write, and while it writes or undoes there is some
left (`Sound`), for any number of writers. Only the promise needs `OneWriter`, since a
mutation saves the list it loaded; that mutations of one writer preserve the other
connections is no theorem, because the property is about the writer in between. The locks of the telemetry
are held by calls, and a mark carries a count that was given out (`TelemetryShape`).

*The gateway.* Its parts have no variable in common, so a step of one is a stutter of
the others and the gateway implements the specification of each
(`GatewayRunsItsParts`). What was proved of a part alone then holds of the whole.

*The listeners.* The contract's steps are those of `ListenerContract`. Each slot is
held by exactly the connections that have one (`SlotsAreHeld`), a connection stays
open until it is done or cut (`OpenUntilDone`), and the end waits for all that are
left (`EndKnowsAll`). What makes every cut one the contract allows is, for the
Gateway, that the watchdog sleeps no longer than to the earliest deadline
(`WatchdogIsRight`), and for the Local API that a timer belongs to its connection
(`TimersAreRight`).

*The daemon.* Its parts share no variable (`PartsApart`), so the daemon keeps what each
part keeps. `ListenerInv` holds one of the two listeners' invariants, that of the kind
the threads belong to; the slots are counted (`SlotsBounded`), and the clocks and the
crashes stop where the model stops them.

Only model-checked: everything temporal (`EveryChangeIsRead`,
`ScheduledRefreshRuns`, `EveryCallAnswered`, `CallEnds` and the fairness of the
listeners' contract), since liveness is out of the prover's reach.

## Findings

- **A deleted source status can never be recorded again** (run `reinsert`).
  `_publish_source_status_change_locked` restarts the revision at 1 when there is
  no row (`activity_store.py:1899`), `delete_source_status` has published higher
  ones, and the UNIQUE index of the log rejects the repeated pair. The transaction
  is rolled back, and the callers in `daily_history.py` swallow the exception: a
  card whose quota disappears once and comes back never shows its health again.
  All other deletable records continue their revisions with
  `_next_revision_locked`.
- **Backfills do not happen behind the daemon** (run `backfill`).
  `RefreshCoordinator` says that "historical backfills remain available through
  the dedicated CLI fresh workflow" (`local_api.py:124`), but the daemon's refresh
  of today records the success and the contract revision that make every later
  refresh, `--fresh` included, ask for seven days only (`daily_history.py:961-986`).
- **A fallback can replace newer official days** (run `takeover`).
  `CHANGELOG.md:310` says that OpenUsage is taken only when the official source
  fails. The fence of an import looks at the same source only, so the fallback of a
  process whose own official attempt failed overwrites what another process
  imported officially in the meantime.
- **A residual record may stay in flight** (run `residue`).
  `docs/api/plugin-api-v1.md:77` says that a crashed process's residual record
  becomes a stable 503. The recovery completes only records whose owner's process
  identifier is not in use, and the next service, or any other program, may have
  been given it.
- **A balance that cannot be read stays live** (run `masked`).
  `docs/provider-authoritative-sources.md:85` says that the last good balance is
  marked stale when the official source fails. An adapter that raises (Moonshot's
  reads its key before its `try`, `moonshot.py:104`, and the keychain may raise) is
  passed over by the aggregator (`aggregator.py:153`) and keeps the result it had, so
  the collector records the earlier success once more, with a new time.
- **Two mutations lose one of their connections** (run `lost`). Every mutation
  loads the whole list of connections, waits for the keychain and saves the whole
  list, without a lock (`ui.py:743`); of two processes, both answer ok and the one
  that saves last drops the other's row, whose credential stays behind.
- **A live socket can be replaced** (run `clobber`). `docs/api/local-api-v1.md:284`
  says that a live socket is never replaced. A server that starts takes a socket
  that refuses connections for stale (`local_api.py:2450`); one that another server
  has bound and not yet made listen refuses too, and keeps its inode while it
  begins to listen, so the comparison before the removal does not help. The other
  server then listens under no name, fails, or removes the next one's node when it
  ends.

Seen on the way, allowed by the modules and claimed by no property:

- A refresh whose read of an earlier success fails takes it for a yes and asks for
  seven days (`daily_history.py:960-965`, `601-604` for costs). If there was no earlier
  import, its commit records a success over seven days of a year nobody asks for again.
- The daemon's import of one day stores a new contract revision
  (`daily_history.py:1014-1023`), so the days before it stay as the old contract had
  them, under a revision that says otherwise.
- `docs/api/gateway-response-v1.md:257` says that a client abort is "recorded as
  `interrupted`". Telemetry is written behind the terminal event the runtime yields
  (`runtime.py:312-420`), and an abandoned generator is closed before it, so nothing
  is recorded. No run checks it.
- A removal may fail when service and executable are already gone
  (`managed_collector.py:592`), since nothing is put back. A first install whose
  directory cannot be opened again, with a service manager that does not take the
  service back (`managed_collector.py:523-528`), leaves a service that is switched on
  without an executable.
- `clear` may delete the rows and raise, because what follows its commit may
  (`telemetry.py:498`, `613`); the marks then stay, and rates are refused until they
  are outdated.

Seen on the way and not modelled: `LazyRefresher` has no `refresh_current`
(`collector_cli.py:70-95`), so a refresh of the desktop in the daemon is a full one
with a window of zero days (`local_api.py:207`). `docs/api/gateway-response-v1.md:260` says
that a deadline or size limit produces `uncertain`, but the limits of the provider
stream raise the error that ends a stream as interrupted (`runtime.py:301`).

## Plan

Done: the ledger with its change feed and the collector of history and current facts; the coordinator; the
plugin store as a refinement of its promises; the gateway's cache as a refinement
of its contract, its calls, telemetry, circuit breaker and accounts; provider connections; the
installed collector; the socket's name, both listeners as refinements of their
contract, and the calls of child processes; the theorems above.

Left, in this order:

1. The catalog monitor with its read and its compare-and-swap as separate steps, and
   the merging of cards; the change of days, after which a refresh missed for more
   than a week leaves a hole.
2. The health window, the selector and pool selection once an entry point
   configures them; today only tests do.

## Not modelled

Parsers of provider output, HTTP plumbing, redaction, file permissions, the user
interfaces and the release tooling under `scripts/`: they keep no state that several
actors share, or their state lives in the operating system, and what they do wrong
a unit test sees. They are most of the source's lines, which is why the modules map
a small share of them. `PROJECT.json` gives the reason per component.
