# A verification of catalog-api

TLA+ models of the parts of catalog-api whose correctness depends on the order in
which things happen, the TLC configurations that check them on small instances, and
TLAPS proofs of the main results for every instance.

The service (`src/api`) is a FastAPI application on one asyncio event loop per
process, possibly several processes (replicas), over PostgreSQL (durable state, mostly
autocommit statements), Neo4j (the music graph), Valkey (locks, challenges, caches,
markers; bounded memory, so writes may be rejected) and the Discogs API. Between two
`await`s a handler runs undisturbed; at every `await` anything else may run, fail or
never return. That is the granularity of all models here.

## Inventory

| Component | State it keeps | Operations | What is hard | What makes it correct |
|---|---|---|---|---|
| Merge and revert of native ids (`catalog_merge.py`) | `catalog_item_supersessions`, the `catalog_item_moves` ledger, `item_id` of copies and artifacts, `gm_item_id` caches | `merge_items`, `revert_supersession` inside a caller's transaction | lock order, inserts against an item being retired, chains that are compressed and re-opened, re-runs, loaders that resolved before a merge and write after it | one-hop resolution, possible and exact reverts, no dependent left behind, no deadlock |
| Sync admission (`routers/sync.py`, `syncer._run_full_sync`, start and stop in `api.py`) | Valkey lock and cooldown, the process-local `_running_syncs`, `sync_history` | `POST /api/sync`, the task's end, shutdown, crash, start-up reconciliation | check, INSERT and create_task are separated by awaits; TTLs; crashes at any step | one sync per user, lock released, every row settled, outcomes final |
| Collection and wantlist sync (`syncer.py`) | collection and wantlist rows, Neo4j edges, events, snapshots | page fetch, persist, emit, graph write, sweep, snapshot | the list changes between pages; any step may fail and earlier ones are durable | a clean run mirrors Discogs; the sweep deletes only what is gone; events follow rows |
| Two-factor authentication (`routers/auth.py`) | five `totp_*` columns, challenges in Valkey | login (second half), setup, confirm, verify, recovery, disable | reads and guarded or unguarded writes of concurrent requests; two clocks | no lockout, exact attempt limit, one token per challenge, one redemption per code |
| Sessions and app tokens (`routers/auth.py`, `auth.py`, `dependencies.py`, `app_tokens.py`) | password, `password_changed` marker, revoked jtis, reset tokens, app token rows | register, login, logout, change, reset, mint, revoke, validate | the marker in Valkey against the password in PostgreSQL; whole seconds; lost answers | a token from before a change stops working, a reset is used once, a logout is final |
| Discogs link (`api.py`, `services/discogs.py`) | OAuth states in Valkey, the stored connection, app credentials | authorize, verify, revoke, set-up | two flows, one state; the exchange is an await; states of an older version | credentials belong to who started the flow |
| Re-attachment (`reattach.py`) and its trigger (`reattach_trigger.py`) | MusicBrainz rows and aliases, supersessions, audit marker | paged runs, a transaction per row; once per extraction under an advisory lock | loaders between the page and the row, guards, two runs, a crash before the marker | only a row's own link moves it, splits heal, no run lost or doubled |
| Identity ledger (`ledger_refresh.py`, `ledger_backfill.py`, `identity_ledger.py`, `projection.py`) | materialised views, watermark, backfilled events, `gm_id` in the graph | poll, refresh, backfill, read as of a time, project | stale watermarks, overlapping jobs, histories of moves | what is told is what happened; nothing is hidden for ever |
| Valkey housekeeping (`import_cache.py`, `snapshot_store.py`, `valkey_keys.py`, `valkey_routing.py`) | caches with TTLs, markers, counters, old and new key names | invalidate, save, migrate, fall back | counters and contents with different TTLs, fills that cross a sweep, old replicas | caps, freshness, a revocation that outlives the upgrade |
| Builds (`genre_tree_store.py`, `explore_discovery.py`, `routers/insights_compute.py`) | build locks, snapshots in memory and Valkey, kept stages | build, publish, adopt, enrich | locks that lapse or are deleted by another, scans that are not one transaction, requests that overlap | what is published is current; every replica catches up |
| Extraction tracking and analysis (`routers/admin.py`, `routers/extraction_analysis.py`) | extraction rows, tracker tasks, memos and tasks in flight | trigger, poll, settle; single-flight scans | an overloaded status of another service, restart, joined and failed tasks | no phantom success, every row and reader settles, one scan per window |
| Activity, consent, erasure (`activity.py`, `routers/activity.py`, `routers/observations.py`) | events, impressions, consents, subjects, per-user keys | record, observe, consent, erase in three stores | an erasure racing a recorder, a store that is down | a complete erasure is true; rows follow consent |
| Recommendations and fit (`routers/recommend.py`, `routers/fit.py`, `fit.py`) | answer caches, input caches, impressions | answer, stamp, sweep after a sync | cached answers stamped for another viewer or policy, late fills | own data, bounded age, true impressions, evidence that is on the shelf |
| Catalog reads (`strata.py`, `queries/neo4j_queries.py`, `queries/search_queries.py`, `queries/rarity_queries.py`, `rarity/`) | search slots, caches, stored rarity rows, verdicts | fold, expand, page, search, score, run | ties, budgets, pages over changing data, gathered statements | pages add up, a run misses nothing, slots come back, one scale |
| Natural-language queries (`nlq/`, `routers/nlq.py`) | shared answer cache, streams | tool loop, cache, stream | a shared key, disconnects, an external model | answers are the asker's, streams are well formed |
| Taste vectors, similarity, evaluation, other reads, models, telemetry | none of their own | reads | floating point | - |

`PROJECT.json` lists every component with its status and every hazard at its line.

## Modules

| Module | Models |
|---|---|
| `CatalogMerge` | merges, reverts and foreign-key inserts as transactions: a start time, row locks taken one at a time, a commit that re-checks under the locks, or a rollback; and the loaders and sync pages that resolve an alias in one step and write the cached id in a later one |
| `SyncLifecycle` | the abstract promise of the sync endpoints: rows, the sync at work, outcomes |
| `SyncAdmission` | `trigger_sync`, `_start_sync`, `_set_cooldown`, the shell of `_run_full_sync`, `_stop_service`, crash, boot and `reconcile_stale_sync_history`; implements `SyncLifecycle` |
| `SyncRun` | `sync_collection` and `sync_wantlist` (the variable `list` says which) against a list edited on Discogs |
| `TwoFactor` | the 2FA endpoints, each split at its awaits |
| `LedgerRefresh` | `poll_once`, `refresh_ledger`, the change tracker and `refresh_reason` on several replicas, with their transactions and the advisory lock |
| `ReattachTrigger` | `run_pending` on several replicas; extends `LedgerRefresh`, whose inline refresh each run makes |
| `Sessions` | passwords, access and challenge tokens, the marker, resets, app tokens, and every validation of them |
| `DiscogsLink` | the OAuth 1.0a flow, its state, the stored connection and the app credentials |
| `Activity` | consent, events, observations, and the erasure of three stores through the strict client |
| `LegacyKeys` | cutover, deny window and migration of old Valkey names beside old replicas |
| `ImportCaches` | the import watch and the requests that fill the caches around it |
| `SnapshotStore` | `save` against its counter, its TTLs and failing commands |
| `Recommendations` | similar, explore and fit answers, their caches and impressions, sweeps after a sync |
| `Nlq` | the bounded tool loop, the anonymous cache and the event stream |
| `Strata`, `ExploreReads`, `Search` | the budgeted fold with focus and pages; expansion pages and counts; slots, gathered statements and union pages |
| `RarityRun`, `RarityScore` | the two-pass catalog run and what readers see of it; signals, weights and tiers in integer arithmetic |
| `CrateFit` | `fold_collection` and the five components of a fit profile, in integer arithmetic |
| `IdentityReads` | ledger states and events as of any time over every short history of writes; the keyset projection |
| `LedgerBackfill`, `ExploreHubs`, `CommunityCounts` | the backfill jobs, the hub builds, the enrichment requests |
| `GenreTree`, `ExtractionTracking`, `Reattach`, `ExtractionAnalysis` | the background work whose end matters |
| `MC...` | instances for TLC; `MCAccount` holds `TwoFactor` and `SyncRun`, `MCReattachTrigger` the ledger's refreshes and the runs that trigger them, `MCService`, `MCCatalog` and `MCProgress` several components each |
| `CatalogMergeProofs`, `SyncAdmissionProofs`, `SyncRunProofs`, `TwoFactorProofs`, `LedgerProofs`, `ServiceProofs`, `CatalogProofs`, `ProgressProofs` | the theorems; `LedgerProofs` holds those about `LedgerRefresh` and `ReattachTrigger`, the last three those about the components of `MCService`, `MCCatalog` and `MCProgress` |

**How state corresponds.** `CatalogMerge`: a supersession row is a record; PostgreSQL's
`now()` is the transaction's start number, so `valid_from`/`valid_to` matches work as in
the SQL, and a row's id is `<<superseded, valid_from>>`. The callers' alias steps, which
run in the same transaction, are an arbitrary subset of the item's aliases. `Txn.locked`
and `LockConflict` are PostgreSQL's row locks (`UPDATE`, `NO KEY UPDATE`, `KEY SHARE`).
`origin` and `classes` are history. `gm_item_id` is the cached id of an entity, collection
or wantlist row, `AliasOf` the alias it is resolved through, `pending` what a writer has
resolved and not written yet; `reverted` is history. `SyncAdmission`: `req[r].pc` is the await a request
is at; losing an answer is modelled as the write happening without it. The done-callback
is part of a task's last step. `SyncRun`: a stamp is the number of the run
(`sync_started`); both stores are stamped with it. `known` is the list the recorded
events describe, `lost` the entries whose event was dropped; `steady`, `changed` and
`shrunk` record what happened on Discogs during the run. `TwoFactor`: a secret is the
number of the setup that generated it and a recovery code is `<<setup, code>>`. The
transaction of `twofa_verify` holds the row lock from its `SELECT ... FOR UPDATE`, so it
is one step; its `BEGIN`, which fixes `NOW()`, is another (`VerifyTxn`).
`LedgerRefresh`: the sources are the number of writes committed to them, the views
(`shown`) the number of writes they show, the statistics (`counted`) the sum
`pg_stat_user_tables` has, which lags behind and may be reset. `still` and `old` stand
for the two durations `refresh_reason` compares. `ReattachTrigger`: an extraction is
its place in the `created_at` order; `audit` holds the entries of the automatic runs,
with two history fields, the writes there were when the run returned (`upto`) and whether
its refresh worked (`fresh`). `holder` is the session-level lock: it is lost with its
connection, and the run goes on without it. An idle poll changes nothing, so `run_pending`
without a pending extraction is a stuttering step.

`Sessions`: a password is the number of the change that set it, a token carries its jti,
its `iat` in whole seconds and, as history, the password it was obtained with; the marker
is the second it names. `Activity`: a subject is a number, a row carries the purposes that
were snapshotted; a client of a store that is down answers a miss or raises, by kind.
`LegacyKeys`: revocations exist under the old or the new name, replicas run the old or the
new code. `Recommendations`: a body records whom it was computed for, by what and when its
input was read. `Nlq`: the model's answers are choices out of `ModelCalls`. `RarityScore`
keeps a score as its weighted sum and its total weight, so nothing is rounded; `CrateFit`
counts in ten-thousandths, the precision the code rounds to. `IdentityReads`: time
is the number of the transaction, `happened` and `recorded` are history. `GenreTree`: the
graph's counts are a version, a tree is the oldest version it was scanned at.
`ExtractionTracking`: a count is the number of the extractor's run it belongs to.
`Reattach`: a merge is the one-hop resolution it leaves (the moves are in `CatalogMerge`).
`ExtractionAnalysis`: a task and its readers are scheduled separately, as on the event loop.

## Runs

| Run | Result | Bounds |
|---|---|---|
| `merge_history` | `RevertNeverStuck`, `DependentsFollow`, `RevertRestoresClass` hold | three releases (a chain of two merges and a re-merge), one artist (the kind check), one copy, one session, five merges or reverts: enough for merge, compress, re-run, revert, merge again |
| `merge_concurrency` | `OneHop`, `NoWaitCycle`, `NoDependentLeftBehind`, `CachesFollowAliases` hold | two sessions, three items, one copy, one cached row with its alias, one barcode, three merges or reverts: two overlapping pairs, an insert, and a writer that resolves before any of them and writes after it |
| `merge_exact_reversal` | `ExactReversal` fails | as `merge_history` |
| `sync_admission` | `ImplementsLifecycle`, `LiveSyncIsRegistered`, `NothingStaysStranded` hold | one replica, two requests, three syncs, two crashes or stops |
| `sync_page_shift` | `SweepSparesHeld` fails | as the sync of `account` |
| `account` | `NoPermanentLockout`, `OneTokenPerChallenge`, `CodeRedeemedOnce`, `LiveSecretIsKept`, `CompletedRunMirrors`, `EventsFollowRows`, `AdditionsAreSafe` hold | second factor: two requests, two challenges, two codes, two setups, threshold 3 and room for one overshoot; sync: three entries on pages of one (so every entry crosses a page boundary), one without a Release node, two runs |
| `reattach_trigger` | `StoredIsShown`, `PolledLedgerCatchesUp`, `OneCompletedRun`, `HandledRunIsShown`, `NewestIsHandled` hold | refreshes: two polling replicas, one of them also refreshing inline (three transactions), one write that may fall anywhere, one failure or crash, one statistics reset; runs: two replicas, two extractions, one write, one failure of any kind, and the poll off, as by default |
| `erasure_consent` | `ErasureImpliesRevocation` fails | as the activity of `service` |
| `search_pages` | `PagesAreConsistent` fails | as the search of `catalog` |
| `service` | `SessionsEnd`, `ConsentAndErasure`, `ViewersSeeTheirOwn`, `ImpressionsTellTheTruth`, `CachesAreBounded`, `RevocationSurvivesUpgrade`, `StreamIsWellFormed`, `AppTokensFollowPassword` hold | below |
| `catalog` | `PagedReadsAreExact`, `SearchLeavesNothingRunning`, `ScoresSpeakForTheirInputs`, `LedgerReadsAreTrue`, `BuildsAreCurrent`, `AbundanceNeverRaises` hold | below |
| `progress` | `BuildsAndScansAreSafe`, `AnalysisAddsUp`, `MovesFollowOwnLink`, `BackgroundWorkSettles` hold | below |

**Runs over several components.** `MCAccount`, `MCReattachTrigger`, `MCService`, `MCCatalog`
and `MCProgress` each hold components that share no state with one another (the refreshes
of `MCReattachTrigger` do, and its two parts differ in who calls them). The variable `part` is chosen initially
and says which of them a behaviour runs; the others keep their initial values. TLC so
explores the union of the components' state spaces and not their product, and a property
of the last three is the conjunction, part by part, of the properties the component
modules state (`SessionsEnd` is `StaleSessionsEnd`, `LogoutIsFinal` and
`ResetChangesOnce`, and so on). Setting `Parts` to one name checks one component.

`service`: two requests against two tokens, two changes or resets and one tick of the
clock (`MaxTime = 1` is enough, since every second of a token's life looks like its
first: the moment that matters is a key that has expired while a token still decodes, and
`Expire = 1` brings it within the tick); two erasures or recordings on two replicas with
up to two stores down at once; two askers of the same question, one of them signed in;
two upgraded replicas beside old ones for four ticks, a token life of two and a configured
window shorter than it; three saves by one user against a cap of one over two lives of the
counter; two cache keys, one import and one filler; one caller at a time over two
collectors, with a sync, a failed sweep and a clock that passes both TTLs; two users, two
flows, each begun by this version or by an older one, and one Discogs account. `catalog`: the catalogs, tables and media of `MCCatalog`
are chosen so that rows tie by year and by name, by score, and, across two types, by rank
and id together, a page ends inside a tie, a budget is exceeded by one, a medium has no
family and a count stands at a threshold; two clients for a pool of three connections; two
rarity runs over four releases in passes of two; four transactions on the ledger; two
replicas building a hub of two stages, whose third version has the release count of the
first again; two backfill jobs; two enrichment requests that may overlap, over two days,
in batches of two. `progress`: two replicas, one genre, a
change of the counts and one fault of any kind; one tracked extraction with three polls
and two runs of the extractor besides; two MusicBrainz rows, two Discogs ids, two items,
three messages, two runs that page by one; two administrators asking twice, for the parsing
errors of one version or the comparison of two, over four lines recorded before and one
written meanwhile: the versions differ, one line is a warning whose record cannot be read,
and a list of three in pages of two leaves the last page partly filled.

Deadlock is checked in `sync_admission` and `account` (there of the second factor: a list may
be left alone for ever); the other runs stop when their bound on runs, transactions,
messages or time is used up. In
`CatalogMerge` deadlock of transactions is `NoWaitCycle`. Requests and challenges are
interchangeable in `TwoFactor`, and so are the requests of `Sessions` in `service`, the
sessions of `merge_concurrency`, the enrichment requests and the replicas of `catalog`,
hence the symmetry; it is not used with a liveness property.

**Refinement.** `SyncLifecycle` says what a user is promised with two variables: the rows
and the sync at work. `SyncAdmission` implements it with `rows <- status` and
`active <- AtWork`, the sync whose task is live. `ImplementsLifecycle` thus says at once
that a second sync never begins beside another, that no row is failed under a live sync,
that an outcome is written once. `SyncLifecycle` states its safety (`Safety`) and its
liveness (`Ends`, a sync that began ends) apart: the first is a theorem (below), the second
is part of `NothingStaysStranded`.

**What the four violations say.**

1. A merge run again on a row that was compressed since ledgers its moves under the
   compressed row; reverting the compressing merge leaves those dependents on the
   far survivor. `DependentsFollow` shows this is the only way a copy can stray.
2. A removal on Discogs between two page requests makes the sweep delete a held entry;
   `AdditionsAreSafe` shows that additions alone never do.
3. An erasure leaves the account's consent grants standing, although
   `routers/activity.py:662` and `docs/identity-and-activity.md:336` say that erasure implies
   their revocation. `ConsentAndErasure` claims the rest: what an erasure answered as complete
   has deleted from the three stores.
4. An artist and a label with one id and one rank tie on the whole sort key of a search
   (`search_queries.py:455`; ids are unique within a type), so two executions may put them
   in different orders and the pages repeat one and skip the other. `PagedReadsAreExact`
   claims what is left: only matches are shown, as many as the total says, and each tie
   class keeps its places, so that nothing outside it is repeated or skipped.

## Observations

Places where a comment or a docstring says more than the code does, met while modelling.
The ones with a name are stated in the module named, and TLC refutes them when they are
added to its configuration; they are not part of the runs.

- `SyncAdmission.AtMostOneSync` fails with two processes, or with `LockMayLapse = TRUE`:
  `_running_syncs` is a table of one process and the lock is gone once the task exists
  (`routers/sync.py:115` says the guard "still prevents a duplicate sync"). The run sets
  one process and assumes a request is served within the lock's 30 s.
- `TwoFactor.DisableNeedsCurrentCode`: `twofa_disable` checks the code against the secret
  it read and clears the one it finds (`routers/auth.py:885`). Its UPDATE is guarded on
  the user id alone, where `twofa_confirm` guards on the secret.
- `TwoFactor.FreshWindow` (proved) has an exception: the gate of `twofa_verify` reads the
  clock, its UPDATE the transaction's earlier `NOW()`, so a lock that runs out between the
  two is renewed at the threshold plus one.
- A loader or a sync page resolves an alias and writes the cached `gm_item_id` later
  (`reattach.py:86`, `tests/test_reattach_integration.py:350`): a merge in between leaves
  the row with the retired id. `CachesFollowAliases` says that this late write is the only
  way a cache goes stale, and that until something is reverted the stale id still resolves
  to the item of its alias; after a revert it may not.
- `StartedBy` lets anybody complete a flow whose stored state is a bare secret
  (`api.py:758`), as an older version wrote it; `ConnectionsAreOwn` says so.
- Two enrichment requests may overlap (`routers/insights_compute.py:435`), and the older
  counts may come last, in PostgreSQL or in the graph alone; the node and the row then
  differ until the row is stale and one request alone renews it (`adrift`).
- A hub's stages are reused by equality of release counts (`explore_discovery.py:380`), so
  a hub whose releases changed and came back to an earlier count is published with the rows
  of that time; `HubRowsAreCurrent` claims rows no older than the first version that had
  the count.
- `LedgerRefresh.ResetIsSafe`: after a reset of the statistics the sum can equal the stored
  one again (`ledger_refresh.py:28`), and the poll waits for a further write. It takes
  small counters, or a crash before the last counts were flushed.
- `LedgerRefresh.NoIdleRefresh` holds with one exception: a poll re-reads the stored
  watermark under the lock but not the sum, so a refresh may be repeated and store the
  older one.
- `IdentityReads.MovesAreNotEvidence`: a second re-attachment run over the same pair moves
  a late alias at an instant that is not the supersession's, and the ledger then tells an
  `alias_closed` and an attachment, although `identity_ledger.py:51` says that no writer
  closes an alias outside a supersession. Found with `MaxTx = 6`, beyond the run's bound.
- `ImportCaches.FirstMarkIsClean`: the first mark deletes nothing "since an empty cache has
  nothing stale in it" (`import_cache.py:13`), but requests may have filled the cache
  before the first poll.
- `Recommendations.FitIsNoOlderThanItsInput`: a fit body is cached for its own TTL from an
  input that may be as old as the same TTL, so it lives up to twice as long
  (`routers/fit.py:60`).
- `Search.ReserveIsKept`: the look-up of native ids takes a connection outside the slots,
  so searches can use the reserve.
- `CrateFit.FoldIsDeterministic`: which title a fold keeps depends on the order of rows.
- `_RELEASE_CONTEXT_CYPHER` does not reject the Discogs master id 0, which
  `rarity/families/grooved.py` says to; the audit list pages by `created_at` without a
  tie-break; a stream that is disconnected reports no outcome, although the docstring says
  every path does; an erasure revokes only the caller's token, and the `_subjects` caches
  of other replicas keep the erased subject until they restart.
- A snapshot counter that expires allows up to twice the cap, and more: a request that
  went over the cap before the lapse gives its slot back to the next counter
  (`snapshot_store.py:153`), which starts below zero and admits one more. "At most twice
  the cap" fails with six saves against a cap of one; `LiveWithinTwiceCap` adds one for
  every such request (`outlived`). Found in an attempt to prove it.

## Fairness

In `SyncAdmission` an admitted request, a started task, a boot and an exit proceed (the
event loop and a supervisor run them), and a TTL runs out. In `LedgerRefresh` and
`ReattachTrigger` both loops go on for ever (`while True`), their statements return,
committed writes are counted in the end, a transaction that waits for the advisory lock
gets it (PostgreSQL grants a released lock to its waiters, hence strong fairness), and a
watermark that no longer moves is eventually seen to have held still (the quiet interval
is finite). In `MCProgress` the refresh loop of a replica goes on and a lock with a TTL
lapses; a tracker's task goes on while its process lives (a crash ends it, and
`TrackedRowSettles` excludes what it leaves); re-attachment runs are started again and go
on, and a message that was resolved is upserted; the event loop runs what is scheduled of
a scan. Clients, writers, loaders and the extractor need not do anything, and failures are
never forced.

## Proofs

The argument has the same shape everywhere: an inductive invariant, checked by TLC on a
small instance first, one lemma per action that it is kept, and the property from it.
`Spec => []Inv` then holds for every value of the constants that the `ASSUME`s admit.

`CatalogMergeProofs`. `OneHop` is not inductive: that a revert re-opens rows without
creating a second hop depends on which rows were closed when. `ChainInv` adds that stamps
are unique per superseded item and never exceed `now`, that every open compressed row has
exactly one closed predecessor (same superseded item, survivor equal to the via item,
`valid_to` equal to its `valid_from`), that its via row is open, and what a waiting
transaction holds. From it: `TypeCorrect`, `ResolutionIsOneHop`, `RevertFindsPredecessors`
and, with `CacheInv`, `CachesAgree`: an alias moves only in a commit that recomputes the
caches of both items, and what a row caches, or a writer has resolved and not yet written,
resolves to the item of its alias until something is reverted. `HistoryInv` adds where each copy is, under which row
its moves are ledgered and which items resolved to a superseded one when it was merged;
`CopiesFollow` and `ReversalIsExact` (an action property) follow. `NothingLeftBehind` (an
action property) and `MergesDoNotDeadlock` come from `LocksInv`, what each transaction has
locked and next asks for: a transaction that waits has locked only smaller items than the
one it waits for, so in a finite set one waits for none. That one assumes
`IsFiniteSet(Txns)`; an endless chain of waiters is no deadlock.

`SyncAdmissionProofs`. `TableInv` says that the lock keeps requests past `SET NX` apart, that
between the look at the table and `create_task` the table stays empty, and that the row a
request inserted is its own; `WorkInv`, for the refinement, adds when rows are open.
`AdmissionTypes` needs nothing else. `LiveIsRegistered` assumes `LockMayLapse = FALSE`, a
request that ends within its lock's 30 s, for any number of processes.
`AdmissionImplementsLifecycle` assumes `OneProcess` besides: the service starts one uvicorn
process (`api.py:922`), so this is a deployment of one replica. Under these it maps every request, task, stop, crash and boot to a step
of `SyncLifecycle` or to a stutter. With either assumption dropped the statement is false,
which the first observation above describes. `LockMayLapse` and `Procs` are what the
run sets too, so that the theorem and the run say the same.

`SyncRunProofs`. `RunInv` says that an entry in the list throughout (`steady`) and on a page
already read carries the run's stamp, and, until a removal, that additions only move
entries to pages still to be read; and what of a page is durable in which store at every
step. From it `RunMirrors` and `AdditionsDoNotSweep` (an action property); `EventsAddUp`
and `SyncRunTypes` are inductive nearly as they stand. Any list, page size, retries and
number of runs.

`TwoFactorProofs`. The invariant adds what each request carries, that a challenge being
stored is unissued and stored by one request, that exactly one request stands between a
challenge's consumption and its token, that a stored or future recovery code is
unredeemed, and that a lock which ran out under an open transaction left room below
`MaxAttempts`. From it type correctness, `NoPermanentLockout`, `LockAtThreshold`,
`OneTokenPerChallenge`, `CodeRedeemedOnce`, `LiveSecretIsKept` and `FreshWindow`, for any
numbers of requests, challenges, codes and setups and any threshold above one.

`LedgerProofs`, the ledger's refresh. Neither result is inductive. The invariant adds that a transaction
past its lock statement holds the lock, which has one holder; that no watermark counts an
uncommitted write; and that what a refresh is about to publish is no older than its
watermark and than the views. `LedgerStepInv` proves it for every step, inline refreshes
on any replica included, so that the composed module can use it. From it `StoredIsShown`
and `ShownNeverGoesBack`.

`LedgerProofs`, the re-attachment's trigger. A run that lost its lock goes on, so two runs of one extraction
can be active. The invariant says that every run has an entry of its own, which is not
the marker, and that while a replica still has the lock the extraction it runs has no
marker. From it, and the ledger's invariant, `TypeCorrect` and `ExactlyOnce`;
`HandledRunsAreShown` adds what an inline refresh that began after a run's writes has
read, and that the views never go back.

`ServiceProofs`. A behaviour of `MCService` runs one component while the others stand
still, so each component's invariant is proved for the composition.

- `KeyInv`: a live revocation outlasts its token under one name or the other, and a replica
  takes the cutover for no earlier than the first upgraded start, so that the fallback is
  open while an old key may matter. From it `RevocationsSurvive`, for any token life,
  window and margin.
- `ActivityInv`: what each step of an erasure has found and deleted, and which rows can
  still be written by requests that began before. From it `ErasureIsComplete`, which speaks
  of the three stores and of the purposes of rows, not of the grants: those an erasure
  leaves as they are.
- `SessionInv`: by which second the marker, a token and a change in progress are ordered,
  what a request read before it waited, and who may still mint from it. From it
  `OldSessionsEnd` and `AppTokensEndTogether` (an action property), for any number of
  requests, tokens, resets and changes. The proof failed at first for a reason of the
  model: the history variable `outdated` was not reset by a later change and not set by an
  overtaken first mark, so `StaleSessionsEnd` failed with two changes; both are corrected,
  and the run now makes two.
- `NlqInv`, `OauthInv`, `AnswersInv`: whose answer, state, credentials or body each step,
  cache and key holds, and since when. Together they give `ViewersAreServedTheirOwn`;
  `NlqInv` gives `StreamsAreWellFormed`. `ImpressionInv` numbers the stored impressions and
  relates every page shown to them: `ImpressionsAreTrue`.
- `ImportInv`: every entry and every fill in progress is as new as the marker, as a poll
  about to mark, or, for the keys it is done with, as a poll that deletes; or it was
  overtaken or early. `SnapInv`: there are sets of requests N, F and E such that the counter
  is |N| - |F|, N were counted in its present window, F gave back in it a slot of an
  earlier one and E did so in the window before; a window holds at most the cap and what
  was given back in it, and what is left of older ones is gone when the counter lapses.
  With `AnswersInv` they give `CachesStayBounded`.

`CatalogProofs`. A behaviour of `MCCatalog` runs one component too.

- `BuildsInv` is three invariants. `HubInv`: no two builders have one token, a builder that
  owns the lock has its own in it, and a stage was scanned no earlier than the count it is
  kept for was first reached. `BackfillInv`: what a job has still to write and what is
  written cover the plan, and nothing else is written. `CountInv`: what is still to do, in
  hand, fetched and failed are apart; for the releases a request had to itself its batch
  holds what PostgreSQL stores, and every release in no batch has it in the graph, but for
  those whose batch was lost or crossed another request's. From them `BuildsAreCurrent`, for any number of
  replicas, stages, jobs and releases and any export.
- `SearchInv`: the slots are the free ones and those held by statements of searches that
  still gather, so that no path, by error, timeout or an answer from the cache, keeps one.
  From it `SearchLeavesNothingRunning`, for any pool and reserve.
- `AliasInv`: an identifier has at most one open alias, items are numbered as they are
  minted, and a superseded item has one survivor. `StoryInv`: each event that happened can
  be read off the rows there are now, whatever later transactions closed. `PastInv`: a
  Discogs alias is never closed, so a survivor holds one and is never superseded itself, and
  a superseded item keeps no MusicBrainz row; a row once held is still the item's or is its
  survivor's; an item and what it merges with are of one kind; and a write closes rows at
  its own instant and opens rows from then on, so that the rows valid at an earlier
  transaction and its mergers are what was recorded after it. `ProjectionInv`: a node that is due has a holder, what the keyset cursor has passed is set, and the page in
  hand is the next of the due ids without a gap. From them `LedgerReadsAreTrue`: a page of
  the ledger leaves out no event of an edition it shows and shows none of the future, the
  editions listed under a work are those the payload resolves to it, a past state reads back
  as it was shown then, a split stays visible after the re-attachment that ended it, and a
  projection that ends has set every node that was due. The proof of `PastInv` failed at
  first for a reason of the model: the guard of `ReattachRow` compared the number of an
  alias without its provider, so that a Discogs release with the number of the row passed
  for the row; `reattach.py` asks for the provider too, and so does the model now.

- `FactsInv`: the facts of a release are counts and years, whatever is imported. A sum over
  a set is read through its definition, a function on the subsets chosen by `MapThenSumSet`:
  whatever starts at nothing and gains each member's share is that function (`FoldIs`), so
  the score is the weighted sum of the five signals of the core and of the pressings where
  they count (`ScoreIs`). Each table falls (`StepFalls`), each step of the import moves one
  signal in one direction and leaves the media alone, so that the weights stay. From them
  `AbundanceNeverRaises` (an action property), and `OneScale`: a weighted sum lies between
  the total weight of the least and of the greatest signal. Any media, counts and years, and
  any tables on the scale of 100.

`ProgressProofs`, about the background work.

- `TreeInv`: a build has scanned no version older than the one it signed, which is no newer
  than the graph's; a tree on its way from Valkey to memory is as good, and so is one that a
  late reader puts over a newer one. From it `SignatureIsNotNewer`.
- `TrackingInv`: whichever sign a tracker takes for its run's, a cleared counter, recent
  activity or a run at work, a run has begun since the trigger, unless the counters were
  ambiguous when it was accepted; the same of what a poll has read and not applied yet.
  From it `NoPhantomSuccess`.
- `AnalysisInv`: a scan runs for the task in flight and for nothing else, a task is in
  flight only while its memo is stale, and an owner awaits a task in flight and is its only
  owner. From it `OneScanPerWindow`. With the other two this is `BuildsAndScansAreSafe`.
- `DataInv`: what a scan returns is a list of records, and goes as it is from the task to
  those who await it and to the memo (`ScanIsRead`: a fold over the files of the entities
  in turn, read through a function on the subsets of their numbers, `FoldExists`). From it
  `AnalysisAddsUp`: the tally of the whole list is the sum of those of the rules
  (`RulesAddUp`) and of the directories (`EntitiesAddUp`), the pages joined are the list
  (`PagesAddUp`), a pair of versions compares alike both ways (`ComparedBothWays`), and
  where no rule has worsened the second list is not the longer (`NoRuleWorsened`). Any files, entities, versions, page length and cap.
- `ReattachInv`: what a run has read stays so while it holds its locks, the link of the
  row and the item its alias is on. From it `MovesFollowOwnLink` (an action property), for
  any rows, ids and items.

What the assumptions on constants say: `PageSize`, lifetimes and TTLs are positive where
the code would refuse a zero (a `SETEX` of 0 is an error), bounds are numbers, identities
that stand for "nobody" or "none" are not users, keys, resets or syncs, and the model's
tools, ranked lists and things found are sequences of names. A hub has a stage to build,
ids of rows and releases are numbers, plans of a scan are lists of files and not empty, an
administrator is not one of the scans, a directory is read once, a page has a record, and
the tables of `rarity/core.py` score on the scale of 100. TLC evaluates each of them in a
run.

The properties that are proved for every instance and say no more on a small one
(the type invariants, `LockAtThreshold`, `FreshWindow`, `ShownNeverGoesBack`) are not
listed in a run.

Only model-checked: liveness, which is out of the prover's reach (`PolledLedgerCatchesUp`,
`NewestIsHandled`, `NothingStaysStranded`, `BackgroundWorkSettles`, `Ends`), and two
invariants: `PagedReadsAreExact` (passes and pages cut a list sorted by an operator the
prover does not know), and `ScoresSpeakForTheirInputs`. Of the last, `OneScale` is proved;
the rest speaks of rounded shares, which say that nothing is new only while a release has
some thousands of facets at most, and no constant of the code bounds those.

## Not modelled

SQL and Cypher text, JSON shaping, logging, metrics and OAuth signatures; the owned-copy
rows (each collection row has one); Valkey being absent (the service always creates a
client); clock skew other than the one above. Routers that answer with one read
(collection, credits, label DNA, MusicBrainz, network, taste, look-up, user) have nothing
that interleaves. Taste vectors, similarity and the offline evaluation are floating-point
arithmetic. Schemas, settings, telemetry, the load generator and one-shot scripts have no
behaviour to check. The size budget of the expand cache may be passed by as many pages as
there are concurrent fills; the pages have TTLs of their own.

Of the components that are modelled: the sync's owned-copy upsert, which moves a copy to the
item its row resolves to; the key-share locks the ledger's own foreign keys take in
`_OPEN_COMPRESSED`; a client that leaves while a search gathers; a restart of the extractor
between a trigger and the first poll; items without a catalog record beside re-attachment
(`Curated` is empty in the run, and any set in the theorem); reverts and promotions as
writers of the identity ledger that `IdentityReads` reads.

## Plan

What is modelled is checked, and what the provers can reach of it is proved. What is left is
out of their reach, or in it only with more about lists than the library says: the liveness
properties, and the lists and rounded shares named above.
