# Formal verification of the easyp plugin service

TLA+ specifications of `easyp-plugin-server`: the worker pool, the generation limiter, the audit writer, the
plugin registry with its object storage and its on-disk cache, the maintainer of the audit partitions, the life
of the process that brings all of them up and down, the gates a request passes, the licence, the administration
of plugins from the SDK to the table, the command line that publishes plugins, and the resolution of the
configuration. Each module is translated from the Go source named in it, model-checked
with TLC on small instances, and, as far as the table of theorems below goes, proved with TLAPS for every value
of its constants.

    tlc -workers 2 -config JobPool.cfg MCJobPool             # any run of the table below
    tlapm JobPoolProofs.tla                                  # any module whose name ends in Proofs

`PROJECT.json` holds the same information for tools: the components, the runs, for every definition the
source lines it stands for, for every property a mutation of the model that breaks it, the hazards and the
theorems.

## 1. The system

One Go process serves `GenerateCode`, plugin administration and listing over gRPC (and MCP); PostgreSQL keeps
plugin rows and the audit log, S3 keeps plugin archives, a local directory keeps unpacked plugins, and every
generation runs a plugin as a child process. `easyp-svc` is also the command-line tool that builds, packs,
pushes and registers plugins. `sdk/` is the client library.

    GenerateCode ──> interceptors (rate, concurrency, auth, licence)
                        └─> Core.GenerateCode
                               ├─ WorkerPool.Get ── job queue ── worker ── registry.Get ── row, archive, disk
                               ├─ WorkerPool.Generate ── slot of the limiter ── plugin process (retries)
                               └─ audit Worker.Send ── queue ── Run ── INSERT into audit_log
    Create/Update/DeletePlugin ──> Core ──> registry (row, archive, directory, cache)
    easyp-svc push ──> object storage          maintainer ──> monthly partitions of audit_log
    start/stop ──> servers, pool, audit writer, database, telemetry

| component | state it keeps | operations | what is hard | what makes it correct |
|---|---|---|---|---|
| job queue (`core/pool.go`) | channel of jobs, closed flag, workers, one-place result channels | `Get`, `worker`, `processJob`, `Shutdown` | full queue, callers that leave, panics in a worker, closing a channel others send on | nobody who waits is forgotten, nobody is answered twice, the pool sheds no worker, a clean shutdown leaves nothing |
| generation limiter (`core/pool.go`) | weighted semaphore with its waiters, waiting counter and gauge | `acquire`, `release`, `Generate`, `generateWithRetries` | a grant that crosses a cancellation, retries, panics in between | slots are conserved and bounded, FIFO starves nobody, retries are bounded |
| audit writer (`adapters/audit/worker.go`) | queue, batch, its mirrored length, loss counters | `Send`, `Run`, `flush`, `saveWithRetry`, `Shutdown` | a hung or failing store, a commit reported as failure, panics in a flush, the drain | no loss goes uncounted, accepted entries settle, `Send` and `Shutdown` return |
| registry and cache (`adapters/registry`, `plugarchive`, `storage`) | rows, archives, directories, cache entries and total, flights | `Get`, `Generate`, `Create`, `Update`, `Delete`, `warm`, `add`, `touch`, `evict`, `forget` | three stores changed in separate steps, singleflight, eviction outside the lock, crash | only registered archives run, the accounting is exact, one unpacking at a time, nobody waits for nothing |
| partition maintainer (`adapters/audit/partitions.go`) | partitions of a table | `Maintain` by every replica | two replicas, two transactions, errors in between | upcoming months exist, expired ones go, one always stays |
| gates (`ratelimiter/`, `api/auth_interceptor.go`) | token buckets per client; requests in flight per client | `Limit`, `cleanup`, `acquire`, `release`, `authorize` | the sweeper deletes a bucket in use, handlers panic, the sweep panics | nobody exceeds rate or concurrency, whatever way a request takes out |
| licence (`license/`) | cached claims, gauges | `refresh`, `Claims`, `Enabled`, `claimsFor` | a refresh that fails, dates and grace periods, tables of keys | enterprise is earned, an expired licence ends |
| plugin administration (`sdk/`, `api/`, `core/core.go`, the table) | rows; attempts under way | `CreatePlugin`, `UpdatePlugin`, `DeletePlugin`, `ListPlugins`, retries | a limit that is checked before the creation it guards, attempts that go on without their client, pages between which the table changes | the limit, complete listings, true answers |
| configuration (`config/`, `cmd/easyp-svc/config.go`) | one resolved configuration | `load`, `Validate`, `config print`, `config validate` | three layers, aliases, explicit zeros, several things wrong at once | what is reported is what was given, what is accepted was obeyed, what is printed runs |
| command line (`cmd/easyp-svc`) | a tree of builds, archives, objects, rows | `build`, `pack`, `push`, `register` | parallel batches that go on after a failure, interruption, kill | the exit status is true, nobody is stranded, no archive is cut short |
| lifecycle (`cmd/easyp-svc/start.go`, `serve/`) | what has been started | `run`, `serveApp`, deferred shutdowns | errors in the middle, the order of stopping, the forced exit | everything started is stopped, in order |
| database wrapper, telemetry, gRPC construction, MCP glue | little or none | | | not modelled (section 7) |

The hazards of this code, each at its line, are the `hazards` of `PROJECT.json`.

## 2. Modules

| module | models | lines of Go |
|---|---|---|
| `BoundedAdmission` | what the two queues of the pool promise: a call is refused only if it found no server idle, and only while the queue counts as many as it may | `core/pool.go` |
| `JobPool` | the job queue, its workers, its shutdown | `core/pool.go` 44-178, 246-365, 485-505 |
| `GenLimiter` | the limiter, the retry loop | `core/pool.go` 180-243, 366-483 |
| `AuditWorker` | the audit writer | `adapters/audit/worker.go` |
| `PluginStore` | rows, archives, directories, cache, flights, administration, push | `adapters/registry`, `plugarchive`, `cmd/easyp-svc/push.go` |
| `Partitions` | the passes of every replica over the partitions of `audit_log`, the calendar, and the operator of the runbook | `adapters/audit/partitions.go` |
| `Lifecycle` | `run`, what it starts and defers, its servers, the signal and the watchdog | `cmd/easyp-svc/start.go`, `serve/`, `main.go` |
| `Gates` | rate limiter and its sweeper, slots per client, authentication, in the order of the chain | `ratelimiter/`, `api/auth_interceptor.go`, `auth/static.go`, `grpchelper/server.go` |
| `License` | what a token grants, the refresher, the gate, the gauges, the size of the pool | `license/`, `core/domain.go`, `cmd/easyp-svc/license.go` |
| `Catalogue` | calls of the SDK with their attempts, the limit, the pages, the statements | `sdk/`, `api/`, `core/core.go`, `adapters/registry/registry.go` |
| `Publish` | the four batches of the command line over one tree | `cmd/easyp-svc/build.go`, `pack.go`, `push.go`, `register.go`, `progress.go` |
| `Settings` | the stages of `load`, the checks, `config print`, and the commands that use a configuration | `config/`, `cmd/easyp-svc/config.go`, `start.go`, `push.go`, `register.go` |
| `MC*` | the same with symmetry sets, model values and samples for TLC | |
| `*Proofs` | the inductive invariants and the theorems | |

`JobPool` and `GenLimiter` both implement `BoundedAdmission` under a refinement mapping (`Admission`, at the end
of each); `AdmissionSpec` is checked as a property of the runs `JobPool` and `GenLimiter`.
The type invariant of a module is `TypeOK`, and the first conjunct of the inductive invariant, `IInv`. A module of
proofs may speak of two modules at once (License and Gates, Catalogue and Publish, Lifecycle and Settings); the second
of each pair has the names of its initial states, steps and so on prefixed with its own (`GatesInit`, `GatesSpec`,
`GatesTypeOK`, `GatesInv`, and the same with `Publish` and `Settings`). `Catalogue` has two inductive invariants, `IInv`
for the licence's limit and `CallsInv` for the rest. Definitions introduced as "a mutant" are no part of a specification: each is a plausible error in the
definition after it, and `PROJECT.json` names the property that finds it.

### JobPool

A call is in `pc[c]`: `start` before `Get` has looked at `closed`, `sending` between that check and the
`select`, `waiting` in the second `select`, then one of the ways to return, or `panicked` for a send on a closed
channel. `ended` is the set of calls whose context is over, at any moment. `jobs` is the channel; `SendToWorker`
is the rendezvous with a worker parked in `range`, `SendToBuffer` the send into the buffer, `RejectFull` the
`default`. A worker is `ready`, `parked`, `resolving` (inside `inner.Get`), `answered` (after its answer) or
`exited`. `Panic` is a panic before or after the answer with what the barrier of `processJob` does then.
`Shutdown` is `MarkClosed`, `CloseJobs`, then `Drained` or `DrainTimesOut`.

### GenLimiter

`TryAcquire` is the fast path, `CountWaiter` the increment, `RejectOver` the way back when it was too much,
`LoadWaiting`/`PublishWaiting` and `LeaveQueue`/`PublishLeft` the two halves of every publication of the gauge,
`Acquire`, `GiveUp`, `TakeGrant` and `ReleaseSlot` the semaphore, with its FIFO list, as
`golang.org/x/sync/semaphore` implements it: a grant can be on its way to a caller whose context ends, and such
a caller gives it back. `CheckContext`, `Execute`, `ExecuteTransient`, `Conclude` and `Release` are the
retry loop, the plugin process and the deferred release. Panics, kills and time-outs are outcomes of `Execute`.
`CountFailure` is the check of the caller's context after the loop (`pool.go:408`), a step of its own: the context may
end between the plugin's error and the check (`accounting`).

Both modules map their calls to `BoundedAdmission`. There `idle` is a parked worker, or a slot of the semaphore that
is free with nobody waiting for it; `counted` is what fills the channel, or whom `waiting` counts. `Refuse` asks that
the call has found nothing idle and that `counted` is at its limit, with a limit of zero too.

### AuditWorker

`Begin`, `Enqueue`, `Drop`, `SendOnClosed` are `Send`. `Receive` and `Mirror` are the `append` and the
`pending.Store` after it: two steps, because `Shutdown` reads `pending` from its own goroutine. `SaveSucceeds`,
`SaveFails`, `SavePanics`, `Retry`, `StopRetrying` are `saveWithRetry`; a failed statement may have been
committed, and is then refused by the primary key. `Clear` is the deferred function of `flush`. `misled` and
`broken` are history: whether any statement was committed and reported as failed, whether any flush has
panicked. `CloseQueue`, `Drained`, `TimesOut`, `CountLost` are `Shutdown`; the two sizes it adds are read in
two steps.

### PluginStore

An archive is its content, and a content is its size and its checksum. `row`, `archive`, `disk` are the three
stores. `home[p]` is the directory of the command of `p`'s row, where the code looks for a plugin and unpacks it
(`registry.go:837`), and which may be another plugin's; a flight and the cleanup of a deletion go by the plugin's own
name (`:849`, `:802`). `Unchecked` is the empty checksum, which `Verify` lets pass (`:314`). `entry`, `recent`, `total` the cache; `flight` the singleflight group. A call goes through `ReadRow`
(Core's lookup), `Stat`, `Touch` or `Join`, and as the leader of a flight through `Restat`, `Retouch` or
`Download`, `Verify`, `Clear`, `Rename`, `Measure`, `Add` and the eviction loop `NextVictim`, `Remove`, `Forget`;
`Execute` is the later `Generate`, which runs what is on disk by then. `Warm*` is the scan at startup, which
evicts too. An administrator performs one create, update, delete or push, step by step (`HashArchive` and `WriteRow`,
`Upload`, `DeleteRow` to `ForgetDeleted`), and nothing keeps it apart from another. `Restart` is a crash at any step:
memory goes, the three stores stay. `recorded`, `met` and `doubtful` are history: what was ever registered with a
command in a directory, which creations and updates met a half-done deletion of their plugin between hashing and
writing, and whose rows these have written.

### Partitions

A month is a number, and a partition is the month it holds. A pass of a replica is in `pc[r]`: `ensure` and
`retain` before it tries the advisory lock of either transaction, `creating` in the loop of `EnsurePartitions`
(`next` is the month it is at, `staged` what its transaction has created and nobody else sees), `dropping` with
the lock of `DropExpiredPartitions`. `EnsureSkipped` and `RetainSkipped` are the lock that another replica has,
which the code does not treat as an error; `CreateRefused` is a month that PostgreSQL refuses because rows of
the default partition, or a partition made by hand, cover it: the whole transaction is rolled back and `Maintain`
returns. `PassFails` is an error, a time-out or the death of the replica at any step, `CommitUnanswered` a commit
that happens and is not confirmed. Around the passes, `NextMonth` is the calendar, `InsertStray` a row of the
audit writer for a month without a partition, `OperatorDrains` the procedure of `docs/RUNBOOKS.md`. The README of
the repository says that the service runs in one replica; the maintainer takes a lock for more, and a rolling
update runs two.

### Lifecycle

`main` is where `run` is: the parts it brings up, in order (`telemetry` ... `serve`), `serving` inside
`serve.Start`, `waitHealth` and `stopHealth` in the function it got from `startHealthServer`, `unwinding` in its
deferred functions (`cleanups`, the last on top), `returned`. Each of `StartHealth`, `OpenStores`,
`LoadCredentials`, `CheckHealth` and `Serve` has its early return; `OpenStores` may then leave the database open.
`stores`, `audit` and `pool` are off, open or closed. `svc` is the state of each service of the errgroup:
`ListenFails` and `AcceptFails` are its two failures, and after the second one the connections that were accepted
are still served, by nobody's waiting (`orphaned`). `BeginStop` and `Stop` are `GracefulStop` and
`http.Server.Shutdown`; `BeginPass`, `EndPass` and `EndMaintenance` are `Maintainer.Run`. `GroupOver` is the
context of the errgroup. A request is of a client, a scrape or a probe, at one server. `Signal` ends the context
of the process, `ForceShutdown` is the watchdog.

### Gates

`pc[r]` is where a request is: `stamp` and `take` are the two statements of `Limit` after `LoadOrStore`, between
which the sweeper may delete the bucket; `acquire`, `authorize` and `handle` are what the limiter encloses, in the
order of `buildExtraInterceptors`; `denied`, `answered` and `panicked` are the three ways out that run the deferred
`Release`. A bucket is named after the request that made it, since a request may go on using one that is no longer
in the map. The sweeper is `BeginSweep`, `Visit` (it reads under the bucket's lock when it was seen), `Judge` and
`Delete` (both after it), `EndSweep`, and `SweepPanics`, which its barrier confines to one sweep. Any goroutine may
stall between any two steps. The rest is history: `due` is what one bucket that nobody sweeps would hold, `swept`
counts deletions, `late` the tokens a client took late (`Late`: in a later step of time than the request stamped the
bucket, or from one that the sweeper has deleted or has in hand), `spent` those by bucket.

### License

A token is its claims and the key that has signed it; `publicKeys` is the table, with the catch-all. `ClaimsFor`
and `Verifies` are `claimsFor` and the two stages of `ValidateLicense` before it. `BeginRefresh`, `Install` and
`Observe` are `refresh`: the claims change under the lock, the gauges after it. `RefreshBreaks` is a panic that the
barrier in the refresher's loop catches, or an error of the client. `workers` is the pool's size, decided in
`initApp` and never again. `validatedAt` and `lost` are history.

### Catalogue

A call of the SDK makes attempts, one after the other, under one deadline; an attempt is a handler on the server,
in `at[c][a]`, which goes on when its client has lost the connection (`Lose`) or given up (`Expire`): it is then
`forsaken`. Every page of a listing is a request of its own, with attempts of its own. `checked` is
a creation between the count of the licence's limit and its `INSERT`. `Status` and `IsTransient` are the two
tables that decide what is repeated. A listing takes page after page by the key of the last row (`Continuation`,
`Page`). An archive that is missing or unreachable, a database that does not answer and an `INSERT` whose
confirmation is lost are answers of their own. `overlap`, `effects`, `forsaken`, `always` and `ever` are history.

### Publish

The tree is `dir` (a build: its entrypoint, and the sidecar files that come with it), `file` (its archive), `object`
(the archive in storage) and `row` (its registration). A command scans it (`Scan`), works through what it found
with `Slots` workers, and ends with `ExitStatus`. `Turn` is the errgroup's limit, `Aborts` what an item tells the
group, `Unstarted` the items a cancelled group no longer begins. `temp` is the temporary file of `pack` and `push`:
`Archive` creates it and begins to write, `CloseTemp` is its end, `Pack` is chmod and rename, `Upload` takes it or a
packed archive; a failure at any of these steps removes it, and a kill leaves it under a name of its own. `Interrupt` cancels the command's context, `Kill`
ends the process where it is; the next command begins on what is left.

### Settings

`stage` follows `load`: `Parse`, `Rename` (former names of keys), `Decode`, `CheckKeys`, `ApplyEnv`, `Merge`,
`Judge`, then `Findings`, which is added to whatever came out. A sample of 24 settings has one of each kind:
numbers and texts, with a default and without, secret, aliased, checked alone and against another. Values are
small integers; 0 is Go's zero value, and `Missing`, `Null`, `Unset`, `Blank` and `Bad` are the ways of not having
one. `ReadBack` makes what `config print` has written the file of the next start. `RunsOn` is what pool, gRPC
server, licence manager, limiter, writer and maintainer put in place of a number they cannot use. The table of
former names is empty in this release; `Former` gives it one entry, so that its code is exercised.

## 3. What each run checks

| run | instance | question | answer |
|---|---|---|---|
| `JobPool` | 3 calls, 1 worker, queue of 1 | `NoCallerStranded`, `CleanDrainAnswersAll`, the refinement `AdmissionSpec`; `CallReturns` if the inner registry comes back (and for a cancelled call even if it hangs) and `WorkersEnd` | hold |
| `GenLimiter` | 3 calls, 1 slot, queue of 1, 1 retry | `SlotsConserved`, `FailuresCounted`, `AdmissionSpec`; `CallReturns` if plugins end (and for a parked call whose context ends even if they hang) | hold |
| `AuditWorker` | 3 entries, queue 1, batch 2, 1 retry | `LossesExact`, `CleanDrain`; `EntrySettles` (and the end of `Run`) if statements come back, `NobodyWaitsOnTheStore` (neither `Send` nor `Shutdown`) even if they do not | hold |
| `PluginStore` | 2 plugins, contents of sizes 2 and 3, a limit of 4; any 3 of 2 calls, 2 administrative operations, the scan and a crash; plugins registered, one missing or without a checksum, or both in one directory | `TotalExact`, `RegisteredHasArtifact`, `NoFollowerStranded`, `OnlyRegisteredRuns` | hold |
| `Partitions` | 2 replicas, 1 month ahead, 1 kept, 4 months, 2 faults | `RetainedKept`; `MonthsCovered`: after the last fault the coming months have partitions, unless one is blocked | hold |
| `Lifecycle` | 2 requests, all four services | `NothingMeetsAClosedPart`, `NothingLeftBehind`; `GracefulStop`, `FailureStopsServing` if requests end | hold |
| `Lifecycle_failure` | 1 request, without MCP | `FailureEndsProcess`: the failure of a server ends the process | **violated** |
| `Gates` | 3 requests of 2 clients or of none, buckets of 2 that are full again after 2 steps, 1 slot, 3 steps, 1 panic | `RateKept`, `SlotsExact` | hold |
| `License` | 2 key ids and the catch-all, 2 keys, 3 dates, 9 days, 2 broken refreshes | `EnterpriseIsEarned`, `ClaimsFresh`, `LicenceEnds` | hold |
| `Catalogue` | 2 calls, 3 plugins, a limit of 2, pages of 1, 1 retry | `LimitOvershoot`, `ListingSound`, `AnswersTrue`, `OwnEffectOnlyAfterLoss` | hold |
| `Publish` | 2 versions, any sequence of commands, `--parallel` 0 or 2 | `ExitIsTrue`, `NoneStranded`, `ArchivesWhole`; `CommandEnds` | hold |
| `Settings` | 24 settings alone and the 9 groups that a check compares | `OriginTrue`, `RoundTrip`, `NothingIgnored`, `RunsAsPrinted` | hold |

Each module also has its `TypeOK`, and some an invariant that is proved (section 4) or was checked apart on the same
instances: `StaleForgotten` (under `FairGatesSpec`, 2 requests of one client) in `Gates`, `PairKept` in `Settings`,
`GaugesAgree` in `License`, and every inductive invariant; that of `Gates` also where an interval does not fill a
bucket (`Early` above zero: a bucket of 3, an interval of 1, 4 requests of one client).

Deadlock is checked in every run: the modules have a step for being over (`Stopped`, `Over`) that is enabled only
when every actor is, and the maintainer's ticker and the operator at the command line never end.

### Why the bounds are enough

* `JobPool`: one worker and a queue of one is the smallest pool in which a job is handed over, one is queued and
  a third call finds no place, so that a refusal, a rendezvous and a queue that drains after `close` all occur. A queue of zero (an unbuffered channel) is covered by the proofs,
  whose `QueueSize` is any natural number.
* `GenLimiter`: with one slot and one place, a call holds the slot, one is parked and can be granted, cancelled,
  and granted while cancelled, and one is rejected over it; one retry is enough to see the slot kept across
  attempts. More slots are covered by the proofs.
* `AuditWorker`: one place and a batch of two let an entry be in the queue, in the batch, unmirrored or unwritten
  while another is dropped; the batch can be flushed full, by the ticker and by the end of the queue.
* `PluginStore`: two plugins that do not fit together are what makes an eviction choose; two calls make a
  leader and a follower, or an eviction and a touch; an administrator changes the stores under both, and two overlap
  (a deletion with a creation or an update, which is what `doubtful` is about). The crash is bounded to one by
  `MaxRestarts`; the state after it is a fresh start over whatever was left. `MaxBegun` lets any three of these begin;
  `Starts` are the states to begin in that differ to the properties: everything registered and unpacked or not, a
  plugin to be created, a row without a checksum, one directory for two plugins.
* `Partitions`: two replicas make one that has the lock and one that has not; four months let a pass begin in one
  month and end in the next, and let a month be created, expire and be dropped. `MaxFaults` bounds the broken
  passes, so that "after the last fault" means something.
* `Lifecycle`: two requests are one that a server waits for and one that is orphaned, or a probe; each part and
  each service can fail. A second signal changes nothing.
* `Gates`: three requests make a bucket, use it, and use it again after it was swept, while another client's bucket
  and slot are beside it. Three steps of time are one more than the interval, which is when a bucket is stale, and a
  bucket of two can be half full. `Apart` leaves out the interleavings of a request that is past the limiter with
  what happens to the buckets: neither reads what the other writes. Of the requests that are past it all are kept.
* `License`: tokens that begin before, at and after the start and end within the clock's nine days, whose grace
  period ends in them too; both keys for each id, or none; every period of the refresher.
* `Catalogue`: two creations are what an overlap needs; three plugins are three pages, with a change before,
  between and after each. One retry makes two attempts of which the first may still be running.
* `Publish`: one version fails while the other is working, waiting or done; sequences of commands are not bounded.
* `Settings`: what is wrong with one setting does not depend on another, but for the groups that a check compares,
  which `MCSettings` has in `Related`.

### Fairness

Runs without liveness properties use none. In the others every goroutine that has begun is weakly fair (the Go scheduler),
and what is not the program's own is an antecedent of the property instead: `RegistryAnswers` (the calls of the
database and the object storage come back: each carries a context), `PluginsEnd` (`GenerationTimeout` kills the
process), `StoreAnswers` (every statement runs under `flushTimeout`), `ShutdownGoesOn` (the goroutine that has
called `Shutdown`), `RequestsEnd` (a generation has a time-out; lookups, scrapes and probes are short; the stream an MCP client may keep open
is the exception, section 6). No context ever
has to end, nobody ever has to call, and the watchdog never has to fire. FIFO order in the channel and in the
semaphore is what rules starvation out there. `Publish` is weakly fair to the progress of a command: docker ends
with the context of the command, calls by their deadlines. Two assumptions are stronger, and named: `Lifecycle` is strongly fair to the maintainer seeing
that its context is over, because a `select` whose ticker and context are both ready chooses at random; and
`MonthsCovered` assumes `LockIsWon`, that somebody wins the advisory lock again and again. The lock is tried and
never waited for, so two replicas whose every pass began inside the other's transaction would skip each other's
work for ever; ticks are hours apart and transactions take milliseconds.

## 4. What is proved

TLAPS proves, for every number of calls, workers, slots, entries, plugins, restarts, keys and days and every size.
The assumptions are the `ASSUME` of each module: sets are finite, values that mean "none" are none, and numbers are
natural or positive, as `Config.Validate` or the defaults of the parts see to. No other is made of a configuration, of
the order of operations, or of how fast goroutines are:

| module | theorems |
|---|---|
| `JobPoolProofs` | `TypeCorrect`, `CallersKept` (`NoCallerStranded`), `AnsweredOnce` (`OneReply`), `WorkersKept` (`WorkersSurvive`), `CleanDrain` (`CleanDrainAnswersAll`), `PoolIsBoundedAdmission` (`AdmissionSpec`) |
| `GenLimiterProofs` | `TypeCorrect`, `SlotsNeverLeak` (`SlotsConserved`), `BoundedGenerations`, `WaitersExact` (`WaitersCounted`), `BoundedRetries`, `LimiterIsBoundedAdmission` (`AdmissionSpec`), `FailuresExact` (`FailuresCounted`) |
| `AuditWorkerProofs` | `TypeCorrect`, `LossesCounted` (`NoUncountedLoss`), `LossesCountedExactly` (`LossesExact`), `DrainLeavesNothing` (`CleanDrain`) |
| `PartitionsProofs` | `TypeCorrect`, `TableKept` (`TableNeverEmpty`), `RetentionKeeps` (`RetainedKept`) |
| `PluginStoreProofs` | `TypeCorrect`, `NothingForeignRuns` (`OnlyRegisteredRuns`), `OneUnpacksAtATime` (`OneFlight`), `FollowersAreTended` (`NoFollowerStranded`), `TotalIsExact` (`TotalExact`), `ArtifactsOfRegistered` (`RegisteredHasArtifact`) |
| `LifecycleProofs` | of `Lifecycle`: `TypeCorrect`, `PartsOutlastTheirUsers` (`NothingMeetsAClosedPart`), `ReturnClosesAll` (`NothingLeftBehind`); of `Settings`: `SettingsInvariance`, `TypesOfSettings`, `OriginsAreTrue` (`OriginTrue`), `PrintIsReadBack` (`RoundTrip`), `AcceptedIgnoresNothing` (`NothingIgnored`), `ServiceRunsAsPrinted` (`RunsAsPrinted`), `PairIsKept` (`PairKept`) |
| `AccessProofs` | of `License`: `ClaimsAreFresh` (`ClaimsFresh`), `LicenceIsEnded` (`LicenceEnds`), `NothingUnearned` (`EnterpriseIsEarned`), `GaugesTell` (`GaugesAgree`); of `Gates`: `GatesInvariance`, `SlotsAreExact` (`SlotsExact`), `RateIsKept` (`RateKept`) |
| `AdministrationProofs` | of `Catalogue`: `LimitExceededOnlyByOverlap` (`LimitOvershoot`), `CallsInvariance`, `TypesOfCalls`, `ListingsAreSound` (`ListingSound`), `AnswersAreTrue` (`AnswersTrue`), `OwnEffectIsRare` (`OwnEffectOnlyAfterLoss`); of `Publish`: `PublishInvariance`, `TypesOfCommands`, `ExitsAreTrue` (`ExitIsTrue`), `ArchivesAreWhole` (`ArchivesWhole`), `NothingIsStranded` (`NoneStranded`) |

Every safety invariant that a run checks is a theorem, and so are both refinements.

Each proof follows one line: the initial states satisfy the invariant, a case for every action shows that each
conjunct survives it (lemmas say once what a recurring effect does, to a cardinality, to a directory's share of the
cache, or to the stack of deferred functions), then `Invariance == Spec => []IInv`, from which the theorems follow.
None of the properties is inductive alone:

* `NoCallerStranded` needs to know that a job is in one place (`JobInOnePlace`), who may hold one in which state
  (`WorkersTidy`), where its answer can be (`Custody`), and that a worker leaves only a closed, empty channel.
  The count-free formulation is on purpose: a lemma of queue arithmetic would be needed for every count.
* `SlotsConserved` counts holders, including the caller whose grant and cancellation cross; it needs
  `ParkedOnce`, that a call is in the list of the semaphore exactly when it is parked, and the lemma
  `GotoCounts`, how the cardinalities of the three sets change when one call goes on. `FailuresCounted` needs
  `AccountsTidy`: the outcome stands from the end of the loop to the check, and a caller whose plugin was killed or
  whose retries were cancelled has gone by then and stays gone, so that the check, whenever it comes, tells them from
  plugins that failed.
* The refinements map calls to the places of `BoundedAdmission` by named sets (`Outside`, `Deciding`, and so on, at the
  end of `JobPool` and `GenLimiter`). A step of one call moves it from one set to another, or from none to none, and
  the limits that `BoundedAdmission` guards follow from the inductive invariant of the states before and after. For a
  refusal `JobPool` has that no worker is parked and the channel is full in the step itself; `GenLimiter` has the two
  in different steps, the fast path and the comparison of the counter, with `passedOver` in between.
  A release that wakes a waiter (`ReleaseSlotMapped`) moves two calls at once, the one that leaves and the one that
  is served in its place.
* `NoUncountedLoss` speaks of entries that are behind the worker; while a failed batch has been counted and not
  yet been cleared the sum is larger, so `LossesBounded` and `LossesExact` count that batch in.
  `OnePlace` (no entry is both waiting and stored) and `BatchMirrored` (what `pending` is) complete it.
* `OnlyRegisteredRuns` is about directories: what is in one, or is run there, was registered with a command in it, or a
  row without a checksum was, which takes anything. It needs `Registered`: the checksum a call goes by was registered
  with a command in the directory it goes to, and between verification and renaming the content is that checksum
  unless that is empty. `OneFlight` and `NoFollowerStranded` need
  `FlightsTended`, that every flight has a leader that is on it: together they say that followers are always
  released, since a leader cannot leave without ending its flight.
* `TotalExact` says that the total is the number of bytes accounted for, each a pair of a plugin and a number up to the
  size of its entry. So it needs no sum over a function, whose laws are an induction: an entry that changes takes
  its own pairs away and brings others (`AccountKeepsSize`).
* `RegisteredHasArtifact` is proved of any number of overlapping administrative operations, whatever fails in them and
  wherever the service is restarted. The code has nothing that keeps them apart, so the statement names the one
  overlap that breaks it, a row in `doubtful`, written by an operation that met a deletion of its plugin, and speaks of
  rows with a checksum, which were written with an archive (`EveryRowHasArtifact`, without these exceptions, is
  refuted; section 6). It needs what an operation knows between
  two steps: `HashedIsThere`, that the archive it has hashed is there when it writes the row, unless it has met a
  deletion, and `DeletedIsAway`, that a deletion which is about to delete an archive has no row in front of it but a
  doubtful one.
* `TableNeverEmpty` is kept by the guard of `DropExpiredPartitions`; that what is created is created under the
  lock (`OneMaintainer`) and not over rows that are already somewhere (`OnePlacePerMonth`) is the rest of `IInv`.
  `RetainedKept` needs `ClockRead`: a pass may be older than the calendar and never ahead of it.
* `NothingMeetsAClosedPart` follows from where `run` is: `ServicesFollowMain` says that services run only inside
  `serve.Start`, `RequestsHaveServers` that a request is at a server that waits for it or has been lost,
  `PartsFollowMain` that the parts are open and their closing deferred, each once, from the step that opens them
  to the unwinding. `NothingLeftBehind` is its other end, an empty stack.
* `ClaimsFresh` needs `OnSchedule`: the refresher's next tick is never further from the last validation than a period
  for it and one for each refresh that broke. The other theorems follow from what is in force being `Validate` of
  that moment: `LicenceEnds` because an enterprise claim was within the token's end then, `EnterpriseIsEarned`
  because it was verified then, and nothing is taken back from a token by the passing of time but its end.
* `RateKept` compares a client with one bucket that is never swept. `Covered` says that what the client can still take
  from the bucket in the map, and what was taken late from it, is covered by what that bucket holds, a token for each
  late take, and `Early` for each deletion; `Filling` that a bucket holds what the time since it was last seen gives,
  but for what was taken late, since whoever takes in time has just stamped it; `Sweeping` the same of the bucket in
  the sweeper's hand, whose reading of that time may be old by then. `Early` is what an interval does not fill of a
  bucket, nothing if it fills it: a configuration may be either. `SlotsExact` needs `SlotOwners`: a slot is given back to the client it was taken
  from.
* `LimitOvershoot` counts rows; `Reserved` counts, with them, the creations that have passed the check. A creation that
  inserts goes from the one to the other, so the sum moves only at the check, where there was room.
* `AnswersTrue` needs the same of answers that are still under way (`AnswersUnderWay`), and that the history of a call
  is right (`Tracked`). `OwnEffectOnlyAfterLoss` needs `EffectsTold`: without a forsaken attempt a call had at most one
  effect, which an answer on its way or arrived tells it of. `ListingSound` needs `ListedSoFar`: up to its token a
  listing has all that was there throughout. A page is cut from the rows by their order; that a set of numbers has a least
  member is an induction the provers cannot be given, and is derived (`LeastOfASet`) from the library's theorem that
  the finite subsets of a set are well-founded under inclusion.
* `ExitIsTrue` needs `Outcomes`: what became of a version is in the tally, in the group's error, or done. `ArchivesWhole`
  is kept because a temporary file that is cut is only ever removed: the errors of `PackDir` and `Close` are looked at
  before it is renamed or uploaded. It says nothing of the build inside it, which an interrupted export may leave
  without its sidecar files (section 6, `CachedIsBuilt`). `NoneStranded` needs `BegunIsTried`: only an interruption
  ends a batch that goes on after failures, so a command that was not interrupted ends when all are over, and whatever
  is over was tried.
* The properties of `Settings` follow from what each stage of `load` has done by its end: `DocumentRead` (the keys of the
  document, former names rewritten), `Resolution` (every value is what its layer gives), `Complaints` (every stage that is past
  has reported what it is there for), `Verdicts` (the one judgement). `RoundTrip` is about two loads, so `ReadAgain` carries
  the first over the second: its file prints that configuration, its environment is empty, nothing is complained of.
  These are proved of all topics at once, hence of files in which everything is written together; TLC has one topic
  in a file. `SettingsAssumption` says that the ways of not having a value are none, and that one key has a former name.

## 5. What is only model-checked

Liveness, with its fairness, is out of the prover's reach: `CallReturns` (of `JobPool` and `GenLimiter`), `WorkersEnd`,
`EntrySettles`, `NobodyWaitsOnTheStore`, `MonthsCovered`, `GracefulStop`, `FailureStopsServing`, `CommandEnds`, and
`StaleForgotten`. What the statements of section 6 say is refuted by TLC, and nothing about them is proved.

## 6. Where the code and its documentation disagree

One run ends in a violation, and is the finding of `PROJECT.json`.

* `Lifecycle_failure`. A service that fails ends the others (`FailureStopsServing` holds); then `run` calls
  `waitHealth`, which waits for the context of the process (`start.go:286`, `:346`), and that ends only with a
  signal. The process stays without a server, and its readiness still says that the database is there. The
  comment of `Maintainer.Run` says that the first error "tears down the whole process".

Other statements were refuted while the modules were written. Their definitions are kept at the end of their
modules, under "Not kept by the code"; adding one as an `INVARIANT` (or `PROPERTY`) to a configuration of its
module reproduces the counterexample in seconds.

| definition | what happens |
|---|---|
| `JobPool!LostCountsUnanswered` | a timed-out `Shutdown` returns `len(p.jobs)`, which leaves out what the workers hold (`pool.go:501`) |
| `JobPool!NoPanicOnShutdown` | `Get` checks `closed` and sends later; a `Shutdown` in between makes the send panic (`pool.go:342`), which becomes `INTERNAL` |
| `GenLimiter!GaugeSettles` | the gauge is computed and set in two steps; an old value may be set last and stay (`pool.go:229`) |
| `AuditWorker!LossAlwaysCounted` | a panic in a flush drops the batch and moves no loss counter (`worker.go:326`) |
| `AuditWorker!LostIsLost` | a batch that was committed and reported as failed violates the primary key when retried, and is counted as lost (`worker.go:354`) |
| `AuditWorker!TimedOutCountsAll` | a timed-out `Shutdown` reads `len(w.entries)` and then `w.pending` while `Run` moves an entry from the one to the other: it is in neither (`worker.go:391`) |
| `PluginStore!InFlightCompletes` | a deletion removes the directory a call has been given and not yet executed (`registry.go:803`), against the comment of `Core.DeletePlugin` |
| `Lifecycle!DrainingIsUnready` | readiness asks the database only; a process that drains is as ready as before (`start.go:283`) |
| `Lifecycle!GracefulStopWithStreams` | an MCP client may keep a stream open (`mcp.go:47` serves streamable HTTP with sessions), and `Shutdown` waits for it under a context without an end (`http.go:35`): the watchdog ends the process, and pool and audit writer are not drained |
| `Lifecycle!NoRequestOutlivesThePool` | the connections of a server whose `Accept` failed are served on while the pool closes (`grpc.go:29`, `http.go:33`) |
| `PluginStore!RecentIsKept` | the victim is removed outside the lock; a use in between does not save it (`cache.go:256`) |
| `PluginStore!GaugeTellsDisk` | a plugin unpacked between removal and `forget` is on disk and not accounted for (`cache.go:261`) |
| `PluginStore!RunsWhatItsRowSays` | a directory unpacked from an older archive is accepted as it is after an update (`registry.go:841`) |
| `PluginStore!DeleteLeavesArchive` | `Delete` deletes the archive; the SDK says it is left alone (`sdk/client.go:224`) |
| `PluginStore!EveryRowHasArtifact` | `Delete` removes the row first and the archive later (`registry.go:797`); a `Create` that hashed the archive before and inserts its row in between has registered a plugin without one, against "a registered plugin always has its artifact" (`README.md:99`) |
| `PluginStore!OneUnpacksADirectory` | "concurrent requests for the same plugin are collapsed into a single download" by the plugin's name, and a directory is cleared and replaced by its command: two plugins whose commands are in one directory have two flights over it (`registry.go:849`, `:837`) |
| `Partitions!RetentionGoesOn` | `Maintain` returns on an error of `EnsurePartitions` (`partitions.go:240`), so a month that cannot be created ends every pass before retention, against the comment above it; the month may be blocked by the partition the runbook tells the operator to create, `audit_log_2026_08` (`docs/RUNBOOKS.md:159`) instead of `audit_log_y2026m08` |
| `Gates!RateNeverExceeded` | a bucket that the sweeper has looked at is deleted although a request has used it since, and the client's next request is given a full one (`ratelimiter.go:206`) |
| `License!WorkersFollowLicence` | the pool is sized at startup; "the current license" of `gate.go:51` may allow fewer later |
| `Catalogue!LimitKept` | two creations pass one free place (`core.go:271`) |
| `Catalogue!RefusalsAreRepeated` | the comment lists three transient codes (`retry.go:16`), and `register.go:171` counts on `RESOURCE_EXHAUSTED` being retried; `isTransient` knows `UNAVAILABLE` only |
| `Catalogue!DeletedStaysDeleted` | an attempt that its client has given up may still insert a plugin that was deleted meanwhile |
| `Publish!BuildEnds` | `build --parallel 0` waits at its first version until it is killed (`build.go:402`); push and register raise the limit to one |
| `Publish!RegisterGoesOn` | a registration whose own call expires while the SDK waits to retry ends the batch as if it had been interrupted (`register.go:205`) |
| `Publish!CachedIsBuilt` | an export that was interrupted after the entrypoint leaves a build that the next run takes as done (`build.go:131`) |
| `Settings!EveryNumberAsPrinted` | a negative `audit.enqueue_timeout` is accepted and printed, and the writer runs on one second (`worker.go:173`) |
| `Settings!OneConfiguration` | `plugins register --cfg` decodes the file by itself (`register.go:66`): it sees no variable and no default |
| `Settings!HeldKeysReported` | keys inside an anchor holder are not checked, wherever it is merged (`diagnostics.go:246`) |

Smaller disagreements met while reading, which no property is about: `WithMaxRetries(-1)` makes the SDK's interceptor
return no error without having called (`retry.go:31`), a negative maximal delay panics in `backoffDelay`, and a second
`Client.Close` in `healthMonitor`; `Core.errorCode` and `api.classify` do not know the same errors; a forced rebuild
whose run writes no entrypoint is reported as built if an older one is there (`build.go:515`); `Result.Config` is "set
even when the load failed" (`config.go:676`) and is nil when the document or the environment does not parse;
`ValidateRateLimit` accepts a cleanup interval in which a bucket does not refill, and then the sweeper gives tokens
away to clients that wait (`Early` in `Gates`); the gauge of active clients is
raised for every bucket and set by every sweep, and drifts between the two.

## 7. Limits of the models

What is modelled is modelled with these simplifications:

* `JobPool`, `GenLimiter`: requests carry nothing, and an answer is only that there is one; the methods of the pool
  that forward without the queue are left out.
* `AuditWorker`: time is a choice. A timer that may fire may do so at any moment after it was set.
* `PluginStore`: object storage is configured and the cache enabled. Without either, nothing is evicted or
  downloaded. `latest` is not resolved; a call names its version. `os.RemoveAll` and an unpacking are one step
  each, except that clearing and renaming are two. Directories of `MkdirTemp` that a crash leaves behind
  (`plugarchive.go:150`) are left out: they lie beside the version directories, and the next scan takes them for such
  (`cache.go:346`), measures them and may evict them. A command lies in some version directory and its file is called
  `plugin` there; one right in `plugins_dir`, or deeper, which `ValidateConfig` accepts as well, is left out, as are
  directories inside of one another. The victim of an eviction is any entry that is not recent, instead of the
  least recently used one. A follower of a flight is not released by its own context, as in the code. Several
  processes over one directory are excluded, as the repository excludes them.
* `Partitions`: replicas share one clock. The migration of existing months, the gauges and the check of the
  default partition are left out.
* `Lifecycle`: the parts are open or closed; what their own `Shutdown` does, and when it gives up, is in their
  modules. The configuration has been read and checked. The health listener does not fail once it is bound. The
  flush of the last spans runs under the context that has just ended (`start.go:226`); telemetry is not modelled.

* `Gates`: tokens come in steps of time, in whole numbers. The licence check of methods is left out (its table is
  empty in this release), as is the gate of the limiters, which both tiers open.
* `License`: time does not pass within a refresh. The log lines, and that they are not repeated, are left out.
* `Catalogue`: the limit is a constant, where `core.go:268` reads the licence in force: one that shrinks below the rows
  that are there, and stops further creations, is not covered. The table answers as PostgreSQL does at read committed, one statement at a time. What a row holds, and
  filters, are left out; a call is made once.
* `Publish`: one operator and one tree. `Kill` is the end of the process, not of the machine: nothing is synced before
  the rename, and what a power cut leaves is not modelled. `PutObject` is all or nothing, as S3 has it. Filters, dry runs and the drawing of progress are left out; what a plugin
  is built from is a choice of docker's.
* `Settings`: a sample of settings stands for all; each check of one setting alone is modelled for one or two of its
  kind. Of the six runtime numbers whose zero is replaced the sample has one. Locale, duration and size syntax are `Bad`
  or not.

Not modelled, and why (`PROJECT.json` has one entry for each):

* gRPC construction and TLS: built once out of library parts.
* database wrapper and telemetry: they forward and measure.
* MCP glue, smoke tools, chart checks, generated code, web assets: no logic of the system's.

## 8. Plan

What would add most next, in this order:

1. Compositions: `GeneratePath` (`Gates`, `JobPool`, `GenLimiter`, `PluginStore` and `AuditWorker` behind one call),
   and `Lifecycle` with the `Shutdown` of `JobPool` and `AuditWorker` in place of its open-or-closed parts.
2. Proofs: action properties that the invariants imply and no run checks yet, such as that a job is answered only by
   the worker that took it; a specification of what administration promises, for `Catalogue` to refine.
3. `PluginStore`: the resolution of `latest`, and operation without object storage.
