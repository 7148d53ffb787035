# Agent Native PM in TLA+

A specification of the core of Agent Native PM: how planning runs are created,
handed to connector daemons, finished, cancelled and recovered; how their
candidates and other backlog items become tasks; how role tasks are executed;
how daemons are paired, probed and configured, and run the CLIs of models; how
the context, the provider and the order of suggestions are chosen; how a
repository is scanned for drift; and how browsers are kept up to date.
The code is a Go modular monolith (`src/backend`) over one SQL database, a
daemon (`anpm-connector`) that polls it, a React front end and three Python
adapters. SQLite runs with one connection (every statement is serialised);
PostgreSQL runs with a pool at READ COMMITTED.

## The system and its parts

| part | state it keeps | operations | what is hard about it |
|---|---|---|---|
| planning run store | `planning_runs`, `agent_runs`, `backlog_candidates` | one SQL statement or transaction each | some writes are guarded by the current status, some are not |
| orchestrator | none of its own; one invocation per created run | insert, mark running, audit row, generate, drafts, complete, `failRunPair` | nothing encloses the steps; a cancel or a daemon comes between |
| connector dispatch | leases on runs; the daemon's current run | claim (sweep, lease), submit result, revoke | stale results, overlapping submissions, lost replies |
| task dispatch | `tasks.dispatch_status`, `execution_result` | claim with stale-role drain, submit, requeue | no lease, no holder, check then act |
| candidate review | `backlog_candidates`, `task_lineage`, `actor_audit` | update, apply, requirement deletion | review against apply, duplicate titles, two kinds of locks |
| backlog items | `backlog_items` | create, update, commit to task | decisions on a row read before |
| connector registry | `local_connectors` and its metadata JSON, pairing sessions | pair, heartbeat, probes, CLI configs, revoke | one-time codes, a queue inside a JSON document that every request rewrites, exactly one primary |
| daemon: probes and reports | queue of probes, results not yet delivered, last activity | heartbeat loop, probe worker, reporter | failed calls put results back, restarts forget everything |
| CLI execution | a process, its output, a deadline | run claude, codex or an adapter | signals, descendants that keep the pipe open, a cap on the output |
| account bindings | `account_bindings` with an active and a primary flag | create, update, delete | the row is read outside the transaction, two unique indexes |
| planning settings and providers | `planning_settings` | update, resolve, generate | resolved twice, settings change between |
| planning context | none; five queries per run | build, reduce, deliver | no snapshot across the queries, cut to a number of bytes |
| suggestion ranking | none | score, sort | clamps, roundings, penalties that may help |
| repository sync, drift | `sync_runs`, `drift_signals`, `documents`, `last_sync_at` | sync, resolve, refresh | windows and sets read once and used later |
| activity hub | the last activity of each connector, streams | report, broadcast, persist, purge | three queues that drop or reorder |
| event broker | a Go slice of channels per user | subscribe, publish | a slice used after its lock is released |
| front end, accounts, documents, search, wiring | | | single statements, text, rendering |

The parts meet in the database only: a browser request and a daemon request
never call each other. The daemon is a single loop (`connector/service.go`
`Run`): heartbeat, claim a run, execute it, post the result, and only when no
run was waiting claim a task. PROJECT.json lists every part with its source
files, and under `hazards` every place where the code is hard to test.

What makes each part correct: a planning run is active at most once per
requirement, held by at most one eligible daemon, settled once; its drafts and
its audit row agree with its outcome; a queued run is eventually served; an
expired lease is eventually reclaimed. A task is created once per candidate, a
claimed task is settled by its claimer; a pairing code is used once; a
non-empty CLI config list has one primary; a persisted snapshot is never older
than the one before it.

## The modules

`PlanningRunStore` holds the tables and one operator per SQL statement. Time
is abstracted: `lease_expires_at` is `null`, `live` or `lapsed`, and
`LeaseLapse` is the clock. `drafts[r]` is the set of authors whose candidates
carry the run id (`None` is the server); the candidates' contents do not
matter here. Run ids are numbers in creation order, which is the claim order.

`Orchestrator` is `RunWithBindingSnapshot` and `failRunPair`, with the
browser's create and cancel. `orch[r]` names the next call of the invocation
that created run `r`. A call that fails with `DbFaults` takes the code's error
path (`AfterError`). `CreateLocal` offers every combination of dispatch
columns that `resolvePathBBinding` can produce: nothing, an account binding,
or a pin on a connector; never both.

`ConnectorDispatch` is `ClaimNextRun`, `SubmitPlanningRunResult`, revocation,
and the daemon's loop. `poll[c]` is the open claim request, `exec[c]` what the
daemon runs, `submit[h]` the submit request in handler `h` with the call it
makes next. The daemon does not wait for the answer: when its connection
breaks, `RunOnce` returns an error and the loop goes on while the server still
works on the request. Two merges are made, both of steps that commute:
authentication with the sweep, and authentication, lease check, audit-row
lookup and payload validation of a submission.

`PlanningSystem` composes them with the clock and `ServerCrash` and states the
properties. `DispatchQueue` is the abstract specification: a FIFO work queue
with eligible workers, one holder per job, one open job per topic, jobs settled
once. `MCPlanning` instantiates the constants, `PlanningSystemProofs` holds the
proofs.

`TaskStore` is the `tasks` table. A task and its `task_lineage` row are
inserted in one transaction and deleted together, so they are one record; the
foreign keys `ON DELETE SET NULL` appear as `None`. `open` is status todo or
in_progress. Ids are numbers in creation order and are not reused: `Tasks` bounds
the tasks ever created.

`TaskDispatch` is `ClaimNextTask`, `SubmitTaskResult`, requeueing and
`RunOnceTask`. `drained[c]` counts the stale tasks the open claim request has
failed; each iteration of the code's loop is one transaction and one action.
`work[c]` is the task the daemon executes; every path of `RunOnceTask` after
the claim posts exactly once, so `PostTaskResult` clears it. `post[h]` is the
result request with the result it carries: `ResultCheck` reads, `ResultWrite`
writes without looking again. The server stores no result for a success that
comes without one (`task_store.go:629`); the daemon of this repository never posts
one, and `ResultOnlyWhenSettled` rests on that.

`CandidateReview` is `BacklogCandidateStore.Update` (`EditRead`, `EditWrite`),
`ApplyToTaskWithMode` (row lock, title lock, decision, insert with commit, then
the promotion outside the transaction) and the deletion of the requirement,
whose check and `DELETE` are separate statements. The locks are those of
PostgreSQL: `FOR UPDATE` rows and the advisory lock on project and title, which
`ApplyLockTitle` takes while it holds the row; an `UPDATE` waits for a row
lock. SQLite, with one connection, allows a subset of these interleavings.
A PATCH changes one column at a time and writes all of them back, as the code
does. A title is compared by two keys: `GoKey`, `strings.ToLower` of the trimmed
title, names the advisory lock and the value looked for, `SqlKey`, `LOWER(TRIM())`
of the database, is what rows are looked up by. They need not fold the same
letters: SQLite and a C locale fold ASCII only. `audit[c]` is the last audited
role.

`BacklogItems` is create, PATCH and `CommitToTask`. `Delivery` composes the
four with edits of tasks by hand and `Deploy`: a restart with a build whose
role catalog lacks a role, which kills the requests in progress. `MCDelivery`
instantiates the constants, `DeliveryProofs` holds the proofs.

`CliConfigs` and `ProbeRequests` are the operations on the metadata document of
a connector: what one request makes of the configurations, and of the pending
probes and their results. `ConnectorRegistry` is the abstract registry, in which
each of these happens to a row at one instant. `ConnectorLink` is the code: a
request is asked, locks rows (`tx[t].seen` is what it has read), commits what it
computes from them, and is answered, while other requests, the daemon's loop,
its probe worker, timeouts and restarts go on. `lapsed` holds the pairing
sessions past their expiry; `daemon[c]` is the process paired as `c`. It shares
`session`, `row` and `minted` with the registry, so the refinement mapping is
the identity and `ImplementsRegistry` is the registry's specification. A request
that fails before its commit is a stutter of the registry, one that fails after
it loses its reply only: a machine whose pairing reply is lost leaves a pending
connector that nobody can use.

`AccountBindings` is Create, Update and Delete of the rows of one user. `edit[t]`
is an update between its read and its transaction. In the transaction the code
switches off the other active and primary rows it can see (`Others`), each
statement in a snapshot of its own (`Snapshots`), and the unique indexes see all:
`IndexesAdmit` is what a concurrent insert runs into.

`RepoSync` is `SyncService.Run` in the steps between which others may come:
start, read the commits of the window, match documents, mark stale, create
signals, decay, stamp `last_sync_at`, complete; with commits that land at any
time, dated now or earlier (a merge), refreshes of documents, and signals that
users post and resolve. The first scan looks back for `FirstWindow` only. The
beginning of the window is handed to git in UTC without a zone, and git takes it
for local time: `InWindow` shifts it by `ZoneOffset`. A signal is inserted and
then read back; when that fails the scan goes on as if there were none
(`doubtful`). `logged` are documents whose marking failed and which the log names.

`ActivityHub` follows one activity from the reporter through the POST handlers
and the hub to the snapshot in the database and to each stream's channel.
`EventBroker` models Go slices as what they are, a part of an array in `heap`:
`append` writes into the array while it has room, removal shifts it in place,
and `Publish` walks the slice it copied without the lock.

`CliExecution` is one invocation, for a planning run, a role task or a probe
(`purpose`): which CLI, the process, the copy of its output through
`boundedWriter`, the deadline, SIGTERM, the grace period, SIGKILL, `WaitDelay`, and
what becomes of the output. `claude` and adapters write to a pipe, `codex` to a
pseudo-terminal. A CLI may end with either status after any number of pieces, also
on SIGTERM. A run or a task refuses output that was cut, a probe drops the flag
and looks at what is left. `PlanningContext` is the five queries, one
after the other, then the reducer: a source is the number of its items, best
first, and `sizes` gives the bytes of n items. For a model the documents are cut
to a sample before the reducer and every list once more behind it
(`CompactFromWire`): `read`, `given`, `kept` and `sent` are the numbers of items at
each of these places. `ProviderSelection` is saving the
settings (a read, then a write), the user's binding, and the two resolutions of
a run. `SuggestionRanking` is arithmetic on a `situation`, in hundredths
and tenths instead of floats; each action changes one thing of the situation, so
that a property can compare the scores before and after. Of failed agent runs
the situation keeps the number of different lines among the newest few: the code
cuts the list first and removes equal lines afterwards, so one more failure may
add a line, replace one, or leave one fewer (`Resampled`).

These components share no state with one another: `MCServices` and `MCWorkers`
run each of them in behaviours of its own (`part`), with one name standing for
slots of several parts.

Operators named `X_Something` are mutants of `X`: plausible bugs, each of which
breaks the property it is listed with in PROJECT.json.

## The runs

| run | instance | shows |
|---|---|---|
| `contention` | 1 local run with and without a binding or a pin, 2 daemons of one account on protocols 1 and 0 and 1 of another account, 2 submit requests, losses | `DispatchEligibility`, `NoOrphanDrafts`, `AuditNeverOverclaims`, `SettledIsFinal` under every overlap of two submissions; a run's life implements `DispatchQueue` |
| `faults` | 2 runs of both modes on 1 requirement, 1 daemon, database errors, losses, crashes | `TypeOK`, `LeaseCoherence`, `OneActivePerRequirement` |
| `queue` | 2 runs with and without a binding or a pin, 1 daemon on protocol 0 that answers or loses | `QueueDrains`, `LapsedLeaseIsReclaimed`; claims implement `DispatchQueue` in FIFO order |
| `apply` | 2 candidates that may share a title, which has two spellings that Go folds alike and SQL does not, 2 applies, 1 PATCH of titles and statuses, under fairness | `AppliedOnce`, `OneOpenTaskPerTitle`, `ApplyIsAnswered` |
| `dispatch` | 2 projects, a daemon in both and one in the second, 1 result request, 2 role tasks, losses, requeues, deletions, deploys, under fairness | `TypeOK`, `SingleExecutor`, `ResultOnlyWhenSettled`, `SettledTaskIsFinal`, `TaskQueueDrains` |
| `commit` | 1 item that may name the candidate, PATCHes of both, an apply with failing transactions, deletions of tasks and the requirement | `CommittedOnce` |
| `services` | link: 2 requests, 2 connectors of which 1 has a daemon, 1 pairing code, 1 binding, 1 configuration; accounts: 2 rows, 2 providers of one namespace, 2 requests; sync: 1 commit, 1 document, 2 scans, 1 posted signal; hub: 2 reports, 2 POSTs, 2 streams; broker: 2 streams, 2 publications, channels of 1; context: up to 2 items a source, 2 scans | `CodeUsedOnce`, `RevokedIsFinal`, `ImplementsRegistry`; `NoConflictAlone`, `QuietEditsKeepSelection`; `ChangesAreFlagged`, `OneSignalPerScan`; `NewestIsOnItsWay`, `StreamIsCurrent`; `ListIsExact`; `CutIsFair`, `SignalsBehindScan` |
| `workers` | link: 1 request, 1 connector, 2 probes of 1 binding, faults and restarts; cli: up to 3 pieces of output, caps of 2; ranking: 1 requirement, both providers, samples of 2 failures and 1 completed run; selection: 1 administrator, 1 model, lists of none or one; under fairness | `OneProbePerBinding`, `AnswersAreFinal`, `ProbesAreAnswered`; `SuccessIsWhole`, `InvocationEnds`; `DuplicatesNeverHelp`, `TroubleRaisesValidation`; `CallIsAsRecorded` |
| `drafts`, `cancel`, `roles`, `broker` | smallest instances | the four findings below |

Planning: two submit requests are enough for every race on one run: a third can
only repeat what one of the two does, since a request reads nothing of another
but the three tables. Two runs are enough for the queue (one older, one
younger) and for the unique index. The number of lapses, losses and requeues is
not bounded. `queue` posts failures only: the result does not matter to the
queue; how a run is settled is the subject of `contention`. `faults` posts drafts
only, the result with the most writes to fail; one that reports a failure, and
then marks the audit row and the run failed, is in the other two runs and, with
faults, in the proofs. At most one claim request per daemon is open at a time.

Delivery: two applies, for one candidate or for two of one title, are all that
a lock can tell apart, and one PATCH open at a time can be stale against both.
Two tasks are enough for an old and a new one. `StaleDrainCap` is 1 or 2, so the
cap is met; the code's is 16. `OneOpenTaskPerTitle` speaks of
what applies do, hence of users who neither rename nor reopen tasks, and of titles
that both keys fold alike; the other spelling is in the instance, so that the lock
and the lookup do disagree in it. The transactions of `commit` fail one at a time;
failing changes no table.

Services: a lost update, a code used twice or a unique index violated needs two
requests that overlap, and no third: each reads and writes the same row or two
rows. Of the second connector only the row matters, which a scrub locks together
with the first. Two subscribers are the least for which removing one shifts the
other; the violation of `PublishReachesAll` needs three. `CutIsFair` needs two
sources of which the one with fewer items is larger. Probe ids are bounded by
`Probes`, reports by `MaxReports`, rows of the context by `MaxRows`, scans by
`MaxScans`; the caps of the code (`MaxPendingProbes`, `MaxCliConfigs`,
`MaxStreams`, `Buffer`, `ChannelSize`) are 1, so that they are met. One commit
on the branch can be inside, before or behind the window of either scan, also of
a first scan, which looks back for 1 while the clock runs to 3 (`MaxClock`) and
beyond with commits. `ZoneOffset` is 0 there: `ChangesAreFlagged` asks for nothing
west of UTC, and to the east the window is only wider, which the proof covers. A
behaviour of the sync has at most two incidents (`FewIncidents` in `MCServices`):
scans, signals of users (`MaxPosted`, with the triggers in `PostedTriggers`), and
failures that reach the log: two scans when all goes well, or one scan next to one
such failure or one posted signal. Scans that fail as a whole, restarts and failed
stamps are no incidents. `SampleLimit` is 1 and two sources have two items, so the
second cut for a model takes something. What the instances leave small the theorems
below say for all values.

Workers: two probes of one binding let the second be asked for after, or
instead of, the first. The caps are one piece smaller than the longest output, so
that it may fit, just fit or be cut. The requirement has three urgent words, with
which the urgency of the validation reaches its top in some situations and not in others;
one duplicate title is enough for the step from none, and `FailureSample` is that
of the code, so that a repeated failure can push a line out. One model, in the list
of a binding or missing from it, tells apart all that the resolution does with
models but their order, which the proofs cover.

Fairness: requests in progress run to their end, daemons keep polling and
finish what they execute, the clock advances. Requests by users, cancels,
revocations, deletions and losses are never forced. Posting a result has strong
fairness, because only the bound on `Handlers` or `Posts` ever disables it: the
server accepts any number of requests. So has an apply, because PostgreSQL
queues the waiters of a lock. The daemon looks for a task only in a round that
found no planning run (`service.go` `Run`); that such rounds come again and
again is assumed for `TaskQueueDrains`. `QueueDrains` is conditional: if from
some time on no lease lapses, that is, daemons answer within ten minutes;
otherwise a run whose execution never fits its lease is requeued for ever and,
being the oldest, keeps the others waiting: the code has no retry limit.
`TaskQueueDrains` is conditional on users who stop requeueing failed tasks.

In `workers`, requests to the registry run to their end, daemons go on sending
heartbeats and their workers execute what is queued. Locking has strong fairness,
because a database queues the waiters of a row, and so has sending, because only
the bound on `Txs` ever disables it. `ProbesAreAnswered` is conditional: from some
time on no request fails, no call times out and no daemon restarts. For a CLI the
clock, os/exec and the copy go on, while the process and its descendants owe
nothing: `InvocationEnds` is due to the deadline alone, hence excludes what the
adapter path does not bound (see below). Nothing of one part is ever enabled in
the others, so their fairness asks nothing of them.

## Findings

- `drafts`: a submission that lost its lease removes its drafts with
  `DeleteByPlanningRun`, which also removes the drafts of the daemon that took
  the run over and completed it.
- `cancel`: the orchestrator's writes carry no status guard, so a cancelled
  server run is brought back.
- `roles`: a PATCH of a candidate's title or status writes back the role it
  read, over a role set meanwhile, without an audit row.
- `broker`: `Publish` walks its copy of the slice while `unsubscribe` shifts the
  shared array, and skips a stream whose channel has room.

The models show more of the same kind; they have no run of their own:

- drafts of an expired callback are inserted all the same, until the request
  removes them (`local_connectors.go:419`);
- a stale request marks the shared audit row failed after the run completed,
  and a local run that is finished before the orchestrator creates its audit
  row leaves that row running (`local_connectors.go:442`, `orchestrator.go:118`);
- the same PATCH takes an applied candidate back to draft, although applied
  candidates are documented as immutable (`backlog_candidate_store.go:420`);
- drafts can be applied, although only approved candidates are documented as
  applicable (`backlog_candidate_store.go:538`);
- a requirement can be deleted under an apply that commits between the check
  and the `DELETE` (`requirements.go:139`);
- a PATCH of an item's status overwrites `committed` (`backlog_item_store.go:257`);
- a task created through the tasks API with a `role_dispatch:` source is not
  queued, although the data model says it is (`task_store.go:184`);
- a publication that meets a closed channel panics (`broker.go:54`);
- a PATCH of a binding that another request has switched off or deleted writes
  the flags it read, which takes the primary from the binding that has it
  (`account_binding_store.go:538`);
- `UpdateCliConfig` is documented to reject `is_primary=false`, and ignores it
  (`local_connector_store.go:985`, `:1056`);
- a sync whose process dies stays running, and a merged commit that is dated
  before the last sync is never looked at (`sync_service.go:166`);
- on a server west of UTC the window of a scan begins hours after the last scan,
  because its beginning is passed to git without a zone; what was committed
  between is never looked at (`scanner.go:21`);
- a drift signal that was inserted but could not be read back is raised again by
  the second phase of the scan (`drift_signal_store.go:60`), and a user may post
  a signal with any trigger and the id of any scan (`drift.go:47`);
- on SQLite, or with a C locale, two candidates whose title has a capital
  outside ASCII get two open tasks: the lookup compares Go's folding with the
  database's (`backlog_candidate_store.go:927`, `:970`);
- a model is told how many items the byte cut dropped, not how many the cut to
  three and the omission of the planner's own runs did
  (`openai_compatible_provider.go:465`, `:512`);
- a failure of an agent like the one before it lowers the scores of validation
  by a line of evidence, because the two newest failures are taken before equal
  lines are removed (`generator.go:749`);
- a probe whose output was cut counts as answered (`probe.go:51`);
- a binding whose model is not in its list is accepted and makes every run that
  uses it fail (`account_binding_store.go:399`);
- documents are matched by file without the project (`document_link_store.go:77`);
- a descendant that keeps the standard output of an adapter open keeps
  `ExecuteExecJSON` waiting past its deadline (`adapter.go:84`);
- the terminal of codex is closed before it is drained, although the comment
  says that all output is captured (`builtin_adapter.go:655`, `:678`), and a CLI
  that ends with status 0 on SIGTERM hides the timeout (`dispatch_safety.go:125`);
- the persisting goroutines of the hub are not ordered, so a snapshot may be
  older than the one it replaces (`hub.go:118`);
- `Generate` resolves the settings a second time, so the recorded source of the
  credentials may differ from the one used (`settings_backed_planner.go:74`);
- duplicates are looked for among the hundred tasks updated last
  (`context_builder.go:78`);
- the first suggestion calls itself the top recommendation although another one
  may rank above it (`generator.go:165`); for a model's suggestions a failed sync on
  top of failed runs lowers the score of validation by 0.6.

`AppliedOnce` and `CommittedOnce` say what these stale writes do not break: the
decision to create a task rests on the lineage and on `task_id`, never on the
status.

## The proofs

All hold for any constants that satisfy the assumptions of the modules.

`PlanningSystemProofs`, with faults, losses and crashes: `TypeCorrect`,
`LeasesCoherent`, `OnlyEligibleDaemons`, `OneActive`, `SettledFinal`.

The inductive invariant `IInv` conjoins the type invariant, `LeaseCoherence`,
`DispatchEligibility`, `OneActivePerRequirement` and `OnlyServerRunsGenerate`.
The last one is the strengthening: the unguarded writes (`MarkRunning`,
`Complete`, `Fail`) would break a local row, and what protects local rows is
that the orchestrator returns before it gets there. The argument is by
statement: `WriteRow` says which single-row writes keep the table good,
`SettledRow`/`SettleRun` cover all terminal writes, `SweepKeeps` the only
statement that writes many rows, `LeasedRow`, `LapsedRow` and
`MarkRunningKeeps` the others; each handler step is then one of these, or
leaves `planning_runs` alone (`SameRuns`). `SettledFinal` follows from the same
invariant: a settled local row satisfies no write's guard.

`DeliveryProofs`, with losses, faults and deploys, in four inductive invariants
on top of `TypeInv` (types, and that a request in progress names an existing
candidate, without which no write of a stale request could be typed):

- `DispatchInv` gives `OneExecutorPerTask`, `ResultsOfSettledTasks` and
  `SettledTasksFinal`. `SingleExecutor` alone is not inductive: a task not yet
  inserted must be with nobody. That a result is never overwritten follows: the
  write without a guard meets its own attempt, because a task that is still
  with a request cannot have been requeued. `OutsideDispatch` says once what
  all other steps do to the dispatch columns.
- `ApplyInv` gives `CandidatesAppliedOnce`: between deciding and inserting
  (`StillUnapplied`) only the holder of the row lock can insert a task of the
  candidate (`RowLockExclusive`).
- `TitleInv` gives `TitlesUsedOnce`, under `TitlesKept`: the same for the title
  lock, whose key, Go's, does not move because a PATCH waits for the row
  (`TitleFixed`). That the lookup by SQL's key then sees every open task of the
  title needs `FoldsAlike` of the older task, and that tasks are numbered as they
  are created (`IdsInOrder`) says which one that is.
- `ItemInv` gives `ItemsCommittedOnce`: the live task of an item is the one its
  `task_id` names.

`OrphansNever` and `AuditsTrue` (in `PlanningSystemProofs`) are about requests at
rest and assume `NoFaults`: no database call fails and the server does not die.
`CalmInv` adds to `IInv` what makes them inductive: whoever inserts drafts or
completes an audit row has the run in hand (`DraftsInHand`, `AuditInHand`) until
it completes it or takes them back, and no completed run is reopened
(`CompletedStays`): a local one by `SettledFinal`, a server one because its
orchestrator is done (`RequestsKnowTheirRuns`).

`ConnectorProofs`, for any number of sessions, connectors, bindings, probes and
concurrent requests: `LinkTypeOKAlways`, `LinkImplementsRegistry`,
`OneProbePerBindingAlways`, `CodeUsedOnceAlways`, `ConfigsCoherentAlways`,
`RevokedIsFinalAlways`, `AnswersAreFinalAlways`. `LinkInv` conjoins what holds of
the tables (`RegistryInv`), of the daemons, and of the transactions: what a
locked request has read is still the row, no row is locked twice, and the code
of a locked pairing is still claimable (`LocksOK`). With it every commit is the
registry's operation on the present row, and every other step leaves `session`,
`row` and `minted` alone: that is the refinement. `RevokedIsFinal` and
`AnswersAreFinal` are then facts about the operations. `AnswersAreFinal` needs
that ids in rows were drawn before, so that a new probe is new.

`CliExecutionProofs` (`SuccessIsWholeAlways`): the output kept is the output read
unless the flag is set, when the copy ended on a CLI that was not killed, what was
read is what was written, and only a process that has exited has a status
(`ProcessIsSound`). `RepoSyncProofs` (`ChangesAreFlaggedAlways`,
`OneSignalPerScanAlways`): `ScanOK` says, phase by phase, what a scan has already
put on record and what it still has to do; that the next window reaches back to
the last stamp is where `ZoneOffset >= 0` is needed. A second signal of a scan
is preceded by a doubtful first one of the other trigger.

`QueueImplemented` (in `PlanningSystemProofs`) is the refinement: the local rows
of `planning_runs` are the work queue `DispatchQueue`. It assumes `StoreWorks`,
that no database call fails: an orchestrator that cannot write the audit row marks
its local run failed, in whatever phase it is, which a queue does not do. Lapsed
leases, lost replies, overlapping submissions and server crashes are all allowed.
`QueueInv` adds to `IInv` that an invocation leaves the row of a local run alone
(`InvocationsBelong`) and that ids are drawn in order (`NoGaps`), without which
the oldest waiting row would not be the first job created. Each statement is one
operation of the queue (`CreateRefines`, `LeaseRefines`, `SweepRefines`, which
takes any number of jobs back at once, and `SettleRefines`); `AbsentStays` and
`QueueStutters` cover all other steps.

`StreamProofs` has two parts. For the activity hub, `NewestAlwaysOnItsWay` and
`StreamAlwaysCurrent`, for any number of reports, handlers and streams and any
channel sizes: `HubInv` adds to the two properties what carries a report from
place to place. A report that is coalesced has the phase of the entry it replaces
(`LastIsQueued`); the daemon waits only with a batch in hand (`CallHasBatch`);
until a report is given up, the only handler at work has the head of that batch,
and once it is broadcasting the hub shows it (`HandlerHasHead`). For streams,
`StreamIsCurrent` is not inductive: while a handler walks the subscribers, those
it has not reached are behind. `StreamFollows` says that all broadcasts still due
to a stream without a gap carry the state of the hub, and that a stream to which
none is due has it. For the broker, `ListIsExactAlways`: places in the protected
slice and open streams correspond one to one, whatever array the slice is in.

`ProviderProofs` has two parts as well. For account bindings,
`AloneMeetsNoConflict` and `QuietEditsKeep`, for any number of bindings,
providers, namespaces and requests. `BindingsCoherent`, what the unique indexes
protect, is inductive with the types, which hold one fact of weight: the row a
PATCH without flags is about to write has the flags it read (`UpdateOK`). That a
request which sees every earlier write meets no conflict follows from the demotion
that precedes its write, and from nothing about other requests. For the choice
of a provider, `CallIsAsRecordedAlways` and `SavedSettingsWorkAlways`: a registry
that is made offers the model it names, and a job remembers the modes in force
since it began.

`GenerationProofs` follows a planning run from its context to its suggestions.
`CutIsFairAlways` and `SignalsBehindScanAlways`: the reducer's loop invariant
`CutSoFar` is that the last item dropped of each source did not fit and came from
a largest source; `ReadIsGiven` ties what the reducer got to what the queries
returned, whole for a daemon and sampled for a model. `DuplicatesNeverHelpEver`
and `TroubleAlwaysRaisesValidation` are arithmetic, for any number of duplicates and runs and any requirements: the
invariant `RankingInv` only says that the drafts are made for the situation at
hand, and the work is in bounds on each term of the score. One more duplicate
costs 6.5 points directly, more than the line of evidence it adds can bring, and
the penalty on confidence never falls; where the score is clamped it is zero
already, and the place can only get worse because no other score moves. Trouble
raises each factor of the validation or leaves it, except that a failed scan
costs three points of the dependency factor and a repeated failure one line of
evidence (`OneLineLess`), whose points the property names; the confidence it adds makes up for
that, unless duplicates (nineteen or more) hold confidence down, and then the
score is zero before and after.

`ConfigsCoherent`, `SavedSettingsWork` and the `TypeOK` of `ConnectorLink` are
proved and belong to no run (TLC cannot enumerate what a request may have read);
each was checked as part of an inductive invariant on small instances.

Only model-checked is liveness, which is beyond TLAPS (`QueueDrains`,
`TaskQueueDrains`, `ApplyIsAnswered`, `LapsedLeaseIsReclaimed`,
`ProbesAreAnswered`, `InvocationEnds`). The properties of the four runs that expect
a violation do not hold.

## Not modelled

Texts, prompts, parsing and rendering; the HTTP calls to model providers;
authorization beyond ownership and membership (which does not change);
accounts, sessions and API keys; migrations and wiring; projects, documents and
search but for what the scan reads and writes; the command line of the daemon
and its state file, of which only the token survives a restart; demo seeding;
the `connector_cli_info` envelope, a JSON document that three writers read,
change and write and that is shown to users only. Cloning and fetching a
repository is a step of a scan that may fail. On PostgreSQL, `SKIP LOCKED` may
pass over an older run whose row another transaction holds at that moment,
which the FIFO claim of `DispatchQueue` leaves out. A revoked connector is, to
task dispatch, a daemon that loses its task.

## The plan

1. `OrphansNever` and `AuditsTrue` with faults: which calls may fail without
   leaving drafts or a wrong audit row behind.
2. `RunEnvelope`, the document named above, if something comes to depend on it.
