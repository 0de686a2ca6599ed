# Mirrorlane: specification and proofs

Mirrorlane keeps an append-only log of messages and derives everything else from
it: a projection of each message, conversation scopes and warm-ups, expertise,
routing decisions, developer snapshots. This directory holds TLA+ modules for the
parts of it that keep state or run concurrently, TLC configurations that check
them on small instances, and TLAPS proofs of the properties that matter most.

Paths below are relative to `crates/`; `worker` stands for `mirrorlane-worker/src`,
and so on for the other crates. `spec.md` is `openspec/specs/mirrorlane/spec.md`.

    tlc -workers 2 -config MCInspect.cfg MCInspect.tla
    tlapm GitHubIngestProofs.tla

PROJECT.json has the full lists: which source lines each definition translates,
the runs, a mutant of the code's behaviour for every checked property, the hazards,
and the theorems.

## 1. Inventory

| Part | Source | State it keeps | Operations |
|---|---|---|---|
| Message log | core/message_log.rs, storage/sqlite_message_store.rs | order of ids, envelope of each id; in SQLite the `messages` table with `seq` | append (insert or edit in place), get, all, conversation_ids, messages_for |
| Schema migration | storage/sqlite_common.rs and each store's `init` | `PRAGMA user_version` of the file, the tables | open, migration steps, one transaction each |
| Semantic cache, projection cache | runtime/cache.rs, provider/caching.rs, storage/sqlite_projection_cache.rs | rows (version, key) -> projection | open and prune other versions; read, call the model, write |
| Derived-output cache and delivery | core/derivation.rs, worker/derived.rs, worker/submission.rs, storage/sqlite_derived_output_cache.rs, cli/commands.rs | rows (version, conversation, content) -> derivation | ingest, replay, warmup, verify, the handler of a submitted run, reclaim |
| Reference strategy pipeline | worker/replay.rs, worker/composition.rs, worker/lib.rs, worker/strategy.rs | the six in-memory stores of one run | project, scope, warmup, skill, hint, developer: one stage of jobs each |
| Router and route dispatch | provider/routing.rs, core/routing.rs, worker/lib.rs `RouteJob`, worker/routed_work.rs, github/consumer.rs | decision store, trace store, receipts, drafts, the routed-work lane | route, upsert trace and decision, dispatch to a consumer |
| Routing-trace store | storage/sqlite_routing_trace_store.rs | `routing_traces` and its rowids | upsert (insert, then prune to the cap), get |
| Strategy registry, submitted runs | worker/registry.rs, worker/submission.rs, cli/main.rs `submit`, `work` | registered factories; the strategy-run lane | resolve an id, submit, run, time out, acknowledge |
| Dead letters | worker/dead_letters.rs, cli/main.rs `dlq` | the broker's dead-letter store | read, count, requeue, purge |
| Job observer | worker/observer.rs | records of finished jobs | append a record |
| Skill index, hints, developers | provider/skill.rs, hint.rs, developer.rs | none (pure) | tally and rank the contributors of a topic, the reviewers of a message, the topics of a participant |
| Mock providers | provider/mock.rs, scope.rs, warmup.rs | none (pure) | find words, load components, list a conversation's decisions, questions and tasks |
| GitHub source | github/rest.rs, source.rs, model.rs | none; writes the log | two requests, map items to messages, append each |
| Model transports | llm, ollama, openai | none | one HTTP call; a panic at the boundary when it fails |
| Command line, configuration, broker selection | cli/main.rs, cli/broker.rs, cli/commands.rs | none | resolve settings (flag, environment, file, default), open the stores, call the library, print |

How they interact. Each `mirrorlane` process opens its stores on one `--db` file
(`main.rs` opens the message store first) and runs one command; several processes
may share the file, and nothing but SQLite's own locking orders them. A command
reads the log, runs a strategy over a snapshot of it, writes derivations to the
derived-output cache and serves them. The strategy sends jobs through a Worklane
broker per stage; a real projector sits behind the durable projection cache. Route
jobs read projections, write decision and trace, and hand the message to a
consumer, one of which enqueues a job on another lane under a uniqueness key. `inspect`
projects a message through the cache and prints the decision next to the stored trace.
`github` appends what two requests to GitHub returned. `submit` leaves a job on a broker
that other invocations of `work`, with settings of their own, find and run.

What is hard in this code, and hardly reached by its tests:

- read, compute, write in separate statements while other processes do the same
  (`Cached::run`, `populate_cache`, the trace store's insert and prune);
- state read twice where the log may move in between (the strategy's snapshot, the
  re-read of `populate_cache`, the listing of `warmup` after a hit);
- at-least-once delivery: redelivered jobs, lost acknowledgements, leases that
  expire under a running handler, retries after part of a job was done;
- failures that are contained and carried on from (a model's panic becomes a dead
  letter dropped with its broker; a reclaim that fails is swallowed);
- a kill between any two statements;
- two requests to a server whose data changes in between, one page each;
- processes that resolve their settings separately and meet on one queue;
- a version number that belongs to the file while each store counts its own steps;
- caps and bounds enforced only by writers.

What makes each part correct: the log holds each message once and never moves it;
a store that opened has its table and an upgraded log lost nothing; a cached
projection is the model's answer for its own key and does not change under a
reader; what is served is what a replay would produce, no message is silently
missing, and the cache does not grow; a strategy run depends on nothing but its
snapshot and on which projections failed; what is decided is delivered and
explained; the newest traces are kept; a repository ingested again converges and never
disturbs the log; an owner is whoever is most involved; a submitted run that is
acknowledged can be read, is repeated a bounded number of times and holds no worker
for ever.

## 2. Modules

Each module translates one part; comments at the top say what was abstracted.
Definitions marked *Mutant* are plausible errors in the code; no specification
uses them, and each property that TLC checks is violated once the mutant takes the
place of the definition it varies.

### MessageLog, SqliteMessageStore (durable log)

`MessageLog` is `trait MessageStore` as `InMemoryMessageStore` implements it: `order`
and `by_id` are the fields of `Log`, `AppendMessage` is `append`. It is the abstract
specification; a deterministic, single-lock structure whose interest is what it
promises. `SqliteMessageStore` has the columns `seq` and `payload`;
`AppendMessage` is the one INSERT with `MAX(seq) + 1` and its ON CONFLICT branch.
Since every operation is a single auto-committed statement, one action per
statement is any number of processes. `Log` maps the table to the abstract log
(the k-th id is the one numbered k); `ReadsAgree` compares the SQL reads with the
defaults of the port. `Sorting` has the one operator behind ORDER BY and `sort_by`: of the
enumerations of a set, one in which no member comes after one it goes before.

### GitHubIngest (filling the log)

Extends `SqliteMessageStore` with the command `github` and a repository. `FetchIssues` and
`FetchComments` are the two requests of `try_fetch`, `FetchFails` the error of either,
`AppendItem` one turn of the loop of `ingest_items`; other processes run, and the
repository changes, between any two of them. `Exit` ends or kills a process anywhere.
The repository is external: numbers and ids are given out in order and never again,
issues are listed newest first, comments oldest first, `PageSize` at a time, and an
issue takes its comments with it when it is deleted. `ParseRepo`, `NumberFromIssueUrl`,
`MessageId` and `ToMessage` are the conversions of `rest.rs` and `model.rs`; an
`issue_url` that ends in no number makes the conversation 0. `straddled` and the
field `quiet` are history: which issues were opened between two requests or pushed off
the page, or were first commented by hand, and whether anything changed since a command
began. `Ingest` is the command of that name: it appends an envelope under any id, also
the id of an item of the repository, which disturbs the commands that are running.

### SchemaMigration (opening the stores)

`Open` reads `user_version`, `RunStep` is one migration step and its version stamp
in one transaction, `Opened` the end of `migrate`. `RebuildMessages` is step 2 of the
message store (`ROW_NUMBER() OVER (ORDER BY seq)`), which may break ties in any
order. Initial states are all files that pre-version code may have left: any tables,
messages with colliding numbers. `File` says which stores share a file: one each
in `schema_own_files`, the CLI's single file in `schema_shared_file`. `AppendNew`
lets an opened log be used while another process still migrates; `Exit` is a
failed step, the end of the process or a kill.

### ProjectionCache, TraceStore, Inspect (semantic cache, traces, and their readers)

A process opens the cache at a projector version, which deletes the rows of every
other version, and then projects keys: `Hit`, or `Miss` - `InnerReturns` or
`InnerPanics` - `Put`, with other processes between any two of these. A model may
answer differently each time. `wrote` and `answers` are history.

`TraceStore` has the rowids of `routing_traces`. `Insert` and `Prune` are the two
statements of `upsert`; a row that is updated keeps its rowid, as ON CONFLICT DO UPDATE
does. `Reopen` ends a process, perhaps between the two, and starts another.

`Inspect` composes them: a host that routes projects a message through the cache and
upserts the trace of what it got (`RouteInsert`, `UpsertPrune`), `inspect` projects
the message through the same cache and shows the stored trace (`InspectShows`). It is
the run of this composition that checks the properties of both stores. No command of
the CLI writes traces; `RouteJob` in a host that links the library does.

### DerivedOutput (delivery)

The core of the system. Processes run `replay`, `warmup`, `verify` or `work` (the
handler of a submitted run) against the shared `log` and cache `rows`. `pc` follows
`commands.rs` and `derived.rs` statement by statement:

    warmup:   hash - get - hit - done
                         - (miss) run - populate - (write - reclaim)* - assemble - report - done
    replay:   run - populate - (write - reclaim)* - report - done
    work:     run - populate - (write - reclaim)* - done
    verify:   run - populate - (check - compare)* - done

`RunStrategy` takes the snapshot, `Regroup` is the second read of the log in
`populate_cache`, `Put`/`Reclaim` the upsert and the prune, `WarmupAssemble` and
`Report` the later listings of the log. `Exit` ends or kills a process anywhere.
Bodies stand for their projections (that they are fixed is `ProjectionCache`'s
work). `Ingest` replaces the whole envelope of a message: its conversation, its author
and its body. A content hash covers ids and bodies only, so what a derivation takes from
elsewhere is kept beside them: the participants, which depend on the authors, and the
ownership, which depends on the projections and authors of the whole log. `from` is
history, the run a row was made from, and so is `moved`, the messages that changed
conversation while a command ran. `MayFail` names the messages whose projection may fail.
`QuietIngest` confines ingest to moments when no command runs.

### Providers, StrategyResult, StrategyRun, ReplayPipeline (reference strategy)

`Providers` holds the pure ports: what the mock projector finds in a body, the clamps
of confidence and score, tallies, rankings and normalization of `skill.rs`, `hint.rs`
and `developer.rs`, the components a scope loads and the messages a warm-up lists.
Authors and topics are numbers, since the code orders them; a score is an exact fraction
where the code has an f64, so a tie is exact here and may be split by rounding there.

`StrategyRun` states what a run promises, for any strategy: one snapshot, later one
result that is a function (the constant operator `Derived`) of the snapshot and of the
messages whose projection failed. `StrategyResult` is that function for the reference
strategy, over the ports. `ReplayPipeline` runs the six stages job by job: `Deliver` runs a
handler and either acknowledges the job or leaves it to be delivered again,
`ProjectFails` is a contained panic (retried, then dead-lettered), `NextStage` is the
return of `run_stage`. `Run` is the refinement: the result is the six stores once the
last stage is done. The projector is any function of the body whose confidences are clamped
and whose topics form a list (`ProjectorAssumption`); as a number here, a topic is known by
the place of its name in their order.

### RouteDispatch (routing edge)

Workers reserve requests and run `RouteJob::run`: `Skip` for a message without
projection, `Route`, `UpsertTrace`, `UpsertDecision`, then `Dispatch` or
`DispatchFails`, one statement each. The broker is external and modelled as this
code uses it: leases that may `Expire` under a running handler, attempts and
deliveries up to a bound, reports of a stale holder refused, acknowledgements that
may be lost, `enqueue_unique` that adds nothing while a live job holds the key.
`Project` lets other runs re-project a message at any time. Consumers are the
recording, the GitHub draft and the Worklane consumer, and a kind without one.

### JobQueue (submitted runs)

An invocation is a record of flags, environment and configuration file; `Queue`,
`Strategy`, `Provider`, `MaxDeliveries` and `DeadLetterMax` resolve it as `main.rs` and
`broker.rs` do, and `Usable` is every early return before a command acts. `Submit`
enqueues the strategy id unchecked. A `work` process keeps the settings it was started
with, reserves jobs of its queue and refuses an id its registry does not have (`Refuse`).
A run of a projector other than the mock asks a model, in a synchronous request that may
never come back (`CallModel`, `CallReturns`). The handler timeout ends a run at an await,
never within such a call (`Timeout`). `Publish` and `Reclaim` are the two statements of
`populate_cache`, which has no await: the row of this worker's version is written, then
the rows of all others are deleted, unless that statement fails and is swallowed. The
strategy `empty` derives nothing and writes no row. Then the job is acknowledged; the
process leaves when nothing can be taken now. `Requeue` and `Purge` are the operator's.
The workers share one database whose log stands still, and the cache is seen through one
conversation of it; what a run derives is `DerivedOutput`. `Shell` says which invocations
a process may be started with.

Worklane is external: a failed attempt is delayed and retried up to `MaxAttempts`, so
`work` may leave with a retry still waiting; each reservation counts a delivery, and the
backstop is that of the handle that reserves; a dead-letter store keeps the newest
`DeadLetterMax` of the handle that writes it; a requeued job starts afresh; reports of a
process without the lease are refused; the timeout acts at an await of the handler.

### MC modules

`MC<Module>` extends its module with the functions a .cfg cannot write (who is in
which conversation, topics, rules) and the symmetry sets. Symmetry is used for
processes only, or for sets no definition tells apart, and never with liveness.

## 3. Runs

| Run | Shows | Bounds |
|---|---|---|
| `github_ingest` | Under ingests, edits, deletions, failures and kills the table implements the log (`ImplementsLog`), numbers are dense (`DenseSeq`), SQL reads answer what the port's defaults do (`ReadsAgree`); a comment follows its issue (`IssueBeforeComments`); an undisturbed ingest leaves every fetched item current (`CompletedIngestIsCurrent`) | 2 processes, an issue, a pull request and a comment, pages of 1, 1 edit or deletion, and an envelope of the second conversation that is ingested by hand under any id; 118,108 states |
| `schema_own_files` | A store that opened has its table (`OpenedStoreHasTable`), the version is never ahead of the schema (`VersionIsHonest`), an open log is dense (`OpenedLogIsDense`), migration loses and reorders nothing (`LogSurvives`) | 2 processes, 2 stores, 3 messages with legacy numbers out of {1, 2, 4}: ties, gaps, one process migrating twice behind the other |
| `schema_shared_file` | Violation: see section 6 | 1 process, 1 file |
| `inspect` | Rows are answers for their own version and key (`RowsAreAnswers`), a process never asks again for what it wrote (`WritesOnce`), a row is replaced only after a race (`FrozenUnlessRaced`); the newest insertions stay (`LatestInsertionsKept`), the excess is bounded (`GrowthBounded`), a trace written alone is there (`JustWrittenKept`); the trace shown explains the decision shown (`TraceExplainsInspection`) | 2 processes, 2 versions, 2 answers, 4 messages of which 1 is projected, cap 2, 4 upserts, 3 commands, 1 reopening; 772,950 states |
| `delivery_concurrent` | Under every interleaving with ingest, failures and kills: `RowsWellKeyed`, `RowBound`, `NoSilentGap` | 2 processes, 2 versions, 2 messages of one conversation, one of which may fail; 709,000 states. Edits and moves during a command are left to the theorems |
| `delivery_quiet` | When the log is written only between commands: a hit is stale in nothing but its expertise (`HitsStaleOnlyInExpertise`), `verify` diverges for a cause (`DivergenceHasCause`), a run leaves current rows (`RunRefreshes`), pruning spares what can be hit (`PruneOnlyDead`) | 2 processes, one version, 2 conversations, 2 bodies of which one speaks of the topic, 2 authors; a message changes its author, is edited and moves, another does not; 1,380,000 states |
| `delivery_served` | Violation: see section 6 | 1 process, 1 message ingested under either of 2 authors |
| `delivery_retry` | Violation: see section 6 | 1 process, 2 messages |
| `replay_pipeline` | The stages implement `StrategyRun` (`ImplementsRun`), a gap was retried to the end (`GapsWereRetried`), owners are ranked by their involvement (`RankedByInvolvement`), a hint on one topic is its ownership (`HintsAgree`), a run ends (`Terminates`) | 3 messages, 2 conversations, 2 authors, 3 bodies (of both topics, of one topic twice with excess confidence, of one topic with none), one message that may fail, 2 attempts; 262,108 states |
| `route_workers` | Decided and acknowledged means delivered (`DecidedIsDelivered`), delivered means decided (`DeliveredWasDecided`), jobs bounded by deliveries (`JobsWithinDeliveries`) | 2 workers, requests `<<a, b>>` and `<<b>>`, 2 attempts, 2 deliveries, 2 projection writes |
| `route_alone` | The stored trace explains the stored decision (`TraceExplainsDecision`), every request is resolved (`Resolves`) | 1 worker, 3 deliveries, otherwise as above |
| `job_queue` | An acknowledged job named a known strategy and what it derived was written, and stays until another version takes its place (`AckedIsServed`), a submission runs no more often than a configured backstop allows (`RunsBounded`), every worker whose calls return leaves (`WorkEnds`) | 2 jobs, 2 workers of which one is always started with a model, 6 ways to call the command (two that meet in one database with different projectors, strategies and backstops, one with the strategy `empty`, three that fail), 2 attempts, backstops 1 and 2, 1 dead letter kept, 1 requeue; 588,104 states |

Why these bounds are enough to be of interest. Each hazard needs at most two
actors and one shared row, and every actor can be restarted, so two processes give
every pairwise interleaving any number of times. Two bodies give an edit; two
conversations a neighbour; a cap of 2 with 4 messages and 4 upserts fills the trace
table, overflows it by two writers and writes a pruned message again; a page of one
item with two numbers has an item pushed off it; the bodies of `replay_pipeline` give
ties, a topic listed twice, confidence at both clamps and a topic whose owners all weigh
zero. Counters that would be unbounded are bounded by named constants: `MaxChanges` in
`GitHubIngest`, `MaxUpserts`, `MaxReopens` and `MaxCommands` in `TraceStore` and
`Inspect`, `MaxProjections` in `RouteDispatch`, `MaxRequeues` in `JobQueue`.
`MaxAttempts` and `MaxDeliveries` are the broker's own settings, small.
`CHECK_DEADLOCK FALSE` appears where the bounds stop the model (`Inspect`) or where all
requests may be resolved and nothing is left to do (`RouteDispatch`).

Fairness. `ReplayPipeline`: weak fairness of `Start`, `NextStage` and of the end of
each job that is queued. The command calls the stages in sequence, and
`run_until_idle` keeps delivering until the broker is empty; a job in the queue is
acknowledged or fails, and fails at most `MaxAttempts` times. `RouteDispatch`: weak
fairness of each worker's own steps, of its reservations, and of the broker's
backstop `Abandon`. Handlers have a timeout and no unbounded loop, and the worker
polls its lane for as long as it runs. Nothing is assumed of ingest,
re-projection, lease expiry or of the routed-work lane; attempts and deliveries
are what make `Resolves` true although they may never stop. `JobQueue`: weak fairness
of `Step(p)`, a process outside a run goes on, and strong fairness of `Timeout(p)`: a
timer that has gone off ends the run at its next await, and a run that has returned from
its calls again and again has come to one. That a run or a model call returns is not
assumed, and nothing is assumed of submitters, operators, due retries or expiring leases.

## 4. Theorems

For every value of the constants, under the assumptions that the modules name
(`NoPayloadAssumption`, `IngestAssumption`, `SchemaMigrationAssumption`, `NoneAssumption`,
`TraceStoreAssumption`, `InspectAssumption`, `DerivedOutputAssumption`,
`StrategyRunAssumption`, `ProjectorAssumption`, `MaxAttemptsAssumption`,
`RouteDispatchAssumption`, `JobQueueAssumption`), all of which TLC evaluates in the runs. A
theorem that needs more says so in its ASSUME, and the table below.

Every safety property that a passing run checks, and both refinements, are stated by a
theorem.

| Module | Theorem | Argument |
|---|---|---|
| GitHubIngestProofs | `EachMessageOnce`, `EarlierReadsArePrefixes` (of the port), `DurableLogKeepsPromises` | The order and the envelopes name the same ids, each once (`PortKeeps`): a new id extends the order, a known one leaves it. By the refinement both hold of the log the table represents |
| | `TypeCorrect`, `SeqStaysDense`, `StoreImplementsLog` (of the store alone) | For some n the present ids are numbered exactly by 1..n. `MaxSeqIsLength` identifies `MAX(seq)` with n, so an insert takes n + 1. `DenseSeq` mentions `MaxSeq`, a CHOOSE, and is not convenient to carry through a step; `IInv` names n instead. The k-th id is unique, so an insert appends to `LogOrder` and an edit leaves it |
| | `ReadsAreTheLogs` | The rows are numbered 1..n, so sorting them by `seq` yields the log (`OrderBySeqIs`). The port's defaults are folds along the log; what they collect, the messages of a conversation and the places where a conversation is first seen, is collected in the order of the places (`KeptIsCollected`, `SeenIsCollected`), and so is what WHERE keeps and what GROUP BY with MIN(seq) orders |
| | `IngestTypeCorrect`, `IngestKeepsTheLog`, `IngestKeepsTheTable` | Whatever GitHub answers, a page is a sequence of well-formed items (`PagesAreItems`), so every step of the composition is an append to the store or leaves its table alone (`IngestsUseTheStore`): all that holds of the store holds of what ingests do to it |
| | `OpeningsGoFirst` | `OrderInv(p)`: an item still to append has its opening in the log, or earlier among the items still to append, unless the opening was straddled (by two requests, or by a comment ingested by hand) or is gone. An issue that is listed was opened before its comments |
| | `IngestsConverge` | `CurrentInv(p)`: while nothing was disturbed, every fetched item that is not still to append is in the log as it is in the repository |
| SchemaMigrationProofs | `TypeCorrect`, `MigrationKeepsTheLog` | Types alone carry the second: each of the two actions that change `seq` keeps the order and loses no row |
| | `OpenedStoresHaveTables`, `VersionsAreHonest` | Assume that no two stores share a file. `TableInv` adds that a version of 1 or more, and a process past its first step, imply the table |
| | `OpenedLogsAreDense` | No assumption on which stores share a file: the numbers are dense from the rebuild on, and every log that is open was rebuilt or was empty when it was made |
| InspectProofs | `TypeCorrect`, `CachedRowsAreAnswers`, `ProcessWritesOnce`, `RowsAreFrozen` | Of the cache alone. `IInv` adds `Asked`: an answer that waits to be written is one the model gave for that version and key. Without it `Put` could store anything |
| | `TraceTableIsOrdered`, `GrowthIsBounded`, `LatestInsertionsAreKept`, `JustWrittenIsKept` | Of the trace store alone. Rowids follow insertion order among the rows that are stored (`Ordered`), so the rows a prune keeps, the highest rowids, are the latest insertions. The first two assume nothing. The last two assume one cap for all processes, and `JustWrittenIsKept` also that it is not 0: at cap 0 an upsert deletes the row it wrote |
| | `InspectUsesTheStores`, `InspectionsAreExplained` | Each step of the composition is a step of the two stores. While the cached row both calls used stands, the trace was made from the projection it holds (`Recorded`) |
| DerivedOutputProofs | `TypeCorrect`, `RowsStayWellKeyed` | `TInv` adds `Control`: which command and which variables are set at which step |
| | `CacheIsBounded` | For finitely many processes. `BInv` adds that the table is finite. A put adds at most one row and a writer; a reclaim leaves one row |
| | `NoGapIsSilent` | `G(p)` says for each step of a command what the final report will cover: the regrouped log, the conversations done, what was served so far. Other processes leave p's memory alone (`OtherStepG`) and the log never loses a message (`LogGrows`), so the property is proved one process at a time |
| | `HitsAgeByExpertise`, `DivergencesHaveCauses` | Assume `QuietIngest` alone: messages may change in every field and projections may fail. `QuietInv`: the snapshot, the regrouped log and the hash of each command are of the log as it is, hence each row is what its run derived, under the content that run saw (`RowsFaithful`). Two runs that saw the same content of c and failed for the same messages of it derive the same projections and warm-up for c, and the same developers and hints too if they saw the same authors and outside contributions (`Alike`, `AlikeDerivation`) |
| | `PrunedRowsAreDead` | Assumes `QuietIngest` and `OneWriter` (versions of the empty strategy aside there is one). From `QuietInv`: a reclaim runs under the one version, with the content as it is |
| | `FinishedRunsRefresh` | Assumes `QuietIngest`, `OneWriter` and that no projection fails. `Refreshes(p)`: of the conversations of the log, those p has not still to do are in the cache as a replay derives them; the put of another process writes the same row, its reclaim spares it |
| ReplayPipelineProofs | `GapsAreRetried`, `StagesImplementRun` | Each of the six stores is empty before its stage, exactly what its handler makes of the stores before it after its stage, and in between that for every key no queued job answers for (`Filled`). A handler reads stores that no longer change, so a job delivered twice stores the same again. The argument needs nothing of the ports |
| | `OwnersAreRanked` | A log is finite, as it starts empty and grows by one message at a time (`LogsAreFinite`), and so are the authors of a topic. A fraction in lowest terms is known by its value (`SameValue`), hence `Better` is a strict total order (`BetterOrders`) and sorting by it yields the one list in that order; scores compare as the tallies they were made from do (`ScoresCompare`). A tally is a number of tickets, one for each unit of confidence of each mention, and so is `Strength`, which counts the mentions one by one (`PlacesWeigh`, `StrengthIs`) |
| | `HintsNameOwners` | A ranking starts with a score of 1 or is all 0 (`NormIs`); the sum of k times a score is k times the score (`SumOfSame`), and dividing by the largest sum gives the scores back (`HintOfOne`) |
| DataProofs | lemmas only | What the operators on data compute, whoever uses them: least and greatest members, sums over finite sets, sorting, folds along a sequence |
| RouteDispatchProofs | `TypeCorrect`, `Invariance`, `DeliveriesWereDecided`, `DecisionsAreDelivered` | A stored decision is never without someone who owes the delivery (`Owed`): the consumer has it, or a run is about to dispatch it, or a request that names the message has it still ahead, and no lease of such a request ended under its handler |
| | `TracesExplainDecisions` | Assumes one worker. The stored trace and decision are of one routing, but between the two upserts |
| | `JobsAreBoundedByDeliveries` | For finitely many workers and requests, each naming a message once (`RouteJob` does not look for duplicates; a request that named a message twice could make two jobs of it in one delivery). `JInv`: the jobs made of a message and the runs that may still make one are together no more than the deliveries of its requests. `SumIsTickets` turns the fold that adds up the deliveries into the cardinality of a set |
| JobQueueProofs | `TypeCorrect`, `AcknowledgedIsServed`, `RunsAreBounded` | A process that reports has written its version, if its strategy derives anything, and since then only a reclaim of another version can have taken it away; the runs of a job that is live are its deliveries, and those it settled with before are bounded by the largest backstop, per requeue |

Recursion in the library. What a fold computes is proved without an induction theorem that
takes an operator: the equation of the recursive function inside the fold is shown to have a
solution, so that the function CHOOSE takes satisfies it, and a set on which it differed from
the wanted function would have a minimal one among those like it (`SmallestBad`). A sum is
compared with the cardinality of a set of tickets (`SumsCountTickets`); a sorted sequence is the
only enumeration in its order (`OrderIsUnique`), and there is one if the order is strict and
total on a finite set (`OrderExists`).

Scores are proved about as exact fractions. What rounding of f64s does to authors who tie is
not covered.

Only model-checked: liveness (`Terminates`, `Resolves`, `WorkEnds`), which is outside what the
proof system handles here, and the violations of section 6, each of which is one behaviour.

## 5. Not modelled

- HTTP, prompts, the parsing of model answers beyond their clamp, printing: pure I/O and
  wording. The models use only that a call gives some projection or panics.
- The rendered summary of a warm-up, display names, the reasons of a decision, the text
  of a draft; the developer profiles of `skill.rs`, which `BuildSkillJob` drops.
- The token header of the GitHub source and the fixture source used by tests.
- The job observer, which only records.
- Settings that choose no queue, strategy, projector or bound: formats, model names and
  URLs, pool size, lease length, dead-letter age. `vacuum`, which changes no row.
- The routed-work lane through `dlq`: the surface is the one modelled for strategy runs,
  and its jobs are in `RouteDispatch`.
- SQLite itself, beyond statement atomicity, serialised writers and rowids.

## 6. Where the code and its promises part

Three runs end in a violation of something the repository says of itself:

- `schema_shared_file`: `PRAGMA user_version` belongs to the file. The message store
  leaves it at 2, so on the CLI's single file the stores opened after it skip the
  step that creates their table (sqlite_common.rs:32).
- `delivery_served`: the key of a cached derivation covers the ids and bodies of the
  messages of one conversation, but its developers and hints are made from the authors,
  and from the whole log, so a hit may differ from a fresh replay (derived.rs:62). The run
  shows it on one message that is ingested again under another author, as `github` does
  after a login was renamed (github/model.rs:83-86). `HitsStaleOnlyInExpertise` and
  `DivergenceHasCause` say how far this goes on a log that is quiet: the projections and
  the warm-up served are those of a replay in which the same messages fail, and `verify`
  reports a divergence only where authors of the conversation changed, or what others
  contribute to its topics, or where a projection failed in one of the two runs only.
  That holds for projections that a body determines; a model behind one unchanged version
  that answers otherwise after the projection cache lost its row is a cause of its own
  (commands.rs:394-395 names it).
- `delivery_retry`: a derivation with a failed projection is cached like any other;
  the next `warmup` serves it and reports the gap, and retries nothing
  (commands.rs:361, main.rs:227-228).

A fourth disagreement has no run of its own, since it shows as the premise of a property.
The handler timeout is there so that "a hung LLM call cannot hold a job forever"
(main.rs:165-168; docs/architecture.md:118-120 and README.md:317 say so too). The call is
a synchronous `ureq::post` without a read timeout (ollama/lib.rs:57, openai/lib.rs:83),
made in an `async fn` that has no await of its own (worker/lib.rs:80), and a timer of the
runtime can end a handler only at an await: a call that never returns keeps its worker.
`WorkEnds` is therefore about workers whose calls return; without its premise
`[]<>(proc[p].pc # "call")` TLC finds a worker that stays in a call for ever. Whether the
job goes to another worker meanwhile depends on Worklane's lease and its keepalive.

Other properties hold in a narrower form than a comment suggests; the narrower form
is what is checked, and its comment says where the limit lies: `WritesOnce` (two
processes that miss together both call the model), `NoSilentGap` (a message that changes its
conversation while the command runs is looked for in both, and may be neither shown nor
reported), the properties of `delivery_quiet`
(an edit between the two reads of the log is cached under the new
content with the old projection), `PruneOnlyDead` (two versions that both write prune
each other's current rows), `JustWrittenKept` (an updated trace keeps its old rowid),
`JobsWithinDeliveries` (a retry after the first job ran enqueues another),
`TraceExplainsDecision` (one worker), `DecidedIsDelivered` (requests whose lease was not
lost), `IssueBeforeComments` (an issue opened between the two requests, or pushed off
the one page of 100 that is fetched, or whose comment was ingested by hand, may be missing
while its comment is there; the help text of `github` speaks of the repository's issues,
PRs and comments),
`TraceExplainsInspection` (the cached row both calls used still stands),
`HintsAgree` (a projection about one topic), `RunsBounded` (per requeue, and by the
largest backstop among the workers) and `AckedIsServed` (a reader with the settings of
the worker, until a run of another version deletes the row: two workers with different
projectors or strategies on one database take each other's output away; a run of `empty`
is acknowledged and leaves nothing to read). `Resolves` and `Terminates` rest on Worklane
resolving or dead-lettering what it holds, as modelled. `requeue` goes by the job id alone and does not ask the lane of its
surface (dead_letters.rs:42); `submit` accepts any strategy id and enqueues without a
uniqueness key (main.rs:602).

## 7. Plan

Written so far, in order: the log and its refinement, migration, the projection cache,
delivery, the pipeline and its refinement, the trace store, routing; the proofs of the
first four; GitHub ingest with its proofs, inspect as the composition of cache and
traces, the ports of the strategy, the strategy-run lane, the proofs of the log.

Then the proofs of the pipeline and its refinement, the trace store and inspect, routing,
the strategy-run lane, the remaining invariants of migration and ingest, and delivery over
a log that is quiet.

Last, what sorting and folding compute: the reads of the durable log, the rankings of owners
and the hints made of them.

Next:

1. The routed-work lane as a `JobQueue` of its own, so that requeueing across lanes can be
   stated.
2. Scores as f64s: that authors whose tallies differ by a unit of confidence are never
   reordered by rounding, for the number of mentions a log can have.
