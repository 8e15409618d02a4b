# TLA+ models of rising-intelligence

rising-intelligence collects events from feeds, stores them, computes which
topics trend, and asks a language model for briefs about them. Four services
talk through Kafka; Postgres, Redis and a SQLite file hold their state. This
directory models what in that system depends on the order of steps of several
actors, checks it with TLC on small instances, and proves part of it with TLAPS.

    collector --raw events--> persister --> Postgres raw_events, Redis seen keys
        |  heartbeats             
        +-----raw events-----> trends --snapshots--> brief <--summary.requests-- ops-cli
                                                       +-----summary.results---> ops-cli

## 1. Inventory

| component | state it keeps | operations | hard behaviour | what makes it correct |
|---|---|---|---|---|
| **brief: request processing** (`apps/brief/src/brief-orchestrator.ts`, `failure-handling.ts`, `process.ts`) | `brief_results` (one row per request id), offsets of `summary.requests` | resolve, load, authorize, generate, persist, settle, publish, roll back, emit a failure | at-least-once delivery; two instances on one request after a rebalance; any call fails, possibly after it took effect; crash between two calls | one result per request, published as stored; commit after answer; no reservation forgotten, a success charged once |
| **brief: budget ledger** (`budget-ledger.ts`, `budget-mirror.ts`) | row of `brief_budget_tracking`, Redis key `brief:budget:<date>` | reserve (script, then Postgres), release, settle, mirror, key sync | unordered background mirrors, read-then-write, failed releases, lost key | spending within the budget; stores agree |
| **consumer transport** (`packages/pipeline/src/transport`) | position in a batch, acknowledged offset | process a batch, acknowledge, commit, heartbeat, pause | rebalance during a batch, error in the middle | nothing acknowledged before it is handled |
| **persister** (`apps/persister/src`, `shared/src/runtime/circuit-breaker.ts`) | `raw_events`, seen keys, `consumer_lag`, circuit breaker | gate, pause, collect, insert by source, mark seen, acknowledge, commit, lag | Postgres succeeds and Redis fails; a source of a batch fails after another; one breaker for all partitions | nothing acknowledged is missing; breaker opens, probes, recovers |
| **trends** (`apps/trends/src`) | window counters, dedup sets, evidence, previous counts in Redis; `trend_snapshots` | apply an event (one script), snapshot timer: read, publish, store, roll counts | redelivery across buckets, keys that expire, overlapping timers, failure between the three writes | a story counts once per bucket; one snapshot at a time |
| **collector** (`apps/collector/src`) | SQLite checkpoints and seen events, per-feed poll times | poll, take, dedup, validate, publish, mark seen, checkpoint, back off, shut down | crash between publish and mark; abort of a poll; closing the store under running loops | no item skipped, duplicates bounded |
| **service lifecycle** (`packages/shared/src/runtime`, `apps/*/src/index.ts`, `service-runtime.ts`) | connected resources, `shuttingDown` | start with rollback, signals, shutdown steps, timeout | signal during start, repeated signals, hanging step | everything connected is released once, in order; the process ends |
| **query mode, grounding** (`apps/brief/src/query-mode-*.ts`, `grounding-*.ts`, `evidence-scoring.ts`) | none; reads `brief_trend_snapshots`, `raw_events` | rank topics, cap groups, attach evidence, enforce citations | rows come and go between the queries; caps and ties | within the caps, only topics asked for, only evidence cited |
| **LLM generation** (`apps/brief/src/llm`) | a temporary directory | ask HTTP, run the CLI through files, retry through stdin, parse | missing, empty or unusable output; failing cleanup | the fallbacks end, directory removed |
| **retention job** (`packages/db/src/retention-job.ts`) | `retention_policies` | delete old rows per table, stamp | runs beside everything else; partial failure | tells the truth about each table |
| **ops-cli** (`packages/ops-cli/src`) | a waiter for one result; rows of `raw_events` | trigger a brief and wait; enrich and retag events | timeout against late result; rows that change under a paging command | understood by the service, settles once; no row skipped or half written |
| **topics, event enrichment** (`packages/topics`, `packages/pipeline`, `packages/shared`) | none | match, infer, normalise | matchers that overlap, a second pass over what a first one wrote | every topic has a match; a second pass writes what it says |

The instances of a service share nothing but Kafka, Postgres and Redis, so these
calls are the only places where they interact; inside a process the event loop
interleaves at every `await`. The hazards in `PROJECT.json` list where that can
go wrong, at the line.

## 2. Modules

| module | what it is | extends |
|---|---|---|
| `BriefOrchestrator` | the brief service on one partition of `summary.requests`: consumer group, batch loop, attempts, failures | |
| `BriefPromise` | what its users see: decide once, publish the decision, retire in order | |
| `BudgetLedger` | the ledger of one day: row, key, calls, mirrors | |
| `Grounding` | evidence, citations, and what a highlight may cite | |
| `QueryMode` | topics of a request from snapshots and events | `Grounding` |
| `BriefGeneration` | one request from resolution to a grounded brief, with the CLI's files | `QueryMode` |
| `CircuitBreaker` | the circuit breaker as operators on its state | |
| `Persister` | instances of the persister on the partitions of `events.raw` | `CircuitBreaker` |
| `Trends` | counters of the windows and the snapshot loop | |
| `Collector` | the polling loop of an adapter, with restarts | |
| `ServiceLifecycle` | one process from start to exit, for the four services | |
| `TopicExtraction`, `RawEventHydration` | how an event gets its topics and its quality | |
| `ReadModel` | the tables that commands and the retention job share | |
| `BriefTrigger` | `brief trigger`, with the service at the other end | `ReadModel` |
| `EventEnrichment` | `events enrich` and `topics retag` | `ReadModel`, `RawEventHydration` |
| `RetentionJob` | the daily deletion | `ReadModel` |
| `Operations` | one command and the job over the same tables | the three above |
| `MC...` | instances for TLC, one per composed specification | |
| `ReliableCopy` | what the readers of the stores see of the persister: store, mark, retire in order, report | |
| `BriefServiceProofs` | theorems about the ledger and about the generation of a brief | `BudgetLedger`, `BriefGeneration`, `FiniteFacts` |
| `BriefOrchestratorProofs`, `PersisterProofs`, `TrendsProofs`, `CollectorProofs`, `ServiceLifecycleProofs`, `OperationsProofs` | theorems about the module of that name | that module |
| `FiniteFacts` | lemmas: sums over finite sets, least and greatest members, images, orders and ranks | |

`BriefOrchestrator` sees the budget through the three calls of
`BriefBudgetGovernor` and counts the reservations that stand (`charge`);
`BudgetLedger` models what those calls do, statement by statement, with the
attempts of any number of instances as its actors. The amounts do not influence
the control of an attempt except through *granted or not*, which
`BriefOrchestrator` leaves open, so the two are modelled apart.

Some definitions are followed or preceded by a *variant*: the same step with a
plausible programming error (an upsert for an insert, a comparison without the
amount). No specification uses them. They record which error each property would
catch: substituting a variant for its original makes TLC report that property.

### BriefOrchestrator

An instance `w` of `Workers` runs one handler at a time, as the batch loop
(`transport/index.ts` 417-470) does. `pc[w]` names the call it is about to make:

    resolve -> load -> authorize -> generate -> persist -> settle -> publish -> ack
                 |         |           |           +-> rollbackDuplicate -> reload -> publish
                 |         |           +-> rollback -> emit / error
                 |         +-> emit (budget_exceeded) -> publish, or reload when a result exists
                 +-> publish (stored result)

`resolve` is the query-mode resolution of `process.ts` 144-173, which runs before
the idempotency check and may itself emit a failure. `rollback` stands for phase 6
of `execute` followed by the handler chain: an error with a known cause becomes a
failure result (`emit`), any other is rethrown. Steps that fail are actions of
their own (`CallFails`, `PersistSuccessFails`, ...); for a call in `Ambiguous`
the failure may come after the effect. `Throw` is an error reaching the consumer:
the rest of the batch is dropped, and what was acknowledged is committed if the
instance still owns the partition. `LoseOwnership` takes the partition from its
owner *without* stopping it: `runWithInFlightHeartbeats` swallows heartbeat
errors, so the instance goes on until the loop looks at `isActive`; its commits
are refused from then on. `Expire` is the retention job deleting a result.

Data: a result is the status and the number of the attempt that made it, so two
results differ exactly if they come from different attempts or outcomes. The
codes `timeout` and `no_coverage` behave as `llm_error` and `grounding_error` and
are folded into them. Not modelled: contents, metrics, health flags, dates.

Modelled from use, not from source: the consumer group (`Assign`, and the
refusal of a commit by a former owner) and crashes.

### BudgetLedger

One date. Each of `Attempts` reserves its estimate once, then keeps, settles
or releases it; each has a label for its call and one for its mirror. `Modes`
distinguishes three deployments: `postgres` (Redis unreachable), `serial` (Redis
in use, calls never overlap a call or a mirror), `concurrent` (anything goes).
They are one specification; `mode` is chosen initially. `charge[a]` is a history
variable: what the calls of `a` added to or took from the ledger, as the code
intends it; `overrun` is what settlements added beyond estimates, which
`settle` does without a comparison. A failed statement may have been applied
wherever that differs from failing later (`Update` then a failing `Read`, `Adjust`
then a failing `Read`); the release of a duplicate that reports an error is
released again by phase 6 of `execute`, which is the label `unsure`.

Amounts are integers in some fraction of a dollar. Rounding (6 decimals in the
service, 4 in the row), the 48 h expiry of the key except as `LoseKey`,
`request_count`, and requests with a daily budget of their own are left out.

### Persister

`pc[i]` names the call instance `i` is about to make for its batch:

    gate -> insert (one step per source) -> mark -> commit -> lag
      +-> pause

`commit` acknowledges the batch and commits it. `gate` is `isActive`, the
heartbeat and `isOpen`; an open circuit pauses the partition and ends the batch
without acknowledging anything, and `Resume` is the timer that resumes it
(`process.ts` 149-187). Events of a batch are grouped by source and inserted group
by group (`persist.ts`), so a failure in the middle leaves some of them stored;
the batch comes again and the primary key turns them into duplicates. Malformed
messages are skipped. The breaker's clock is reduced to what `isOpen` compares: no
deadline, one ahead, or one that has passed (`Elapse`). `failing` and `tripped`
are history: what Postgres did, against which the breaker's own count is judged.
`stored` includes what retention deleted. `ReliableCopy` is the same without
instances, batches, circuits or failures.

### Trends

A message applies one script: the event enters the dedup set of its bucket of the
largest window, and the counters of its buckets of all windows, each key with its expiry (`redis.ts` 120-260). `Tick`
moves the clock by one snapshot interval and drops dead keys. A run of the
snapshot loop reads the current bucket of a window, then
publishes, stores and rolls the counts, window by window, while events are applied
in between; two runs exist so that an overlap would show, and `inFlight` prevents
it. `ReadLoses` is a pipelined read that fails for single commands: the errors of
a pipeline are per command and are read as zero. Left out: the sorted set of
evidence, the cut to the best topics.

### Collector

One loop of one adapter; `kind` chooses RSS (several feeds, a checkpoint each),
lobste.rs, or Hacker News by date or by rank, which differ in how items are
selected, which key the checkpoint has, and what one failing item does to the
rest. An item goes through validation, the seen table, Kafka, the seen table
again and the checkpoint. `Week` ages and drops seen ids. `Shutdown` lets the
loop end at the places where it looks at the abort signal, `CloseStore` closes
SQLite possibly under it, `Crash` and `RestartStopped` keep the file only.
`excused` counts the reasons for which a duplicate is due.

### ServiceLifecycle

`Startup` and `Shutdown` are the sequences of the four services. `start()`
connects one resource after the other and registers its rollback; a failure rolls
back in reverse order. A signal or an uncaught error requests a shutdown at any
point: before `initialize()` returned there is no context and the process exits
at once (`cut` records that connections were open). The steps of the shutdown
close, fail, or hang until the timeout. The consumer's disconnect waits for its
batch; `run()` may start the consumer again after a shutdown disconnected it
(`revived`).

### QueryMode, Grounding, BriefGeneration

Ranking, group cap, evidence strategies and enforcement are operators on sets of
records, each over one order (`First`, `InOrder`) where the code sorts and slices;
scores are weighted averages in parts of `Scale`, so that they are exact; a topic,
a url or a term is a value. Urls keep the parts that canonicalization touches
(default port, slashes at the end, fragment, host). `canonicalizeBriefEvidenceUrl`
takes one slash from the end of a path each time, so how often it is applied
matters: `CanonicalTimes(u, n)` is what `n` applications give. An evidence url is
canonicalized where its record is built (`Evidence`) and again in the evidence set
(`UrlsOf`); a citation of a model in `normalizeLlmHighlight` (`Normalized`), in the
check against that set (`Ground`), and in the merge (`Merge`) once when it is taken
and once more for each later highlight of the topic; one of the rules of the
service twice before the check (`InternalHighlight`). A highlight left without
citations is discarded. A topic that begins with a dot has no group (`Absent`).
Insights are one per summary, the strongest; that at most two of them may share a
source changes nothing where two are asked for.

The two queries of the resolution are steps with the database changing in between
(`Persist`, `Retain`). The CLI is the chain of `codex-cli.ts`, one phase per
place a call is made from, since each has error paths of its own:

    write -> file -> stdin         (stdout unusable)
              |  +-> stdinFile     (output file unusable) --ENOENT--> retry
              +----> retry         (output file missing)
                       +-> stdinRetry (its stdout unusable)

`stdinOnly` is the way without a directory or a prompt file. An error that says
ENOENT, of a file or of a command that cannot be started, is caught at
`codex-cli.ts` 404 if it comes from the inner `try` and taken for the missing
output file, so the fallbacks nest. An answer is abstracted to its
highlights with their citations and to why it is unusable. `BriefGeneration` ends
where `BriefOrchestrator` has `generate`: its `result` is what that module's
`payload` abstracts to success or failure.

### Operations

`BriefTrigger` has two validations in it, that of the flags (`trigger.ts`,
`feed-config.ts`) and that of the service (`topic-glob.ts`, the deserializer), and
the waiter with its timer, which reads the results from their beginning.
`EventEnrichment` pages by id and writes each batch in one transaction;
`before` is what the table held when the command began. `RetentionJob` goes
through the policies, of which it keeps the positions it has left. `Operations`
runs one command and the job on one database.
Texts are sets of the terms that occur in them.

## 3. Runs

| run | instance | checks | result |
|---|---|---|---|
| `brief_safety` | 2 instances, `<<r1, r1>>`, 4 attempts, 2 faults, all calls ambiguous, retention on | `TypeOK`, `PublishedWasStored`, `CommittedAnswered`, `ReservationsAccounted` | holds, about 5.1 million states |
| `brief_promise` | 2 instances, `<<r1, bad, r1>>`, 6 attempts, 2 faults, `authorize` and `publish` ambiguous, no retention, fairness | `SuccessChargedOnce`, `GeneratedOncePerFault`, `KeepsPromise`, `EventuallyCommitted` | holds, about 1.5 million states |
| `ledger` | 3 attempts (3, 3, 1), budget 4, costs 1 or 3, `postgres` and `serial`, 3 faults | `TypeOK`, `NotOversubscribed`, `LedgerAgrees` | holds, about 257 000 states |
| `ledger_concurrent` | 2 attempts (2, 2), budget 3, 3 faults, `concurrent` | `LedgerWithinBudget` | holds, about 87 000 states |
| `persister` | 2 instances, 1 partition `<<a, bad, b>>` with two sources, threshold 2, 3 faults, fairness | `CommittedPersisted`, `SeenWasStored`, `CopiesReliably`, `OpensOnPostgresFailures`, `ReopensUntilSuccess`, `EventuallyDrained` | holds, 212 000 states |
| `trends` | windows of 1 and 2 ticks, 2 topics, 4 messages in batches of 2, clock to 3, 1 fault, fairness | `CountedOnce`, `CurrentBucketExact`, `CommittedApplied`, `PrevNeverOlder`, `EventuallyConsumed`, `RunsEnd` | holds, 181 000 states |
| `collector` | each of 4 kinds, 2 feeds of 3 and 2 items of which 2 are shown, 2 faults, fairness | `CheckpointBehindPublished`, `SeenWasPublished`, `PublishedOncePerReason`, `EventuallyPublished`, `ShutdownEnds` | holds, 319 000 states |
| `lifecycle` | 4 services, 3 faults or signals, fairness | `ReleasedOnce`, `StoresOutliveBatch`, `StopEnds` | holds, 11 000 states |
| `generation` | 8 requests, 3 tables of snapshots, 6 events (one more in given topics only), 5 answers, 2 cutoffs, 2 faults | `BriefGrounded`, `QuerySound`, `CliReleased` | holds, 13 000 states |
| `operations` | 37 calls of `brief trigger`, 7 of `enrich`/`retag`, 5 policies, 1 fault, fairness | `RequestUnderstood`, `ExitTruthful`, `EnrichedAll`, `RetentionReports`, `CommandsEnd` | holds, 109 000 states |
| `ledger_oversubscribed` | as `ledger_concurrent`, no fault | `BudgetEnforced` | **violated** |
| `ledger_over_budget` | budget 0, `serial`, no fault | `BudgetEnforced` | **violated** |

What they show:

* `PublishedWasStored`, `KeepsPromise`: the primary key of `brief_results` is
  what makes the service idempotent. Whoever loses the race publishes the
  winner's row.
* `CommittedAnswered`: errors, crashes and rebalances never commit a request
  whose result is not out. A message that does not deserialize is skipped, and
  counts as answered.
* `ReservationsAccounted`: every standing reservation belongs to a running
  attempt, a stored success, or an attempt in `lost` (it crashed while it held
  one, its release failed, or its `authorize` failed after it took effect).
* `SuccessChargedOnce` needs that `persist` and `rollback` do not fail after
  taking effect. With an ambiguous `persist` a stored success may be refunded;
  with an ambiguous `rollback` a reservation may be released twice. Both are
  hazards of the code, listed as such.
* `GeneratedOncePerFault`: duplicates cost no second generation unless
  something failed or moved.
* `EventuallyCommitted`: once faults stop, the partition drains.
* `NotOversubscribed`, `LedgerAgrees`: Postgres alone, and Redis and Postgres
  without overlap, enforce the budget and add up, as long as no reservation was
  given back twice. A second refund may find less in the row than it
  subtracts; its conditional `UPDATE` then changes nothing, and a second statement
  sets the row to 0 (`budget-ledger.ts` 256-260), with what another attempt reserved
  in between. The proof attempt without the proviso failed at this step, and TLC
  shows it with three attempts of 3, 3 and 1 and a budget of 3.
* `LedgerWithinBudget`: in every deployment neither store invents spending that
  would refuse requests for the rest of the day.
* `CommittedPersisted`, `SeenWasStored`: the order insert, mark, acknowledge makes
  every failure safe, at the price of duplicates Postgres rejects. A seen key is
  never a promise about a row that does not exist.
* `CopiesReliably`: seen through the stores, the committed offsets and the lag, the
  persister is `ReliableCopy`. No commit moves an offset back, although an instance
  may lose a partition with its batch in its hands and may get it again: the group
  refuses what a former owner commits, and an instance takes part in the next
  assignment only after its batch. The lag it reports may be older than one
  reported before, but vouches for both stores.
* `OpensOnPostgresFailures`, `ReopensUntilSuccess`: only Postgres opens the
  circuit, and one probe at a time decides whether it closes. `EventuallyDrained`:
  a paused partition is resumed.
* `CountedOnce`, `CurrentBucketExact`: the dedup sets live longer than what they
  guard; neither a retried script nor an expiry inside a window distorts a volume.
  `CountedOnce` speaks of a bucket until three windows after its start, which is how
  long its keys are kept at least. A consumer that lags more than two windows
  behind may count a story twice: an event without url renews the counter
  after the set of stories has expired, and a second event with the url of the first
  is then new. This, too, came out of a failed proof and was confirmed by TLC.
  A pipelined *read* that fails does (`ReadLoses`): a snapshot may then show zero,
  and nothing is claimed about the numbers in a snapshot.
* `PrevNeverOlder`: the previous counts are those of a snapshot that was published
  and stored. (They are the previous snapshot's, not the previous window's as
  `specs/006-redis-state-management.md` says.)
* `CheckpointBehindPublished`: a checkpoint passes an item only when it was
  published, rejected, gated, or lost sight of. A burst that pushes the
  checkpoint out of the feed gives up the items between: `passed` says so.
* `ReleasedOnce`, `StoresOutliveBatch`, `StopEnds`: a process that is not cut
  short releases all it connected, once; batches end before stores close;
  only a rollback that hangs is not bounded by a timeout.
* `BriefGrounded`, `QuerySound`: a highlight cites pages that are evidence of one
  topic of the request, whatever the model answered and whatever rows vanished in
  between. The url cited is the one in the evidence set where that url is
  canonical, that is, where another canonicalization leaves it as it is; otherwise
  it may have fewer slashes at its end (`Traced`).
  `CliReleased`: the directory is removed, but for a prompt that cannot be written,
  and an answer costs four calls at most: the first, stdin after an unusable file,
  the retry after that call failed with ENOENT, and stdin after an unusable retry.
* `RequestUnderstood`: what the flags allow the service understands, with the
  exception of long globs (below). `EnrichedAll`: paging by id while rows appear
  and vanish skips none. `RetentionReports`, `ExitTruthful`: exit codes can be
  trusted.

Two statements of the repository do not hold:

* `ledger_oversubscribed`: `budget-ledger.ts:182` promises to "Prevent concurrent
  workers from oversubscribing daily budget". Attempt 1 is granted by Redis
  (key 2, row absent, mirror pending). Attempt 2 is refused by Redis, falls back
  to Postgres, creates the row with 0 and is granted. Four are committed under a
  budget of three, without any failure.
* `ledger_over_budget`: FR-006 (`apps/brief/spec/spec.md:141`). The bound
  `Math.max(0, budget - amount)` is 0 for an estimate above the whole budget, and
  a fresh row satisfies it: the first such request of a day is granted although
  Redis refused it.

Smaller disagreements met while modelling, not given runs of their own:

* `brief trigger` accepts topic globs of more than 128 characters; the service's
  deserializer refuses them (`topic-glob.ts`, `MAX_GLOB_LENGTH`), skips the request,
  and the operator waits for the timeout. `RequestUnderstood` names the exception.
* `brief trigger --request-id` with an id used before reports the old result: the
  waiter reads the results from their beginning. It is the first result of
  that id, which is all `ExitTruthful` says.
* `events enrich` on a row that was already prepared is not idempotent in its
  quality (ops-cli `spec.md:56`): issue codes about the original url and the flags
  of inferred fields are not found again. Topics may change, because a text
  replaced by its title mentions its terms twice.
* `topics retag` clears topics that the quality step of `enrich` infers again
  without the relevance rules.
* The rollback of a failed start has no timeout, unlike the shutdown; a signal
  during `initialize()` exits without closing what is connected.
* If an error reaches `brief trigger` before it waits for its result, the rejection
  of the waiter is unhandled; a publication that fails leaves the waiter connected
  until its timer ends it (`CommandsEnd` is why this is no hang).
* "every citation in a generated brief traces back to evidence"
  (`grounding-enforcement.ts:4`). It does so up to slashes: for an evidence url that
  ends in four slashes the evidence set has one with two, a model that cites the
  original is found grounded, and the merge publishes one with a single slash, which
  is not in the set. For the same reason the service's own highlight for such a
  page can fail its own check and be discarded.
* The log messages of `codex-cli.ts` say "retrying once" at each fallback; in
  a row they are up to three retries, four calls.
* A lobste.rs item that cannot be normalised is lost, the checkpoint of a poll is
  saved for its last item only, and a message whose insert Postgres always
  refuses blocks its partition (`persist.ts:80`).

### Bounds

* Two instances are enough for one race per request; a third one would repeat
  the second. The partition holds one request twice, so that delivery, duplicate
  and race all concern the same row; a second request would only interact through
  the offsets, where its place is taken by the malformed message.
* `MaxFaults` = 2 gives every pair of failures (for instance a lost partition and
  a crash of the new owner). `MaxAttempts` in `brief_promise` is 6 = 2 messages x
  (1 + faults), the most that can be started, so the bound never stops a
  behaviour and liveness is not cut short. In `brief_safety` it is 4 to keep the
  run in reach with every call ambiguous; it checks no liveness.
* The ledger's estimates are chosen so that two large ones do not fit and a
  large and a small one just do; costs lie on both sides of the estimates.
  Three faults are needed for a double release (failed read, retry) next to an
  unrelated failure.
* The persister's events are of two sources around a malformed message, so that
  batches have two groups, one, or none; three faults are the least that opens a
  circuit of threshold 2 and lets the probe fail. One partition: an instance
  handles one batch at a time, so a second partition shares only the breaker.
* The windows of `trends` are one bucket and two buckets to the long one; the
  messages are an event that is too old, one without url, and two of one url
  in different short buckets and in the same long one.
* The feeds of `collector` show two of three items, so that a checkpoint can leave
  the feed; one item is gated and one invalid.
* The requests of `generation` cover both modes, the three strategies, all
  providers, topics that share a key, one without a group, a page whose url ends in
  four slashes (enough for three canonicalizations to differ from two and from
  one), and caps that bite; those of `operations` one
  deviation of each flag from a valid call. Calls that fail on their flags are
  not combined with every earlier state of the tables (`MCInit`).
* `CHECK_DEADLOCK FALSE`: every run ends, when the partition is committed, all
  attempts are done, the process exited or the command ended, and a safety run
  also when a bound is used up.
* Symmetry is used in safety runs only, over instances and over attempts with
  equal estimates.

### Fairness

`FairSpec` assumes weak fairness of each instance's own calls and loop
(`Delivery`, `Process`: Node runs the continuation of a settled promise, and
every call either answers or times out) and of the assignment of the partition
(members keep rejoining). Faults are never fair. An error of unknown cause in
`generate` counts as a fault: one that recurred for ever would block the
partition, as a thrown error does in the code.

The other modules assume the same: an instance's own steps and the assignment of
partitions (`Persister`), the consumer, the clock and the steps of a snapshot run
(`Trends`; a tick is the timer that drives both), the loop, the appearance of
posts up to the bound and feeds falling due (`Collector`), calls that do not hang
and the timer of the shutdown (`ServiceLifecycle`), and each command's own steps
and the waiter's timer (`Operations`). A fetch of a collector whose store was
closed by a shutdown is bound to fail sooner or later, and that failure is fair.

## 4. Proofs

Checked by TLAPS, for every value of the constants that satisfies the assumptions
named `...Assumption` in the modules: the types of the constants, that `None`
is none of the values, a positive threshold of the breaker, windows of positive
length, ids of rows that start at 1 and grow (Postgres serials), tables and requests
that are finite, rows with an id of their own (`EventsTyped`), topics whose names
are in a total order (`RequestsTyped`), and a `Unit` and a `Scale` that make weights
and scores whole numbers (`SnapshotsTyped`). TLC
evaluates them on every run.

* **Types** (`BriefOrchestratorProofs!TypeCorrect`). `TypeOK` is not inductive:
  that `next[w]` stays in the partition needs that a running attempt is inside its
  batch, and that stored results are payloads needs that `payload[w]` is one
  whenever it is about to be written. `JobShape` adds this. One lemma per group
  of variables, one step per action that writes them.
* **PublishesWhatIsStored**. Strengthened by `PublishesStored`: an instance at
  `settle` or `publish` holds a result that is on record. The record of a request
  (stored or expired) never shrinks (`RecordGrows`), because an insert meets an
  empty slot and deletion remembers.
* **CommitsWhatIsAnswered**. Strengthened by `AckedDone`: what lies behind
  `next[w]` is answered, and so is the message at `ack`. Answers are never taken
  back (`DoneGrows`).
* **ImplementsPromise**, without retention. The
  mapping is `answer <- stored, told <- published, done <- committed`. Needs
  besides the above that nothing expired, and `OwnerAhead`: the owner's position
  is past the committed offset, so a commit never goes backwards. The step is
  proved by its three conjuncts: decide, tell, retire.
* **AccountsForReservations**, **ChargesSuccessesOnce**. `BudgetInv`: no two
  instances work on the same attempt (`OneEach`), a result carries the number of
  the attempt that made it (`OwnResults`), an attempt is charged at most once
  (`ChargedAtMostOnce`) and, if persist and rollback are not in `Ambiguous`, exactly
  once where its state says so (`ChargedExactly`). Every step is one of a few moves
  on the charges, so that the steps are proved by move and not by action.
* **GeneratesOncePerFault**, without retention (which deletes the
  result a duplicate would have found). A generation beyond the first of a request is
  paid by a fault: `Room` counts the generations that the faults so far leave, and
  `RoomForEntitled` says that the instances which may still begin one without a
  new fault are no more than that.
* **BriefServiceProofs!TypeCorrect, StaysWithinBudget**. One invariant: both
  stores respect `Budget + overrun`, and so does every amount under way between
  them (`seen`, `cached`, `tracked`), so that writing it late does no harm; and
  statements that need the row are sent when there is one.
* **LedgerKeepsCount**, **LedgerEnforcesBudget**. `Agreement` adds what an attempt
  has standing at each label (`ChargesOK`), that the row is the sum of these in
  `postgres` (`PostgresRow`, `PostgresAgrees`) and that row and key are that sum up to
  the one call under way in `serial` (`SerialAgrees`). Each statement changes the row
  and one charge by the same amount; `FiniteFacts` turns that into sums.
* **CliAlwaysReleased**. `CliInv` counts the calls made before each call
  (`CallsCounted`: none before `file`, one before `stdin` and `stdinFile`, at most two
  before `retry`, at most three before `stdinRetry`), and says who may hold the directory at each place (`DirHeld`):
  a run on its way to the removal, or one that a failed call took off that way.
* **BriefAlwaysGrounded**. `ResultInv`: a result handed on as a brief is grounded
  in the topics of the request. It needs `ResolvedInv`, that these are a sequence
  of topics with finite evidence, whichever way they were found. The lemmas below
  it follow the code: `ScopeFound` (the scope a highlight is given is one of the
  request and shares a citation with it, whatever topic the highlight names),
  `Grounds` (what remains of it cites evidence of that scope only, or the
  highlight is dropped), `TracedAgain` (canonicalized any number of times, a
  citation is still traced to the url it was; `CanonicalAgain` says what `n` more
  applications make of a canonical url), `Enforced` (merging by topic
  leaves one highlight per topic, still of one scope); `InternalHolds` and `LlmHolds` are the two ways to a
  brief, with the cut to the budget, which only the mode with given topics has.
* **QueryAlwaysSound**. `ResolvedInv` says of a query that its topics are those
  which the operators of `QueryMode` give for *some* state of the table between the
  two reads (`Found`): the persister and the retention job may have changed it since.
  For any state of the table, `EvidenceSelected` (each strategy takes no more
  than it may, of what it was given), `LoadedEvents` (one event per page of a source),
  `GroupsSelected` (no more groups than asked for) and `KeptTopics` (topics without
  evidence leave no gap) give the property; that a silent brief leaves out no topic
  of the rank is read off the warnings (`FoundSound`).
* **PersisterProofs**. `Shape` gives the types and that a batch lies inside its
  partition. `PersistInv` says how far each batch got (`Progress`): what left
  `todo` is stored, at `mark` all is, at `commit` and `lag` all is stored and marked; hence
  what is committed, what an instance acknowledged and what the lag reports is
  kept. `BreakerInv` relates the breaker's count to what Postgres did; the two
  facts the properties need besides: a batch that passed the gate found the circuit
  closed or half-open, and a circuit that opened stays so until a success.
* **CopiesAsPromised**. The mapping is `kept <- stored, marked <- seen,
  retired <- committed, reported <- lagRow`. Besides `PersistInv` it needs that the
  owner of a partition is never behind its committed offset (`OwnerAhead`), that
  a batch not yet acknowledged ends past what its instance acknowledged
  (`BatchAhead`), so that a commit goes forward, and that the lag reports a place in
  the log (`LagInLog`). Each step stores, marks, retires or reports, or touches none
  of the four (`StepRefinement`).
* **TrendsProofs**. `CountsExact` says of every counter that is kept what it is
  the sum of, `StoriesExact` which urls its set of stories holds, `AppliedMarked` that
  an event applied is in the dedup set of its longest bucket, for as long as
  any counter it went to is kept (`DedupWindow`: the dedup key is that of the longest
  window), which is why a redelivery finds its mark. `PositionApplied` puts the
  consumer's position behind what was applied; `RunsInOrder` says that there
  is one run at a time, newer than the previous counts, which are kept last.
* **CollectorProofs**. `PublicationsRecorded`: an item published more often than it
  was excused is in the seen table, or at hand and about to be marked.
  `CheckpointInv`: what is recorded was published; the queue holds every item
  of the feed beyond the checkpoint that the poll did not handle; what the poll will
  write as checkpoint is behind the items handled (`QueueComplete`,
  `ProgressBehind`; for Hacker News by date, unless a failed story left a gap and
  holds the cursor). What was published or passed stays so (`Grows`).
* **ServiceLifecycleProofs**. `WorkInv`: stores are closed after the consumer,
  which then fetches nothing, or by a rollback, when nothing runs yet. `ReleaseInv`
  says at each point who was asked to close: what left `rollback`, or the first
  steps of the shutdown; that the sequences have no repetitions and close what
  was connected is proved from their values.
* **OperationsProofs**. `OperationsInv` is the conjunction of one invariant for
  each part, and of what the parts may do to each other's tables (`RowsMove`: rows
  appear and vanish, only the command rewrites them). `TriggerInv`: the requests
  are valid, none is out before its publication, the waiter has passed over
  results of other ids only and holds the first of its own. `EnrichInv`: the plan
  of a batch is exactly what the handler computes from the rows it read, a row
  below the cursor is as the command should leave it, one above as it was, and no
  row that was asked for is passed over. `JobInv`: a table that is due is still in
  the queue, or failed, or is clean and stamped. The page a cursor reads is found
  as a least element, which is what ids from 1 on are needed for: the cursor
  begins at 0.
* **FiniteFacts**. A sum over a finite set is one element plus the sum of the
  others, whatever order the fold takes (`SumSplits`); sums of equal, bounded or
  shifted functions. Of a strict total order on a finite set: ranks tell members
  apart (`Ranks`), every rank is taken (`RanksFilled`), no more than `k` members
  have a rank below `k` (`RanksBelow`), and the list by rank holds every member
  once (`Listed`). Induction theorems that take an operator cannot be used, so
  each induction is done by a smallest counterexample among the subsets.

Only model-checked: `EventuallyCommitted`, `EventuallyDrained`, `StopEnds`,
`EventuallyPublished`, `ShutdownEnds`, `EventuallyConsumed`, `RunsEnd` and
`CommandsEnd`, since liveness is beyond the prover. Every safety property of a
passing run is a theorem.

## 5. Plan

Every component of the inventory has a module, every safety property of the
passing runs a theorem, and both abstract specifications a proof that they are
implemented. What is left, in order:

| | what | abstract specification, main properties |
|---|---|---|
| A | the operators of `TopicExtraction` and `RawEventHydration` in a run of their own | a second pass changes nothing but the listed exceptions |
| B | evidence in `Trends`, content fetching and Bluesky in `Collector` | evidence of a topic is evidence that was counted |

## 6. Not modelled

Wire formats beyond what a property tells apart, logging, metrics and health
endpoints, dashboards and deployment files; Bluesky, EDGAR, the extraction of page
contents and rate limits per host in the collector; prompts, token estimates and
texts of briefs; the compilation of the allowlist; the commands of ops-cli that
only print, and the dump and restore of a database (a crash in the middle leaves
a partial file, and two dumps in one second share a name).
The producer's serialisation.

Kafka, Postgres and Redis appear as what the code assumes of them: a statement,
a transaction or a script is atomic, a primary key refuses a second insert, a
committed offset is not redelivered, and a former owner cannot commit.
