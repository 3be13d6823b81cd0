# Verification of the fund investment platform

TLA+ models of the fund investment platform (`src/fip`), checked with TLC, and
theorems about them proved with TLAPS.  Every definition is translated from the
Python source; `PROJECT.json` names the lines each one stands for, the hazards
the properties are about, and the mutant that shows each property can fail.
Paths below are relative to `src/src/fip`.

## 1. The system and its components

The platform ingests fund data, classifies and evaluates funds, estimates
returns and risks, and proposes and follows portfolios.  A FastAPI process
serves requests in threads; worker processes execute long jobs; commands of
`platform/cli.py` run once.  All share one PostgreSQL database at its default
isolation, READ COMMITTED, and talk to each other only through its rows.  There
are no in-process queues or callbacks: the concurrency is that of transactions,
row locks, table locks, unique keys and savepoints.  The one exception is the
rebalancing router, which keeps its state in module-level dictionaries that the
request threads share.

| Component | State | Operations | Hard behaviour | What makes it correct |
|---|---|---|---|---|
| **Calculation-job queue** `platform/jobs/{submitter,executor,worker,models}.py`, `api/routers/fund_ingestions.py` | rows of `governance.calculation_job`, audit log | submit under an idempotency key; claim, execute, record an outcome; poll again | racing submissions of one key, savepoints, `SKIP LOCKED`, worker crashes, handlers that always raise | one job per key, exclusive and current work, effects = recorded progress, audit with the job, terminal states final, every healthy job ends |
| **Scoped ingestion** `api/routers/fund_ingestions.py`, `platform/jobs/fund_ingestion.py` | previews, run items, the operation's job | preview, submit, run a chunk, cancel, retry failures | a catalogue that changes under the submission, cancellation against a running worker, retries that race, rollback of a chunk | the scope that runs is the previewed one, progress is exact, nothing runs after a cancellation, retries own what failed |
| **Command endpoints** `api/operations.py`, `api/routers/commands.py` | jobs, optimisation and backtest records, decision reviews | submit an optimisation or a backtest, review a decision | two kinds of command under one key space, a lock that only one takes | a job and the record it names are committed together |
| **Fund catalogue** `services/data_service/{ingest,company,grouping}.py`, `platform/cli.py`, `platform/jobs/fund_ingestion.py` | products, share classes, provider mappings, basic-info history, raw payloads | ingest the provider's list, refresh a product, backfill companies | lists and jobs that overlap, renamed and reassigned codes, answers fetched before or under a lock, subjects that fail in a savepoint | a mapped code is not moved, the company is the last word, every answer is kept, the grouping stays in review |
| **Classification rules** `services/data_service/classification/{rules,policy,strategy}.py` | none | classify what data sets report | data sets that contradict each other, silence after a disclosure | contradictions are never settled by priority, disclosures are not forgotten |
| **Fund classification and its review** `services/data_service/classification/service.py`, `platform/jobs/fund_classification.py`, `api/routers/classifications.py` | revisions, intervals, review cases | refresh, propose, review, read as of a day | slow jobs that commit late, stale pages, proposals that wait over several revisions | decisions stand and are taken on what was seen, the queue is exact, proposals survive |
| **NAV ingestion and PIT reading** `services/data_service/ingest.py`, `repositories/nav.py`, `platform/decision_data/pit.py`, `normalization/*` | versioned values and events, a column of adjusted values | ingest, revise, rebuild the column, read as of a decision | revisions, gaps, batches that overlap or are rolled back, availability by declared lags | versions are the revisions, the column and the reading side agree, what a batch accepted can be read |
| **Fund universe, scoring and tiers** `services/fund_service/*`, `services/factor_service/*`, `strategy_library/{normalization,scoring,ranking,tier,universe}.py` | peer-group snapshots, factor runs, scores, ranks, tiers, universes | evaluate a decision in six stages | repeated and concurrent evaluations over data that change, ties, missing values, thresholds | a fund is evaluated once, a better fund is not ranked worse, stored evaluations are kept |
| **Return and risk estimation** `services/portfolio_service/estimation/*` | policy versions, runs, four tables of results | collect inputs, estimate, retry, reproduce, provide | three transactions per run, callers that die, data that arrive in between, benchmark switches and gaps | one executor, one answer, what is approved is whole, an excess return has one benchmark |
| **Live portfolio and rebalancing** `services/portfolio_service/{live_portfolio,drift,rebalance_trigger,rebalance_proposer}.py`, `api/routers/rebalance.py` | an in-memory snapshot per portfolio, the history of evaluations and their trades | report executions, deliver orders, value, measure drift, trigger and propose a rebalance | requests that overlap, partial fills and refusals in any order, thresholds that meet | cash and holdings add up, no fund is ordered twice, drift and trades agree |
| **Decision context, policies** `platform/config`, `platform/decision_data/context.py` | none (YAML) | load, hash | - | immutability |
| **Source adapters** `services/data_service/adapters` | none | fetch, parse | failures, missing fields | the models' nondeterministic inputs |
| **API reading side, API shell, other commands, migrations, frontend** | none of their own | queries, auth, limits, presentation | - | - |

Interactions: the API inserts jobs and items and sets cancellation flags; the
worker claims jobs and runs the ingestion and the classification handlers in the
claim's own transaction; list ingestion, refresh and classification lock the
product row; scope resolution takes SHARE locks on the tables that ingestion and
classification write; the evaluation reads revisions and NAV rows by
`available_at` and writes what the estimation and the optimisation read.

## 2. Modules

| Module | Models | Variables and the code behind them |
|---|---|---|
| `JobQueue` | the queue; one action per SQL statement that reads or locks, one for each commit | `job` the committed rows; `cpc, ckey, began, fresh, draft, answer` a request's transaction; `wpc, locked, held, row, effect` a worker's; `applied, audits` what handlers and requests have committed |
| `JobLedger` | what the queue promises: a registry by key, no transactions | `ledger`, `told` |
| `Commands` | the command endpoints; extends `JobQueue`, whose requests and workers it uses action by action | `asked` what an open request wants, `about` what a job is for; `optimizations`, `backtests` the records; `decision`, `trail`, `review` the reviews |
| `ScopedIngestion` | operations with items; built on what `JobQueue` establishes: `JobSubmitter.submit` is one step that waits for an open transaction of its key, and a claimed job is exclusive until its transaction ends | `catalogue, preview` the scope; `op, items, attempts, submitted` committed rows; `req`, `tx`, `locked` open transactions |
| `ClassificationRules` | `rules.classify` and what `classify_fields` keeps of earlier evidence, as operators | none |
| `FundCatalogue` | the three programs that write the catalogue; extends `ClassificationRules`, which it applies to each report | `product` a fund with its shares, the evidence in force on each day, revision, case, history and company; `today` the date by which answers are stamped; `identity` the open mappings; `tx` what each process has read and written; `raw` the stored answers; `clock`, `answered`, `told` (ghosts) what the provider has said |
| `ClassificationReview` | revisions and review cases of one product | `revs`, `cases`, `proposed` the tables; `job` what a worker collected, when, and what was in force; `opened` a reviewer's page |
| `NavPit` | versions of one share class's values and events, batches, the adjusted column, reading as of a day | `nav`, `event` the tables; `tx` what a worker has done in its transaction; `checked` the day of the last rebuilding; `reported` (ghost) the provider's last word; `batches` (ghost) a bound |
| `PeerScoring` | scores, ranks, tiers and selection of a peer group, as operators in whole numbers | none |
| `FundEvaluation` | the evaluation of decisions; extends `PeerScoring` | `data, group, evidence` what a read sees; `stored` the committed rows of each decision and group; `pc, task, draft` a caller's transaction |
| `EstimationInputs` | the choice of a benchmark, the return series and the sample of each basis, as operators of the data ("world") | none |
| `EstimationWorlds` | the data an estimation may find: every world within `MaxChanges` changes of a first one | `found` the world; `changes` (ghost) a bound |
| `EstimationRun` | the life of an estimation run; extends `EstimationInputs`, whose samples it estimates | `policy`, `run`, `results` the tables; `tx` a caller; `world`, `factors` the data; `answers`, `stranded`, `crashes` (ghosts) |
| `LivePortfolio` | one portfolio's snapshot and its handlers | `stored` the entry of `_LIVE_PORTFOLIOS`; `request` what a thread serves and the snapshot it has read; `events`, `filed` the two histories; `orders`, `books` (ghosts) the broker's open orders and what acknowledged reports amount to; `strayed` (ghost) the funds for which, while their order was open, a report came in that was not about it; `fresh` (ghost) the threads whose copy is still what is stored; `serial` (ghost) whether every store so far was of such a thread |
| `JobQueue_proofs` (with `Commands`), `ScopedIngestion_proofs`, `FundCatalogue_proofs`, `ClassificationReview_proofs`, `NavPit_proofs`, `FundEvaluation_proofs`, `EstimationRun_proofs` (with `EstimationWorlds`), `LivePortfolio_proofs` | theorems | - |
| `MC*` | small instances for TLC: symmetry and defined constants | - |

**Transactions.** A statement that reads or takes a lock is a step; what a
transaction has written stays in per-process variables until its commit step
publishes it, and the abort, fail and crash steps drop it.  Waiting for a lock
is a guard; a unique index that finds its key taken, and a deadlock that makes
one of two transactions fail, are an abort or `Fail`, which is possible at any
point.  Where a handler holds a lock for its whole transaction
(`ClassificationService.lock_product`; a worker's job row), the transaction's
writes are one step, and what it has read *before* the lock - the clock, the
sources, the snapshot in force, the page, the overview - is state of its own.
In `FundCatalogue` a product is locked when it is inserted or locked FOR UPDATE,
and until the transaction ends; an insert of a mapping waits for one of the same
code (`uq_pfi_open_interval`).

**Data.** A key, a value or a source is a model value.  A fund's catalogue entry
in `ScopedIngestion` is absent, unmapped or mapped.  Time is a small counter:
seconds of leases in `JobQueue`, days in `ClassificationReview`, `NavPit`,
`EstimationInputs`, `LivePortfolio` and `FundCatalogue`, where the provider's
answers are also numbered, in the order in which they came.  In `ClassificationReview` the clock and the axis of the
business intervals are one; instants within a day are not told apart, so that
the model also allows a refresh that the code refuses because another job of the
same day delivered a newer observation; the properties hold with these
steps too.  There `Classify`, the rules, is a constant function.
`ClassificationRules` is those rules: a text is what the code finds in it - a
name its hints, a disclosed strategy its clauses, each a statement that adopts,
refuses or only mentions.  `FundCatalogue` keeps what is in force day by day, from the
day of an answer on, as `write` does with its intervals; whether the citations of
evidence that is kept differ, which makes a revision too, is left open.  In `NavPit` an adjusted value is what it is computed
from: the value of its day and the events up to it, with the value each is
reinvested at.  `PeerScoring` computes in whole numbers that are multiples of
all denominators, so that no rounding is involved; three metrics stand for those
of a profile.  A return in `EstimationInputs` is the day it is measured from:
its value plays no part in what is kept.  What the estimators make of a sample is
one of five verdicts (`Numbers`).  In `LivePortfolio` money is in whole units,
and weights are percentages compared by multiplying out.

**Granularity.**  `LivePortfolio` splits a request where another thread can come
between: looking the snapshot up, creating the default one, storing what was
computed, and, for an evaluation, recording the event and filing its trades.
`NavPit` splits a batch at its fetches, its rebuilding and its commit.
`FundCatalogue` splits a row of a list at its look-up, its inserts and its
classification, and a subject at its two fetches.  `FundEvaluation` splits a
transaction where it reads data that may have changed: the groups, their
insertion, the factors (of all groups in one step), the scores with everything
that is computed from them, and the commit.  `EstimationRun` splits a run at its
three transactions and where a caller may die between them.

## 3. Runs

| Run | Instance | Shows |
|---|---|---|
| `job_queue` | 2 keys, one of them without a handler, 2 clients, 2 workers, ids up to 3, 2 chunks, the clock at 0 | `NoStaleWork`, `EffectsMatchProgress`, and that the queue implements `JobLedger` |
| `job_queue_live` | one poisoned and one healthy key, 1 client, 2 fair workers, 2 jobs, 2 chunks, clock 0..1 | `HealthyJobsEnd` |
| `scoped_ingestion` | 2 funds, chunks of 1, 2 previews, 1 key to submit and 1 to retry, 2 requests, 1 worker, 2 operations | submission, races and retries: `FrozenScope`, `SubmittedWhole`, `AnswersMatch`, `RetryCoversFailures` |
| `scoped_ingestion_work` | 2 funds, chunks of 1, 1 preview, 1 key to submit and 1 to retry, 2 requests, 2 fair workers, 2 operations | execution, cancellation, crashes: `ProgressIsExact`, `NothingRunsAfterCancel`, `CancelEnds` |
| `commands` | 2 keys for both kinds of command, 2 clients, 1 worker, 2 portfolios, 1 backtest, 1 decision, 2 jobs, 2 reviews | `RecordsMatchJobs` |
| `fund_catalogue` | 2 codes, 2 lists (the second renames the first code and changes its type), a legacy product of two shares, 3 overviews, 2 company names, 2 processes, 3 transactions or acts of the operator, 1 midnight | `MappingStands`, `GroupingInReview`, `CompanyIsLastWord`, `AnswersAreKept`, `DisputesStand`, `DisclosuresStand` |
| `classification_review` | 1 source with 2 values, 2 jobs, 2 reviewers, 2 days, 3 revisions, 2 proposals | `ReviewStands`, `DecidedOnLatest`, `QueueIsExact`, `ProposalsSurvive` |
| `nav_pit` | 2 workers, 2 values, days 0..2, events on day 0, lags 1 (values, splits) and 0 (dividends), 3 versions, 3 batches | `VersionsAreRevisions`, `RowsAreKept`, `ColumnAgrees`, `ChainHolds` |
| `fund_evaluation` | 5 funds of 5 kinds, 2 groups, 2 decisions of a day, 2 callers, 3 states of evidence, 1 change of the data at any point | `OneEvaluationPerFund`, `BetterIsNotWorse`, `StoredIsKept` |
| `estimation_inputs` | 2 funds, 1 classification, 3 benchmarks (one composite, one not valid for it), days 1..5, look-back 3, every world that differs from the complete one in 2 places | `SegmentsAreResolutions`, `OneBenchmark`, `SwitchesShow` |
| `estimation_run` | 3 callers (two policies, live and backtest), 1 run, 5 worlds that lead to every outcome, 2 factors, 1 crash, fair callers | `OneExecutor`, `ApprovedIsWhole`, `SameAnswer`, `FinalIsKept`, `RunsEnd` |
| `live_portfolio` | 1 request at a time, 2 funds at 50 %, capital 6, prices 1 and 2, fee 1, thresholds 25 % and 50 %, up to 2 shares, 2 reports, 2 deliveries, 1 evaluation | `BooksBalance`, `NoSecondOrder`, `DriftHasTrades` |

*Why the bounds are enough.*  Two clients and two workers make every pairwise
race, and two keys keep a race from being forced on one key; a third client
adds no statement that the first two do not interleave (`EstimationRun` has three
callers because an executor, one that retries and one with another policy
meet).  Two chunks make a job that goes on after a commit, and two jobs make the
order of claims matter.  Two funds with chunks of one make an operation of two
runs, so that a cancellation or a crash can fall between them; two operations
make a retry and its parent.  Two days make a job that commits on a later day
than its clock; three revisions make a decision, a decision after it, and a
carried proposal.  Three transactions of the catalogue make two that overlap and
one that meets what they left; its overviews say nothing, agree or speak of
another kind of fund, of which a list's row is a third; one midnight lets an answer
of a day be written after one of the next.  Three days and a lag of one make
two days whose values a decision sees, an event before a later value, and a
rebuilding that is as of an earlier day than its commit; three batches make a
value that is revised and comes back.  Five funds are above the minimum sample
and leave room for a tie, a fund without a factor and one that moves to another
group; the change falls between any two stages.  A look-back of three returns in
five days makes windows that begin at a gap, and two changes make a gap in a
fund's values meet one in an index or a second mapping.  Two reports make a
partial fill and what follows it, two deliveries the order that must not be
repeated.

The clock of `JobQueue` stands still in `job_queue`: it is read only against
leases, which no committed row holds; `Tick` fires in `job_queue_live`.  All
bounds are constants or `Max...` guards.  Symmetry is used over clients,
workers, keys, reviewers or values that no property names, and in runs without
liveness.  In `fund_evaluation` funds that differ in nothing but their number
are taken in order of their kind, and all begin in one group: `MCInit` names one
of the equal beginnings of `Init`.

Two runs explore states that differ only in what nothing reads as one (`VIEW Seen`).
In `fund_catalogue` revisions and answers are numbered without end, but steps
and properties ask only whether a case is about the latest revision and whether
two counts agree; a transaction's day matters while it has an answer of that day
in hand.  In `live_portfolio` what an evaluation records and files is read
neither by a step nor by a property, nor is the snapshot it is made from.

**Fairness.**  `worker.main` runs `run_once` in a loop, hence weak fairness of
`Claim` and of the steps that end a transaction.  Strong fairness of a job's
own outcome says that its worker is not killed, and its handler does not raise,
in *every* run: without it no queue that restarts can promise an end.  A
handler in `Poison` may raise each time, and then only the commit of its
`HANDLER_EXCEPTION` is assumed.  Cancellation needs no handler to succeed.  An
estimation is one call: its caller goes on, weakly fair, unless it dies, and
`RunsEnd` says what the call's `except` promises, that a run leaves RUNNING or
its caller has died.  The other modules state no liveness: people, the provider
and the broker act when they like, and each transaction ends by itself.

## 4. The deeper properties, and what they rest on

- `QueueImplementsLedger` / `LedgerSpec`: whatever transactions do, a key's entry
  is registered once, its work advances one chunk at a time and only while it
  runs, and a client is told of a registered key only.
- `FrozenScope` holds because the SHARE locks are taken before the scope is
  resolved again; `RetryCoversFailures` because a retry locks its ended parent.
- `RecordsMatchJobs` says what the advisory lock of `submit_optimization` gives,
  and where it ends: a record without a job is left only when a backtest run,
  which takes no lock, used the same key.
- `CompanyIsLastWord` holds because the company is fetched under the product's
  lock; fetched before it, as the overview is, it would not.
- `GroupingInReview` holds because `ClassificationService.write` carries open
  grouping cases to the revision that it makes, whoever makes it.
- `DisputesStand` holds because evidence is kept per data set; merged by field,
  the last data set would win.  It and `DisclosuresStand` speak of each day.  An answer
  is merged into what was in force on its own day and takes the place of all that
  follows, so that neither holds of what later days' answers said when an earlier
  day's is written after them; the properties name that case (`late`, and the
  days of `types`) and no other.
- `NoSecondOrder` names in the same way (`strayed`) the reports that are not about the
  open order of their fund; the code takes them off what is pending.
- `ProgressIsExact` includes that an item that settled is not run again: without
  the savepoint around a handler (`RaiseUnsaved`) neither the counts nor the
  attempts would be those of the items.
- `BetterIsNotWorse` is about the whole chain of normalisation, the interaction
  of tracking error and ratio, weights, ranks, tiers and selection, for funds
  that have the same metrics.  What is better follows the profile (`Preference`):
  a passive or a bond fund is to have a low tracking error, the others a
  tracking error that pays.  Selection follows only if the universe admits the
  tiers above those it admits (`AdmitsTheBest`); the code takes any set
  (`services/fund_service/universe.py:22`).
- `ApprovedIsWhole` relates four tables and the checks of the provider that
  reads them; `SameAnswer` what callers were told at different times.
- `ExcessKeepsToOneBenchmark` (`OneBenchmark`) joins the segments of mappings, the
  gaps of index levels and of the fund's values, and the complete-case sample: the
  mapping is in force on every day from the one that the benchmark's return is
  measured from, and neither of the two returns steps over a stored row.  The fund's
  may be longer than the benchmark's, where the fund has no row (section 8).
  `SwitchesAreShown` (`SwitchesShow`) says that the change itself is listed, warned of
  and not sampled; `SegmentsAgree` compares two readings of one table, by ranges
  and by days.
- `ColumnAgrees` compares the two implementations of adjusted values, of which
  one fills a column and the other reads.

## 5. Proofs

Every theorem is for any values of the constants that the named assumptions of
its module allow, whatever the bounds of the runs.

`JobQueue_proofs` (`NoneAssumption`, `BoundsAssumption`, `KindsAssumption`,
`RowAssumption`, `EntryAssumption`: `None` is none of the other values, bounds
are numbers) proves `TypeCorrect`, `OneJobPerKey`, `SubmitNeverRaises`,
`WorkIsExclusive`, `EffectsAreRecorded`, `CrashNeverStrands`,
`SubmissionsAreAudited` and `QueueImplementsLedger`.  None of the invariants is
inductive alone.  The strengthening is
`IInv == TypeInv /\ RequestInv /\ TableInv /\ LockInv /\ NeverRaises`:

- `TypeInv`, the types;
- `RequestInv`, what a request's place tells of its variables: it has a draft
  only at its commit, as its answer and fresh; drafts are not yet committed,
  under keys that are not, and pairwise of different ids and keys; a select
  that is not fresh and a reselect find a committed key; an idle request's
  answer exists;
- `TableInv`: `UniqueKeys`, ids up to `lastId`, no committed
  lease, and effects applied = chunks recorded, none for ids without a row;
- `LockInv`: an idle worker holds nothing; a busy one has locked its existing
  RUNNING job, and its copy differs from the committed row by the chunk it has
  done only, with its lease gone by its commit; nobody else has locked its rows;
- `NeverRaises` itself.

`AuditTrail` is proved beside it (`AuditStep`): a commit files its job and its
audit in one transaction.

`UniqueKeys` needs `RequestInv`: an insert waits for open drafts of its key, so
that its check against committed rows is still true at its commit.
`NoStaleWork` needs `LockInv`, because the claim reads only rows nobody has
locked.  The refinement maps every action to one of the ledger's or to a
stutter; `CommitSubmit` is `Register`, `CommitWork` is `Advance`, `Lookup` is
`Forget`.  `TypeOK`, `UniqueKeys`, `NeverRaises`, `CrashFreesJob` and `AuditTrail`
are proved, and no run repeats them.

The last part of `JobQueue_proofs` (`CommandsAssumption`: what is asked is never
`None`) extends this to the command endpoints:
`RecordsAndJobsMatch` (`RecordsMatchJobs`) and `CommandsKeepTheQueue`, which says
that `UniqueKeys` and `NeverRaises` stand although a backtest takes the queue's
keys without the lock that optimisations take.  Requests and workers are the
queue's own actions, so its `IInv` is kept by the lemmas about them;
the commit of an optimisation shares `CommitJob` with it.
`CommandsImplementLedger` is the refinement of `QueueImplementsLedger` for these
requests: whichever kind takes a key, it is registered once, and each request
is told of the job of its own key.  Beside `IInv` the
strengthening has the types, `OneLock` (a key's advisory lock is held by one
request) and `LockGuards` (while it is held, no optimisation of that key is
committed).  The lock alone is not enough: that the commit which adds the record
adds a job of its own, and not of a backtest that came between, is the queue's
`RequestInv`.

`NavPit_proofs` proves, for any workers, values, days, event days and bounds, any
lags that `LagAssumption` allows (here only that they are numbers is used) and
any answers of the provider: `TypeCorrect`, `VersionsCorrect` and `RowsKept`.  A commit overwrites both tables with what a transaction has made of
copies that it took earlier, so neither `VersionsAreRevisions` nor `RowsAreKept`
follows from a step alone.  The strengthening is
`IInv == TypeInv /\ TxInv /\ VersionsAreRevisions`: `TxInv` says that a batch that
has begun is the only one, has room for its commit, and holds tables that keep
every stored version and are exactly the revisions of what the provider has said
to it.  Only the lock of `IngestNav` makes it true.  The lemmas follow one row
through `Revise` and `Ingest`, and show that `Rebuilt` changes the column only,
and fills it only with what can be computed; `Min` and `Max`, which are choices,
have values because sets of numbers are well founded.

It goes on to `ColumnAlwaysAgrees` (`ColumnAgrees`) and `ChainAlwaysHolds`
(`ChainHolds`), for which rows are not enough: one reads a column that an earlier
day's rebuilding filled, the other what a batch accepted before later ones
revised it.  `ColumnInv` says that every version of a day's value becomes
available at one moment and every version of its events not after it
(`Timely`), and that the column of what was visible on the day of the last
rebuilding is what a reading computes (`Filled`), in the stored tables and in
those of a batch that is about to commit.  `Timely` is where `LagAssumption` is
needed: if a split or a dividend had a longer lag than a value, a decision could
see the value and not the event, and the two readings would differ.

`EstimationRun_proofs` proves, for any callers, runs, settings, worlds and
factors (`NumbersAssumption`: a lineage has the number of its inputs),
`OneExecutorAlways`, `FinalIsKeptAlways`, `SameAnswerAlways` and
`ApprovedAlwaysWhole`. The strengthening (`Inductive`) adds to the shape of the
state: a run is RUNNING in one pair of hands or stranded; who does not execute
computes again only a run that is final; every answer is an outcome of some data
whose fingerprint the run has; and only a final run has results, which are with
its row all of one outcome (`Holds`). `ApprovedIsWhole` follows table by table
(`RowsByTable`): what the provider's checks compare is what one outcome leaves
(`LoadsWhole`). `SameAnswer` then rests on `FingerprintDetermines`: equal
lineages have equal inputs, factor values and settings, hence equal outcomes.

Its last part proves `SegmentsAlwaysAgree` (`SegmentsAreResolutions`),
`AlwaysOneBenchmark` (`OneBenchmark`) and `SwitchesAlwaysShow` (`SwitchesShow`) for every
world, of which the run sees those
next to one.  The days at which a mapping begins or ends cut the window; the
pieces cover each day once (`Partition`, `CoverOnce`), and what is in force does
not change within a piece (`HeldFromCut`), because the mappings that apply to a
day are totally ordered by what the code sorts them by.  An excess return is
built from the levels of one segment, so that the second theorem follows from
the first without an argument about gaps: levels of two segments never meet.  Each
leg is a return of consecutive stored rows (`FundReturnOf` for the fund's).  The third
rests on the first as well: where the mapping of a day is not that of the day
before, a segment begins, and every start but the first is a switch date.

`FundCatalogue_proofs` proves, for any lists, jobs, reports, processes and bounds,
`MappingIsKept` (`MappingStands`) and `EveryAnswerKept` (`AnswersAreKept`).  A commit
copies what the transaction has mapped over the committed mappings, so
`MappingStands` needs `OneMapper`: a code is mapped by one open transaction at a
time, and by none while a committed mapping is open.  `AnswersAreKept` needs
`Counts`: an open transaction's answers are those it has stored for good and those
captured for the subject it is working on, which are none when no subject is
begun.  A second invariant, `CatalogueInv`, gives `GroupingAlwaysInReview`,
`CompanyAlwaysLastWord`, `DisputesAlwaysStand` and `DisclosuresAlwaysStand`.  These
relate a product to what the provider has said, and every one of them could be
broken by a commit of a copy taken earlier; so `CatalogueInv` says of each open
transaction (`TransactionInv`) that the products it holds are in the condition the
committed ones are in (`RowInv`) - evidence, latest revision, case and history agree
- once its own writes are added, and of each product that one process holds it.
For the disclosures it says, day by day, that the type told last by a data set on
or before that day is in the evidence in force (`RecordOK`), and that a transaction's
copy forgets nothing that the committed row has (`Later`), unless it has merged an
answer of an earlier day.
The last is what makes the company, which is fetched under the lock, the last
word.

`ClassificationReview_proofs` proves `TheQueueIsExact` (`QueueIsExact`),
`DecisionsAreFresh` (`DecidedOnLatest`) and `ReviewsStand` (`ReviewStands`), for any
sources, values, rules, jobs and reviewers.  Beside the two invariants the
strengthening has only the shape of the rows (`Shape`).  `Rebased` says which
cases are pending after a revision: the proposals carried over and the cases of
its own intervals; `Revised` that the queue is exact whatever decided cases are
added to them, which is how a review settles the case it decided on.
`ProposalsAlwaysSurvive` (`ProposalsSurvive`) needs more (`TInv`): that undecided
proposals exist only while the latest revision rests on a review, because a job
that finds none would write what it collected and leave the queue without them.

`ScopedIngestion_proofs` (`SizeAssumption`, `KeyAssumption`, `RowAssumption`:
sizes are numbers and chunks not empty, the keys of submissions and retries
differ, `None` is none of the other values) proves `ProgressAlwaysExact`, `RetriesCoverFailures`, `SubmissionsAreWhole`,
`AnswersAlwaysMatch`, `NothingRunsCancelled` and `ScopesAreFrozen`, for any funds,
previews, keys, requests, workers and operations.  Beside the types (`TypeInv`)
the strengthening says, of each part of the state, what it may rely on:

- `OpInv`: an operation's counters are its items, an ended one has none pending,
  and its items are what it was made of (`Made`) - those of a preview, or the
  failures of its parent, which has ended and so keeps them;
- `RequestInv`: what a request has read is still so - the catalogue while it
  holds the SHARE locks, the parent while it holds its row, a draft's key while
  no other insert of it is open;
- `Apart`: open inserts have different ids;
- `WorkInv`: a worker's copy is of a running operation that nobody else writes,
  is the committed row until the handler has run, and then differs by one chunk;
- `TriedInv`, beside these: in committed rows and in a worker's copy, an item has
  been run as often as its status says.

`FundEvaluation_proofs` proves `EvaluatedOnce` (`OneEvaluationPerFund`) and
`EvaluationsStand` (`StoredIsKept`), for any funds, groups, decisions, callers,
data, weights and thresholds, and from no assumption: the scores are a function
of what is stored, whatever function it is (`EvaluatedRow`).  A commit writes the
whole draft of a transaction over the stored rows, so neither property follows
from the step.  The strengthening says that what a transaction has of a group
equals what its decision has stored of it (`Agrees`), that no other run owns a
value of a fund it has evaluated (`ValuesOwn`), and that the unique keys keep
open transactions apart, by group (`KeysApart`) and by fund (`ValuesApart`).

`BetterIsNeverWorse` (`BetterIsNotWorse`) is proved beside these, for any profile,
weights, thresholds and groups that `ScoringAssumption`, `AbsenceAssumption` and
`EvaluationAssumption` allow (weights are positive, a group is finite, `None` is no
number).  `RowsInv` says that whatever is stored or about to be was computed from
the values stored with it, however the data have changed since.  The rest is
about the operators: a rank falls as a value rises, because the funds better than
or equal to the better one are among those better than the other (`RankOrder`);
hence normalisation, the interaction of each profile, the weighted mean over the
metrics both funds have (`ScoreOrder`), ranks, tiers and selection keep the order.
The sum is a fold that chooses its elements; `MetricSum` shows that it is the sum
of three terms whatever is chosen.

`LivePortfolio_proofs` proves `BooksAlwaysBalance` (`BooksBalance`),
`NoSecondOrderEver` (`NoSecondOrder`) and `DriftAlwaysHasTrades` (`DriftHasTrades`), for any
funds, threads, prices, targets and limits; the first two as long as stores do
not overlap (`serial`).  The strengthening is
`IInv == TypeInv /\ ReadInv /\ BookInv /\ OrderInv`: a fresh thread's copy is what is stored, and the waiting flag is
up exactly while something is pending (`ReadInv`); cash and holdings are the
books (`BookInv`); and what the broker has left to do, of a fund that is not in
`strayed`, is pending, now and after each report in hand (`OrderInv`).  `DriftHasTrades` needs an argument about sums
over any finite set of funds: that a recursive function computes them is shown by
a least set at which it would not (`SumsExist`, `SumsBound`), since the library's
induction is out of reach; gaps that are all below the smallest trade then add up
to less than the limit of a category.

*What the proofs found.*  `serial` used to compare snapshots by value: two threads
that stored equal snapshots one after the other passed for one that had not been
overtaken, and with three deliveries TLC found `NoSecondOrder` violated; `fresh`
names the threads instead.  `DriftHasTrades` is false of a category limit and a
smallest trade of zero; it now says which limits it is about.  `BetterIsNotWorse` measured every
profile by the rule of the active ones, which a passive fund may violate whose
large tracking error pays, and took selection to follow the tiers whatever set
of tiers a universe admits; TLC violates both with other weights and tiers than
those of the run.

Every safety property that a run checks is stated by a theorem.  Only
model-checked are the liveness properties `HealthyJobsEnd`, `CancelEnds` and
`RunsEnd`: fairness and ENABLED are beyond the prover.

## 6. What is not modelled, and why

- Numerical algorithms (estimators, factor formulas, ratios, risk statistics) are
  floating-point arithmetic; the models take their verdicts.
- The reading endpoints, `live_analysis.py` and the frontend change no state; the
  API shell (authentication, limits, error mapping), the policies in YAML and the
  migrations keep none of their own.  The unique keys, checks and locks of the
  schema are part of the actions that rely on them.
- Adapters parse provider tables; the models take any answer or failure.  The
  limiter that spaces their calls is not modelled.
- Database deadlocks are not modelled as a lock graph: a request, a chunk or a
  transaction may fail at any point, which is what the victim sees.
- `ClassificationReview`: the paused dimensions, the split of a result into
  dimensions and tags, and the trading eligibility are abstracted.
- `FundCatalogue`: other fields of a product, and the closing of an interval, which
  no code does and an operator does by hand (`CloseIdentity`, external).  No product
  of it has been reviewed: of a reviewed one a writer changes nothing and files
  proposals (`classification/service.py:686`), which is `ClassificationReview`.
- `Commands`: the checks of a request's fields, and the in-memory registry that
  replaces the queue where there is no database.  The review of a decision is
  modelled, and section 8 says why no property covers it.
- `NavPit` leaves out the quality labels and the risk-free rate, and computes no
  numbers.  `LivePortfolio` leaves out cost bases, holding days and the texts of
  answers; `Deliver` and `Mark` model operations that only tests call so far,
  whole, as one step each.  The broker behind its reports is external.
- `live_portfolio` serves one request at a time: overlapping requests lose fills
  (section 8), and its properties are about the operations.

## 7. Plan

1. An abstract specification of `NavPit`, a log of revisions, that it implements.
2. The paused dimensions of the classification, when they are evaluated again;
   the quality gates of `quality.py`.

## 8. Where the code disagrees with the documents or is exposed

Met while modelling.  The models do what the code does; no run states these.

- *An undecided observation is dropped* (`classification/service.py:1206`):
  `_review` resolves the proposals that begin on the decided day also when it
  decides a status case, whose decision rests on the baseline's observations.  A
  later refresh of the same sources proposes again, a refresh of others does not.
- *The past changes* (`platform/jobs/fund_classification.py:291`): `available_at`
  is the clock of a job's start or fetch, visibility begins with its commit; a
  decision in between read the product without the revision, and reads it with
  it when it is repeated.
- *A fill is lost* (`api/routers/rebalance.py:145`): `submit_execution_report`
  stores what it made of a snapshot that it had read before, without a lock; a
  report that another thread acknowledged in between is gone.  The design
  (`docs/superpowers/specs/2026-10-19-plan8-live-portfolio-and-rebalancing-design.md:56`)
  has every fill update the portfolio.
- *An order is no longer pending while it is open*
  (`live_portfolio.py:234-255`): a report is matched with the pending shares by its fund
  alone.  Its side, its rebalance and its size play no part, so that a sale, another
  order's fill or a refusal reduces or clears what is pending, the flag falls, and
  `deliver_rebalancing_recommendation` lets a second delivery through while the broker
  works on the first (`docs/06-portfolio/06-rebalancing.md:735`: no second trigger while an
  execution is pending).  `NoSecondOrder` excepts these funds.
- *A proposal in spite of a pending execution* (`api/routers/rebalance.py:196`): the
  evaluation makes and files a proposal whatever the triggers say;
  `docs/06-portfolio/06-rebalancing.md:100` has it make none.
- *A rebalance without trades* (`api/routers/rebalance.py:242`): an event is in the
  history before its trades are filed, and a reader in between finds none; a second
  evaluation of a day has the same `rebalance_id`, and its trades replace the first's.
- *Revisions arrive in the past* (`services/data_service/ingest.py:677`): every
  version of a value gets its day plus the declared lag as `available_at`,
  revisions too, so that a repeated decision reads another version.
  `docs/03-data/04-data-versioning.md:402` has `available_at` be the arrival.
- *An excess return may span two days* (`estimation/inputs.py:103`): a fund's day
  without a value makes a longer return, and so does the benchmark's;
  `docs/07-return-risk/05-estimation-methodology.md:285` calls that a bias, and
  `:292` removes the period.  The two are subtracted by their last day
  (`inputs.py:270-277`) although they may begin on different ones; and where the fund has
  no value on the day of a switch, its return of the next day spans the switch and
  the benchmark's does not.
- *A switch that a fund outside the sample has* is listed among the dropped dates,
  and may be an observation date of the funds inside (`inputs.py:462-474`).
- *A stranded run* (`estimation/service.py:147`): a run whose caller dies stays RUNNING,
  and neither a run nor a retry takes it up (`stranded`).
- *A member is exchanged* (`fund_service/peer_group/repository.py:31`): a stored peer
  group is compared with the present one by its size, so that an evaluation that is
  repeated after one fund has left and another has come goes on over the members
  that are stored.
- *The tracking error alone* (`strategy_library/scoring.py:29`): where the
  interaction has no value, the tracking error scores by itself; the design (`docs/superpowers/specs/2026-09-08-plan2-evaluation-pipeline-design.md:131`)
  has the interaction replace it.
- *A reviewed decision is reviewed again* (`api/routers/commands.py:234`): the
  status is not looked at, and of two reviewers the last writer is shown;
  `docs/02-architecture/01-system-architecture.md:889` and `:892` give APPROVED and
  REJECTED no way back.
- *A repeated answer makes a revision* (`ingest.py`, `classify_fields`): evidence
  that is retained is wrapped anew in its citations (`classification/strategy.py`), and
  its hash differs (`cited` in `FundCatalogue`); `docs/03-data/02-data-domain-model.md:673`
  has it make none.
- *A late answer discards what was told since* (`ingest.py:504-515`,
  `classification/service.py:572-580`): a payload of day D that is written after one of
  day D + 1 - a list whose rows wait for a job that refreshes their product, over
  midnight - is merged into the evidence of day D, and the result replaces the
  intervals that follow.  What was disclosed on D + 1 is gone, and a conflict with
  it; `config/policy/classification/current.yaml:97` gives no authority to discard
  contradictions.
- *A quantitative tag that only a name suggests is lost* at the next refresh that
  leaves the strategy out: the evidence of tags is not retained
  (`ingest.py:504-516`).  `DisclosuresStand` is about confirmed and disputed tags.
- *A history version is available before its content*: it has the overview's
  fetch time and the company that was fetched later (`ingest.py:611`), and of two
  refreshes that overlap the later version may have the earlier time
  (`docs/03-data/02-data-domain-model.md:704`).
- A renamed code keeps its share class, where the docstring of `ingest.py:78`
  speaks of a reassignment.
- The router of `fund_ingestions.py` writes a second SUBMITTED audit row when it
  loses the race for a key (its own SELECT at line 164 decides); the issue key of
  a proposal holds its day, so that the next day's refresh proposes the same
  again (`service.py:712`); the rebuilding of the column skips a checkpoint at
  which only an event becomes available (`normalization/backfill.py:156`), so that
  an event day without a value is accepted until a later value arrives.
