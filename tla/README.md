# Hodlin in TLA+

TLA+ models of the Hodlin pipeline: how market data becomes anomalies, how
anomalies become alerts on Telegram, how the bot answers, and how the execute
domain authorizes an act on a proposal. TLC checks the models on small
instances; TLAPS proves every safety invariant and action property that the runs
check, and both refinements, for every value of the constants. `PROJECT.json`
lists every run, mutant, mapped definition, hazard, finding and theorem; this
file says what they mean.

Paths below are short for `packages/recommend/src/hodlin_recommend/`
(`ingest/…`, `store/…`, `delivery/…`, `domain/…`, `connectors/…`, `serving/…`),
`packages/execute/src/hodlin_execute/` (`gate/…`, execute `store/…`) and
`packages/contracts/src/hodlin_contracts/` (`proposal.py`, `canonical.py`).

## The system

One *recommend* process holds an APScheduler with five recurring jobs and one
cold-start job, a Telegram long-poll task, and a small HTTP API, over one
Postgres database. The *execute* domain, at this commit, is a token module and
tables. The two exchange *proposals*, defined by a contracts package.

| Component | State it keeps | Operations | What makes it correct |
|---|---|---|---|
| ingest jobs (`ingest/jobs.py`, `ingest/backfill.py`) | `assets`, `price_bars`, `anomalies` rows | `ingest_bars`, `detect_anomalies`, `run_backfill` (and `ingest_news`) | no gaps, every anomaly recorded and none invented, a dead source costs only itself, no deadlock |
| detector (`domain/anomaly.py`) | none | `detect_series` | the same verdict from a tail as from the whole history |
| explain job (`ingest/explain.py`, `domain/explanation.py`) | `explanations`, `evidence` rows | read a batch, read the news, ask the LLM, check and expand its reply, store | one final explanation, evidence the model meant and nothing later than the bar, bounded spending, no starvation |
| notify job (`notify_anomalies`) | `anomalies.notified_at` | read a batch, claim, send, commit | never silently missing, every duplicate accounted for |
| audit (`run_audited`, `ingest_runs`) | one row per tick | start, finish | rows never claim more than was done |
| Telegram client and retries (`delivery/telegram.py`, `connectors/base.py`) | none | `send`, `get_updates`, `request_json` | a lost answer is retried, a refusal is not |
| poller (`delivery/poller.py`) | `offset`, in memory | poll, acknowledge, reply | nothing lost, strangers get nothing, never stops by itself |
| scheduler (`ingest/scheduler.py`) | due runs, in memory | fire, coalesce, misfire, skip | the cold start is made, every job recurs |
| inference thread (`domain/sentiment.py`, `serving/routes/sentiment.py`) | its queue | score a headline or a request | one pass at a time, drained before closing |
| lifespan (`serving/app.py`) | the poller's task, the scheduler, the thread | start, tear down in order | teardown completes, and leaves nothing running |
| proposal contract (`proposal.py`, `canonical.py`) | none | parse, dump, hash, `is_expired` | digests are meanings; old documents stay readable |
| token (`gate/token.py`) | none | `mint`, `verify` | only the issued token, for its act, in its window |
| execute store (execute `store/tables.py` and migration 0001) | nine tables | none yet | one live token per hash, one attempt per token, an audit trail that deletions do not reach, but for which token an approval minted |
| composition, demo, migrations, containers | none | wiring, DDL, restart | not modelled |

Interactions: jobs meet only in Postgres rows, under READ COMMITTED, with row
locks taken by upserts and updates; ingest and backfill call price sources,
explain the LLM, notify and the poller Telegram. A second process may run the
same jobs: during a redeploy, or when the operator runs `hodlin_recommend.demo`
beside the app, which `docker-compose.yml` invites. The hard behaviours are
overlap of processes and jobs, crashes between an effect and its commit, lost
answers, head-of-line blocking, state read before an await and used after, and
a teardown whose steps are deferred to callbacks and threads.

## Modules

| Module | Models | Composes | Theorems |
|---|---|---|---|
| `AlertDelivery` | the abstract promise of delivery | | |
| `NotifyJob` | `run_audited(notify_anomalies)` in several processes, with `mark_notified`, `request_json` and Telegram | refines `AlertDelivery` | `NotifyJob_proofs` |
| `Explanations` | the abstract promise of explaining | | |
| `ExplainJob` | `explain_anomalies`, `explain_anomaly` and the domain functions they call, in several processes, over arriving news | refines `Explanations` | `ExplainJob_proofs` |
| `AlertPipeline` | both jobs over one database | `ExplainJob`, `NotifyJob` | `AlertPipeline_proofs` |
| `AnomalyDetection` | the detector, in integers | | in `MarketData_proofs` |
| `MarketData` | `ingest_bars`, `detect_anomalies`, `run_backfill` as transactions | extends `AnomalyDetection` | `MarketData_proofs` |
| `UpdatePoller` | the poller's task, and Telegram's side of `getUpdates` | | in `Serving_proofs` |
| `Serving` | the lifespan: scheduler, inference thread, teardown | extends `UpdatePoller` | `Serving_proofs` |
| `Money` | `_normalize_money` and the decimal context | | |
| `ProposalContract` | `parse_proposal`, canonical form, digest, `is_expired` | extends `Money` | `ProposalContract_proofs` |
| `ApprovalToken` | `mint` and `verify` | extends `Money` | `ApprovalToken_proofs` |
| `ExecuteStore` | the execute schema under concurrent transactions | | `ExecuteStore_proofs` |

Each `…_proofs` module extends the module it is about; `AlertPipeline_proofs`
uses the theorems of both jobs through `INSTANCE`, with the same substitutions
as `AlertPipeline`.

`…MC` modules hold constants and symmetry for TLC. A definition named
`Op_Slip` beside `Op` is a plausible bug; substituting it for `Op` makes TLC
refute the property it is listed with, which shows that the property bites.
The slips appear in no specification.

### How state and actions correspond

**NotifyJob.** A process is at most one tick (`max_instances = 1`). `claim[a]`
is the uncommitted `notified_at` of row `a`, that is, its row lock; `Claim` and
`LoseRace` are the two outcomes of the `UPDATE … WHERE notified_at IS NULL`,
after waiting for the lock. `request[p]` follows one HTTP request: sent, acted
on by Telegram, answered; `late[a]` are requests given up on that Telegram may
still act on. `FailSend` is the whole error path of the job: rollback, error
status, end of the batch. `Finish` closes the audit row. `delivered` and
`doubt` are history: messages in the chat, and sends whose outcome was lost.

**ExplainJob.** `news[n]` is the asset whose row article `n` is; `IngestNews` is
one committed row of `ingest_news`, whose natural key names no asset. `Ask` is
`explain_anomaly` up to the call: `for_anomaly`, `recent_for_symbol`, the
numbered `candidates` of the prompt. A good reply is a set of indices that
`parse_reply` accepts; `Assemble` expands them as Python indexes a list
(`Position`: a negative index counts from the end), while `Meant` is what the
prompt's numbers mean. `inserting[a]` is an uncommitted insert, which a second
insert waits for. `explanation[a]` is the number of the paid reply that became
the row, `evidence[a]` the articles it cites; `replies` is history. So are
`calls` and `spent[p]`, the LLM calls made in all and in a process's newest
tick: a call is counted when `Ask` makes it, whether its reply is used,
malformed, late or lost. `calls` leaves out the anomalies whose replies never
parse, whose calls have no bound. A call is one `complete` of the LLM; the
Anthropic client, built with its default `max_retries`, may repeat the HTTP
request within it. The audit row is `NotifyJob`'s subject and left out.

**AlertPipeline.** `explained` of the notify job *is* the set of committed rows
of the explain job. That is the only coupling.

**MarketData.** `owner[a]` is the asset row's lock, taken by
`AssetRepository.upsert` and held to the end of the transaction; `new` and
`found` are uncommitted inserts. Backfill locks asset by asset while it fetches,
ingest locks all first. Time is the day of the newest bar. Log prices are
integers; the z-score comparison is squared and cross-multiplied, so exact. A
price is positive and the same whenever it is asked for. `AtMalformedBar` is the
one payload error that escapes the per-asset policy.

**UpdatePoller.** Telegram keeps `pending` updates until a `getUpdates` names a
higher offset. `batch` is what the last poll returned and the loop has still to
take, in the order of update ids (`IsNext`). An update's handling may raise
(`Poisoned`); an update that is not an object makes `update.get` raise outside
the `try` (`Malformed`). An update of `NoId` has no integer `update_id`: it is
handled, and leaves the offset where it is, so that Telegram returns it, and the
poller answers it, with every poll until a later id passes it. A stranger's
update is taken and answered by nothing: default deny is the guard of `Take`.
`app` is the lifespan: up, stopping, closed, down.

**Serving.** `due[j]` says whether a run of job `j` is due and how late it is:
"late" is within `MISFIRE_GRACE_S`, "stale" beyond. A job is due at most once
(`coalesce`) and runs at most once at a time (`max_instances`). The fire time of
the cold start is stamped when the scheduler is built, so it is stale from the
start in the worst case, which is the case modelled. `lane` is the queue of the
one-thread executor: its first caller is being served. Teardown follows the code
(`serving/app.py`, lines 87–107): `BeginTeardown` cancels the poller's task,
`Unwind` is its end, `AskToStop` is `scheduler.shutdown`, which only schedules a
callback, `StopScheduler` is that callback (it cancels the ticks in flight;
a pass that has begun goes on in its thread), `Release` closes everything. The
grace has any length, none included.

**ExecuteStore.** A table is a record of its columns, nullable columns,
uniqueness and references, read off `store/tables.py` and the migration. A
transaction `t` sees `View(t)`, its own writes over what is committed (READ
COMMITTED takes a new snapshot per statement); a unique index shows it the
uncommitted `Versions` of others too, for whose end it would wait. `shared[t]`
are the key-share locks that inserting a reference takes. A statement PostgreSQL
would block or refuse is not enabled, and `Rollback` is always possible: a
refusal, a timeout or the victim of a deadlock. No code at this commit writes
the tables, so the clients are arbitrary, but for what an audit trail means:
they delete no audit row and rewrite no reference. `TrailKept` is about the
references that are `RESTRICT`: `approvals.token_jti` is `SET NULL`, so deleting
a token does erase which token an approval minted.

**ApprovalToken, ProposalContract.** MAC and digest are free constructors: they
are equal only for equal inputs. `Verify` lists the checks in the code's order
and reports the first that fails; a token that does not split into three parts
is malformed before its label is looked at. A proposal's fields that both
versions treat alike are one value. A negative amount is refused by every
version.

## Runs

Passing runs:

| Run | Instance | Shows |
|---|---|---|
| `notify_safety` | 2 processes, 2 alerts, batch 2, 2 attempts, 3 faults | types; `NoStaleSend`; `NeverSilentlyMissing`; `DuplicatesAccounted`; `OkTickDelivered`; `AuditTruthful`; refinement of `AlertDelivery` |
| `explain` | 2 processes, 2 anomalies of two assets, batch 2, 3 articles (one in both feeds, one too late for the first anomaly), one article shown per prompt, 1 fault | types; `SpendBounded`; `EvidenceHonest`; `ExplanationsFinal`; refinement of `Explanations` |
| `pipeline` | 1 process, 3 anomalies, the newest never parses, Telegram refuses the second, batches 2 and 1, 1 fault of the explain job, 2 of the notify job | `TickSpendBounded`, `AlertKeepsItsWhy`, `DetectedIsDelivered` |
| `market` | 2 assets (one source dead), 7 days, baseline of 2, tail of 3, 1 fault | types; `NoHoles`, `RecordedTripped`, `EveryAnomalyRecorded`, `AnsweringSourceIngested`, `TicksEnd` |
| `serving` | 4 updates (one each: allowed without an id, poisoned, allowed, malformed), the explain job and the cold start, HTTP requests, 1 stop, 1 fault | types; `NeverLost`, `ExtraRepliesAccounted`, `NothingRunsOn`, `HealthyHandled`, `TeardownCompletes`, `ColdStartRuns`, `JobsRecur` |
| `proposal` | every document over 2 actions, 4 amounts (one negative), 4 version tags, 6 timestamps | `DigestIsMeaning`, `StaysReadable`, `DeadlineHonoured` |
| `gate` | 2 proposals, 2 recipients, 3 amounts, window ≤ 2, skew 1, every variant and binding | `OnlyAsIssued` (the very token, in its one spelling), `AmountAuthorized`, `ShortLived`, `HonestAccepted`, `ReasonFromAuthenticClaims` |
| `store` | 2 transactions of up to 3 statements; 1 operator, 1 granted role, 1 proposal, 2 tokens of one hash, 1 approval, 2 attempts | `OneLiveToken`, `OneAttemptPerToken`, `TrailKept` |

Why these bounds are enough: overlap needs two processes; every race in the code
is between two of them over one row, and a second row shows what a batch does
around it. A third anomaly is needed to have something older and something newer
than a stuck one. Two attempts separate "retried" from "given up". Three faults
let a lost answer, a failed commit and a crash combine. One article more than a
prompt shows makes the limit bite, and a second asset makes the shared feed
bite. The market's constants are scaled together: the lookback, the tail and the
window keep their order (`BARS_LOOKBACK + 2 <= DETECT_TAIL`, as 5 + 2 ≤ 8), and
one anomaly lies in the backfilled history, one in the live days. Seven days are
what a hole takes: a tick that fetched on the day the store was created would
have to commit three days later. Two transactions are what a unique index
arbitrates between, and three statements are what superseding a token takes:
retire the old one, mint the new one, record the approval. Permissions and their
grants have the shape of roles and theirs, and stay empty. Precision 2 stands
for 28. An update from outside the allowlist takes the step that a poisoned one
takes, so the serving instance spends none on it.

Runs that find a violation. Each checks one sentence of the repository's own:

| Run | Sentence | What the code does |
|---|---|---|
| `explain_drain` | "the backlog still drains across ticks" (`store/repositories.py`, `unexplained`) | each tick takes the *newest* unexplained batch, and a malformed reply leaves its anomaly there: a batch of them starves all older ones |
| `market_cold` | "the scheduler will retry on its normal cadence" (`ingest/backfill.py`) | backfill is one-shot and ticks ask for five days: the skipped history is never fetched in that process |
| `market_malformed` | "A dead source skips that asset with a recorded reason" (`ingest_bars`) | `Decimal("n/a")` raises `InvalidOperation`, which is no `ValueError`: the whole tick is rolled back, every time |
| `gate_money` | "free of context limits", "can't be lifted onto a bigger transfer" (`proposal.py`, `gate/token.py`) | `Decimal.normalize` rounds to 28 digits: amounts that differ beyond them are authorized for one another |

Also met while modelling, with weaker properties that do hold or with no
property at all:

* docs speak of an alert that notifies "exactly once"; delivery is at least once
  (`DuplicatesAccounted` says when);
* "One anomaly costs exactly one call" (`domain/explanation.py`): two processes
  may both pay, and each failure or malformed reply costs a call more
  (`SpendBounded`). An anomaly whose replies never parse is paid for in every tick
  that its place in the backlog lets it into, without end; what holds of it is
  "the explain batch caps LLM spend per tick" (`TickSpendBounded`);
* `offset` acknowledges updates "so Telegram never redelivers them"; a restart
  before the next poll has them redelivered (`ExtraRepliesAccounted`), and one
  without an integer id is never acknowledged by itself: for as long as it is the
  newest it is answered with every poll, which `ExtraRepliesAccounted` leaves out.
  Cancellation is "the *only* thing that stops" the poller; an update that is no
  object ends its task, and so `HealthyHandled` promises only what precedes it;
* alerts come "in chronological order" only as far as explain, newest first,
  lets them;
* "the scheduler stops first" (`serving/app.py`): the code cancels and awaits the
  poller first, and ticks may start meanwhile. "So a job never outlives its
  resources" (`tests/test_scheduler.py`): the grace is bounded, and a tick that
  needs longer finds them closed; `NothingRunsOn` promises that it was cancelled;
* the order of jobs within a tick "doesn't matter" (`ingest/jobs.py`): an
  explanation is final, so one made before `ingest_news` stores the article does
  without it; and an article that two feeds carry is stored for one asset only;
* in the execute schema an expired token that was never used keeps the live slot
  of its hash; an attempt can be recorded on a token that another transaction is
  superseding; nothing prevents `consumed_at` from being cleared again. The mint
  and spend paths, when written, have to see to these.

## Fairness

* Jobs: weak fairness of a process's own work. `build_scheduler` fires every
  job for ever, `run_audited` swallows exceptions, asyncio runs a ready
  coroutine, `restart: unless-stopped` brings a process back. `AlertPipeline`
  assumes it job by job, since each has its own interval.
  `NotifyJob` and `ExplainJob` alone are checked for safety and refinement;
  what they do eventually is checked where they meet, in `AlertPipeline`.
* Telegram and the LLM: an undisturbed request is answered (timeouts bound it);
  failures are never forced and are bounded (`MaxFaults`; in `AlertPipeline`
  `MaxExplainFaults` and `MaxNotifyFaults`, one bound per job), so liveness reads
  "once failures stop".
* `MarketData`: strong fairness of a job's steps, because Postgres queues lock
  waiters: a job that waits again and again is served. `NewDay` is the
  environment and not fair; it assumes that detect has run in the day, that no
  tick has been busy since the day before (every call it makes has a timeout, and
  intervals are minutes), and that an outage does not outlast the lookback, the
  code's own stated premise ("gaps heal").
* `Serving`: weak fairness of the loop, of unwinding, of the steps of teardown
  and of starting again; the event loop runs what is ready, and forward passes
  end. Per job, weak fairness of "fire, start or drop": a run that is due is
  dealt with in one way or the other, never guaranteed to start, so that
  `JobsRecur` and `ColdStartRuns` rest on the misfire rule and not on fairness.
  `Delay` and `Suspend` are not fair, and `Delay` is unbounded; a host that
  sleeps is a fault. Strong fairness of a tick's end: a tick goes back and forth
  to the inference thread, at most `MAX_NEWS` times per anomaly, and every call
  it makes has a timeout. A poller's task that died stays dead until the process
  stops, which nothing forces.
* `ProposalContract`, `ApprovalToken` and `ExecuteStore` need none: safety only.

Deadlock is checked in every run but `proposal`, whose time ends.

## Proofs

Every theorem is for all values of the constants that satisfy the named
assumptions of its module (`…Assumption`, and in `MarketData`
`BackfillCoversLookback`): any number of processes, anomalies, articles,
updates, transactions, rows and failures. TLC evaluates the assumptions on every
run. The pattern is the same everywhere: the property is not inductive, a
conjunction of named parts is, and the property follows from it.

**`NotifyJob_proofs`.** `TypeCorrect`, `NoStaleSendHolds`, `OneSender`,
`NeverSilentlyMissingHolds`, `DuplicatesAccountedHolds`, `OkTickDeliveredHolds`,
`AuditTruthfulHolds`, `OnlyExplainedDelivered`, `Refinement`
(`Spec => Delivery!Spec`). "Whoever sends holds the row" is kept only because
locks and senders correspond one to one, and "a duplicate answers for a lost
outcome" only because requests can be counted, so `IInv` adds to `TypeOK`

* `RowLocks`: a row is locked by exactly the process that sends it, and only a
  sender has a request on its way;
* `QueueSound`: notified rows are explained, a locked row is explained and not
  notified;
* `RequestsCounted`: for each alert, messages received, late requests and the one
  awaited are at most the lost outcomes plus one if it is settled;
* `BatchSettled`: what a tick read and has left behind is notified.

The audit needs `AuditCounted` on top: both bounds are about cardinalities, of
the processes in a tick and of the items a tick has not recorded yet, and these
are finite in every reachable state although `Process` need not be. In the
refinement `Serve` and `ServeLate` are `Deliver`, the loss of an outcome is
`LoseTrack`, `Commit` is `Acknowledge`, and the rest stutters.

**`ExplainJob_proofs`.** `TypeCorrect` (no batch outgrows its limit, no prompt
`MAX_NEWS`, from lemmas about the places of rows in a query's order),
`EvidenceIsHonest`, `ExplanationsAreFinal`, `SpendIsBounded`,
`TickSpendIsBounded`, `Implementation` (`Spec => Promise!Spec`). The evidence of
a row is honest because of a chain that starts when the prompt is built:
`NewsCarried` (an article is stored for an asset whose feed carries it),
`ShownRelated` (the prompt shows related articles, and they stay related
whatever is stored later), `RepliesHonest` (a reply cites what it was shown;
here Python's indexing and the prompt's numbering have to agree), `DraftHonest`,
`RowsHonest`; `OpenInserts` and `OnRecord` say which process may be about to
store what. `SpendIsBounded` is about finitely many processes and counts every
call, whatever comes of it, about anomalies whose replies can parse. A bound on
what has been spent is not inductive, one on what may be spent is:
`SpendAllowed` adds to the calls made the pairs of a process and an anomaly for
which the process could still pay without a further failure (`StillToPay`); a
call removes a pair, a failure gives one back, a new anomaly adds one per
process. That no pair comes back with a commit takes `CommitSure`. Of the
anomalies whose replies never parse only `TickSpendIsBounded` speaks: a tick's
calls and what is left of its batch are together at most `EXPLAIN_BATCH`
(`TickAllowed`).

**`AlertPipeline_proofs`.** The lemma `NotifyRunsUnderExplain`: the pipeline's
steps, seen from the notify job, are steps of its specification, so that its
theorems hold in the pipeline; the explain job's hold too. From these,
`WhyIsKept`, `TickSpendHolds` and, end to end, `NotifiedIsDeliveredAndExplained`.

**`Serving_proofs`.** `UpdatesAreNeverLost` for the poller alone, and in the
served process `ServedUpdatesAreNeverLost`, `RepliesAreAccounted`,
`HostTypeCorrect`, `TeardownLeavesNothingRunning`. The offset runs ahead of the
handling, so `PInv` says what the loop may rely on: `BatchAhead` (the batch is
not behind the offset), `BatchComplete` (nothing Telegram keeps is missing from
it but what is dealt with or in hand, so that the offset passes an update only by
way of the batch) and `Passed`
(what a living task's offset has passed is handled or in hand). `HInv` adds the
order of teardown: `LaneInfers`, `StoppedIsQuiet`, `ClosedIsLast`. Answers are
counted like spending: `ExtraAllowed` adds the updates that may still be answered
again (`MayAnswerAgain`), and a stop pays for one more life of all of them.

**`MarketData_proofs`.** `TypeCorrect`, `HistoryHasNoHoles`,
`RecordedAreConfirmed`. `MInv` says what a tick may rely on while it waits:
`Locked` (nobody fetches for an asset whose row it has not locked), `Times` (no
tick is older than a day), `Reached` (the stored history ends within the next
lookback), `Pending` (uncommitted bars are exactly those its span asks for and
the store lacks), `FoundTripped`. The proof found a gap in the model: without the
guard that no tick outlasts a day, `NoHoles` fails, by a tick that fetches, waits
for days and commits between bars it has never seen; the instance was a day too
short to show it. The guard is now in `NewDay` and the instance a day longer.
That a tail gives the verdict of the whole history is proved of the detector for
days without holes, whatever the prices.

**`ApprovalToken_proofs`.** `TypeCorrect`, `OnlyTheIssuedToken`,
`TokensAreShortLived`, `ReasonsAreAuthentic`, and, about amounts,
`AmountIsAuthorized` and `HonestIsAccepted`. `IInv` (`Issued`, `Presented`,
`AcceptedInWindow`) ties what is presented to what was minted: a caller can
re-spell or alter a token, and the checks, whose first failure `Verify` reports,
leave only the minted one. The last two assume `Faithful(Amount)`: normalizing
two amounts does not matter to whether they are the same quantity. That is no
technicality. `gate_money` shows what happens to amounts beyond the precision,
and `ApprovalTokenMC` has TLC evaluate the hypothesis for both sets of amounts.

**`ProposalContract_proofs`.** `TypeCorrect` and `DeadlineIsHonoured` for all
documents, `CanonicalFormStaysReadable` assuming that an amount normalized once
is normal (`Idempotent`), `DigestsAreMeanings` assuming also that amounts within
the precision have one normal form each (`Canonical`). `IInv` says that what is
accepted passes and has the digest of its parse (`AcceptedPass`), that a proposal
is the parse of some document (`ProposalsAreRead`) and that an answer is about
the deadline in the digest (`AnswersAreOfDigests`); the type of what circulates
(`IsDocument`) is wider than what is first written, since a dump has timestamps
in UTC. `ProposalContractMC` has TLC evaluate the hypotheses.

**`ExecuteStore_proofs`.** `TypeCorrect`, `OneLiveTokenPerProposal`,
`OneAttempt`, `AuditTrailIsKept`. No transaction sees everything, so the proof is
about versions: `OneWriter`, `NoCollision` and `NoDangling` (committed rows, what
each transaction would leave, and what two of them have written agree in every
unique index and reference, whoever commits first), `HoldsParents` (a reference
is made under a key-share lock) and `AuditKept`.

Only model-checked:

* liveness (`DetectedIsDelivered`, `EveryAnomalyRecorded`,
  `AnsweringSourceIngested`, `TicksEnd`, `HealthyHandled`, `TeardownCompletes`,
  `ColdStartRuns`, `JobsRecur`): it rests on fairness, hence on `ENABLED`, which
  TLAPS does not reason about;
* the laws of `Money` themselves. `Faithful`, `Canonical` and `Idempotent` rest
  on powers of ten, whose laws are inductions over data; they are hypotheses of
  the four theorems that need them, evaluated by TLC for the instances.

No module uses RECURSIVE operators.

## Not modelled

* `ingest_news` as a job of `MarketData`: it takes the same locks in the same
  order as `ingest_bars`, so it adds interleavings and no new one in kind, and
  the instance no longer finishes. Its rows are modelled, in `ExplainJob`.
* Lengths of intervals, rate limits and backoff: real time. What they cause (a
  tick late or dropped, a 429, a tick cut off) is in the models.
* Values of bars: a zero close, which would abort detection for every asset,
  and a daily bar fetched before the close and kept by `DO NOTHING`. Both are
  listed as hazards.
* Prompt wording, HTML, JSON schemas, the network's verdict on a headline and
  the health probes: pure text, data, or reads. `detect_latest` has no caller;
  nothing writes `sentiments` or `source_health`.
* Composition, the demo's script (its jobs are a second process), the migration
  environment, containers, database roles.
* The execute domain's mint, consume and broadcast paths: no code yet.

## Plan

1. Done: alert delivery with its proofs; explaining with its abstract
   specification; both composed; market data; the served process (poller,
   scheduler, inference thread, teardown); proposal contract; token; execute
   schema.
2. Done: the proofs above.
3. To model when the code exists: the spend path of the execute domain over
   `ExecuteStore` and `ApprovalToken`.

## Running

    tlc -config NotifyJobMC.cfg NotifyJobMC
    tlapm NotifyJob_proofs.tla

and likewise for the other configurations; `PROJECT.json` names the module of
each.
