------------------------------ MODULE MarketData ------------------------------
(***************************************************************************)
(* How bars and anomalies get into the store: the jobs ingest_bars,        *)
(* detect_anomalies and run_backfill of ingest/jobs.py, with               *)
(* ingest/backfill.py and the upserts of store/repositories.py.            *)
(*                                                                         *)
(* Each job is one transaction that spans its network calls.  Upserting an *)
(* asset locks its row until that transaction ends, so ingest and backfill *)
(* wait for one another; detect takes no asset lock, but an insert waits   *)
(* for an uncommitted insert of the same key.  Nothing a transaction wrote *)
(* is visible to another before its commit.  (ingest_news takes the same   *)
(* locks in the same order as ingest_bars and stores no bars.)             *)
(*                                                                         *)
(* Time is the number of the newest daily bar; a source has one bar a day  *)
(* and asset, the same whenever it is asked.                               *)
(***************************************************************************)
EXTENDS AnomalyDetection, Sequences, SequencesExt

CONSTANTS
    Asset,          \* the assets of DEFAULT_ASSETS,
    AssetOrder,     \* in the order every job takes them
    NoJob,          \* "nobody holds the row"
    Price,          \* Price[a][d]: the log price of a at the close of day d
    Unavailable,    \* assets whose source never answers (SourceUnavailable)
    Garbled,        \* assets whose bars carry a price that is no number
    FirstDay,       \* when the store is created
    LastDay,        \* bound: when the model's time stops
    BARS_LOOKBACK,  \* jobs.BARS_LOOKBACK, in days
    DETECT_TAIL,    \* jobs.DETECT_TAIL, in bars
    BackfillDays,   \* AssetConfig.backfill_days
    MaxFaults       \* bound: outages, exceptions and crashes

Day == 1..LastDay
Job == {"ingest_bars", "detect_anomalies", "backfill"}

ASSUME AssetsAssumption ==
    /\ NoJob \notin Job
    /\ AssetOrder \in Seq(Asset) /\ ToSet(AssetOrder) = Asset /\ IsInjective(AssetOrder)
    /\ Asset # {}
    /\ Price \in [Asset -> [Day -> Int]]
    /\ Unavailable \subseteq Asset /\ Garbled \subseteq Asset
ASSUME DaysAssumption ==
    /\ {FirstDay, LastDay, BARS_LOOKBACK, DETECT_TAIL, BackfillDays, MaxFaults} \subseteq Nat
    /\ FirstDay \in Day
\* One detect tick a day sees every bar that ingest can have added meanwhile.
ASSUME TailCoversLookback == BARS_LOOKBACK + 2 <= DETECT_TAIL
\* The cold start reaches at least as far back as a tick.
ASSUME BackfillCoversLookback == BARS_LOOKBACK <= BackfillDays

VARIABLES
    \* Postgres, committed
    bars,           \* bars[a]: the days whose bar of a is stored
    anomalies,      \* anomalies[a]: the days whose bar of a tripped
    \* the open transactions
    owner,          \* owner[a]: whose transaction locks the row of a
    new,            \* new[j][a]: bars j has inserted and not committed
    found,          \* found[j][a]: anomalies j has inserted and not committed
    \* one tick of each job
    pc, todo,       \* todo[j]: the assets it has still to handle
    asof,           \* asof[j]: the "now" it took
    \* the process and the world
    up,             \* the process is running
    due,            \* the one-shot backfill of this start has not fired
    today,          \* the newest bar the sources have
    \* what happened (history), and the bound
    scored,         \* a detect tick has started and ended today
    skipped,        \* assets the latest backfill skipped
    faults

store == <<bars, anomalies>>
trans == <<owner, new, found>>
tick == <<pc, todo, asof>>
world == <<up, due, today>>
vars == <<store, trans, tick, world, scored, skipped, faults>>

TypeOK ==
    /\ bars \in [Asset -> SUBSET Day]
    /\ anomalies \in [Asset -> SUBSET Day]
    /\ owner \in [Asset -> Job \cup {NoJob}]
    /\ new \in [Job -> [Asset -> SUBSET Day]]
    /\ found \in [Job -> [Asset -> SUBSET Day]]
    /\ pc \in [Job -> {"idle", "assets", "fetch", "detect", "commit"}]
    /\ \A j \in Job : pc[j] \in {"idle", "commit"} <=> todo[j] = <<>>
    /\ \A j \in Job : IsSuffix(todo[j], AssetOrder)
    /\ asof \in [Job -> Day]
    /\ {up, due, scored} \subseteq BOOLEAN
    /\ today \in Day
    /\ skipped \subseteq Asset
    /\ faults \in 0..MaxFaults
    /\ \A a \in Asset : \A i \in Job : \A j \in Job \ {i} : new[i][a] \cap new[j][a] = {}

\* What detect_series says of each set of bars, as a function: a pure result.
Detections == [a \in Asset |-> [S \in SUBSET Day |-> DetectSeries(Price[a], S)]]

\* The assets whose source can answer.
Answers == Asset \ (Unavailable \cup Garbled)

Nothing == [a \in Asset |-> {}]

Init ==
    /\ bars = Nothing /\ anomalies = Nothing
    /\ owner = [a \in Asset |-> NoJob]
    /\ new = [j \in Job |-> Nothing] /\ found = [j \in Job |-> Nothing]
    /\ pc = [j \in Job |-> "idle"]
    /\ todo = [j \in Job |-> <<>>]
    /\ asof = [j \in Job |-> FirstDay]
    /\ up = TRUE /\ due = TRUE /\ today = FirstDay
    /\ scored = FALSE /\ skipped = {} /\ faults = 0

Fault == faults < MaxFaults /\ faults' = faults + 1

-----------------------------------------------------------------------------
\* A tick of job j.

\* A plausible slip: backfill walks the assets from the last to the first.
Start_BackfillReversed(j, label) ==
    /\ up /\ pc[j] = "idle"
    /\ pc' = [pc EXCEPT ![j] = label]
    /\ todo' = [todo EXCEPT ![j] = IF j = "backfill" THEN Reverse(AssetOrder) ELSE AssetOrder]
    /\ asof' = [asof EXCEPT ![j] = today]
    /\ UNCHANGED <<store, trans, up, today, scored, faults>>

\* run_audited calls the job; a job never overlaps itself, and backfill fires
\* once per start of the process.
Start(j, label) ==
    /\ up /\ pc[j] = "idle"
    /\ pc' = [pc EXCEPT ![j] = label]
    /\ todo' = [todo EXCEPT ![j] = AssetOrder]
    /\ asof' = [asof EXCEPT ![j] = today]
    /\ UNCHANGED <<store, trans, up, today, scored, faults>>

StartIngest ==
    Start("ingest_bars", "assets") /\ UNCHANGED <<due, skipped>>

StartDetect ==
    Start("detect_anomalies", "detect") /\ UNCHANGED <<due, skipped>>

StartBackfill ==
    /\ due /\ due' = FALSE
    /\ Start("backfill", "assets") /\ skipped' = {}

\* The end of one turn of the job's loop over the assets.
NextAsset(j, label) ==
    /\ todo' = [todo EXCEPT ![j] = Tail(@)]
    /\ pc' = [pc EXCEPT ![j] = IF Len(todo[j]) = 1 THEN "commit" ELSE label]

\* A plausible slip: look the asset up, and lock nothing.
Upsert_LockFree(j) ==
    /\ pc[j] = "assets"
    /\ UNCHANGED <<store, trans, world, scored, skipped, faults>>

\* AssetRepository.upsert: waits for the row, then holds it.
Upsert(j) ==
    LET a == Head(todo[j]) IN
    /\ pc[j] = "assets"
    /\ owner[a] \in {NoJob, j}
    /\ owner' = [owner EXCEPT ![a] = j]
    /\ UNCHANGED <<store, new, found, world, scored, skipped, faults>>

\* _ensure_assets locks every row before the first fetch, and only then does
\* the job take its "now".
EnsureAssets(j) ==
    /\ j # "backfill"
    /\ Upsert(j)
    /\ IF Len(todo[j]) = 1
       THEN /\ todo' = [todo EXCEPT ![j] = AssetOrder]
            /\ pc' = [pc EXCEPT ![j] = "fetch"]
            /\ asof' = [asof EXCEPT ![j] = today]
       ELSE todo' = [todo EXCEPT ![j] = Tail(@)] /\ UNCHANGED <<pc, asof>>

\* backfill_assets locks one asset at a time.
BackfillAsset ==
    /\ Upsert("backfill")
    /\ pc' = [pc EXCEPT !["backfill"] = "fetch"]
    /\ UNCHANGED <<todo, asof>>

\* How far back a job asks the source.
Lookback(j) == IF j = "backfill" THEN BackfillDays ELSE BARS_LOOKBACK

\* A plausible slip: the window starts one day late.
Span_OneDayShort(j) == {d \in Day : asof[j] - Lookback(j) < d /\ d <= asof[j]}

\* The days a job asks the source for.
Span(j) == {d \in Day : asof[j] - Lookback(j) <= d /\ d <= asof[j]}

AfterFetch(j) == IF j = "backfill" THEN UNCHANGED todo /\ pc' = [pc EXCEPT ![j] = "detect"]
                                   ELSE NextAsset(j, "fetch")

\* The source answers and PriceBarRepository.upsert_many inserts what the
\* store lacks.  The asset's lock keeps any other job from inserting its bars.
Fetch(j) ==
    LET a == Head(todo[j]) IN
    /\ pc[j] = "fetch"
    /\ a \notin Unavailable \cup Garbled
    /\ new' = [new EXCEPT ![j][a] = Span(j) \ bars[a]]
    /\ AfterFetch(j)
    /\ UNCHANGED <<store, owner, found, asof, world, scored, skipped, faults>>

\* A plausible slip: break instead of continue.
Skip_Break(j) ==
    LET a == Head(todo[j]) IN
    /\ pc[j] = "fetch"
    /\ IF a \in Unavailable THEN UNCHANGED faults ELSE Fault
    /\ skipped' = IF j = "backfill" THEN skipped \cup {a} ELSE skipped
    /\ pc' = [pc EXCEPT ![j] = "commit"] /\ todo' = [todo EXCEPT ![j] = <<>>]
    /\ UNCHANGED <<store, trans, asof, world, scored>>

\* SourceUnavailable: the asset is skipped, with the reason on record.
Skip(j) ==
    LET a == Head(todo[j]) IN
    /\ pc[j] = "fetch"
    /\ IF a \in Unavailable THEN UNCHANGED faults ELSE Fault
    /\ skipped' = IF j = "backfill" THEN skipped \cup {a} ELSE skipped
    /\ NextAsset(j, IF j = "backfill" THEN "assets" ELSE "fetch")
    /\ UNCHANGED <<store, trans, asof, world, scored>>

\* A plausible slip: no room for the baseline of the oldest bar to be scored.
Limit_NoBaseline(j) == IF j = "backfill" THEN Cardinality(Span(j)) ELSE DETECT_TAIL

\* How many bars a job reads: everything backfill fetched, or the tail, with a
\* full baseline before it.
Limit(j) ==
    (IF j = "backfill" THEN Cardinality(Span(j)) ELSE DETECT_TAIL) + Window + 1

Tripped(j, a) == Detections[a][Newest(bars[a] \cup new[j][a], Limit(j))]

\* A plausible slip: the anomalies go in by a transaction of their own.
Detect_OwnTransaction(j) ==
    LET a == Head(todo[j]) IN
    /\ pc[j] = "detect"
    /\ anomalies' = [anomalies EXCEPT ![a] = @ \cup Tripped(j, a)]
    /\ NextAsset(j, IF j = "backfill" THEN "assets" ELSE "detect")
    /\ UNCHANGED <<bars, trans, asof, world, scored, skipped, faults>>

\* Score the bars read, and AnomalyRepository.upsert_many inserts what is new.
Detect(j) ==
    LET a == Head(todo[j])
        fresh == Tripped(j, a) \ anomalies[a]
    IN  /\ pc[j] = "detect"
        /\ \A i \in Job \ {j} : found[i][a] \cap fresh = {}
        /\ found' = [found EXCEPT ![j][a] = fresh]
        /\ NextAsset(j, IF j = "backfill" THEN "assets" ELSE "detect")
        /\ UNCHANGED <<store, owner, new, asof, world, scored, skipped, faults>>

\* The transactions end: their locks go, their writes too unless they commit,
\* and the locals of the ticks with them.
EndTransactions(J) ==
    /\ owner' = [a \in Asset |-> IF owner[a] \in J THEN NoJob ELSE owner[a]]
    /\ new' = [j \in Job |-> IF j \in J THEN Nothing ELSE new[j]]
    /\ found' = [j \in Job |-> IF j \in J THEN Nothing ELSE found[j]]
    /\ pc' = [j \in Job |-> IF j \in J THEN "idle" ELSE pc[j]]
    /\ todo' = [j \in Job |-> IF j \in J THEN <<>> ELSE todo[j]]
    /\ asof' = [j \in Job |-> IF j \in J THEN FirstDay ELSE asof[j]]

Commit(j) ==
    /\ pc[j] = "commit"
    /\ bars' = [a \in Asset |-> bars[a] \cup new[j][a]]
    /\ anomalies' = [a \in Asset |-> anomalies[a] \cup found[j][a]]
    /\ scored' = (scored \/ (j = "detect_anomalies" /\ asof[j] = today))
    /\ EndTransactions({j})
    /\ UNCHANGED <<world, skipped, faults>>

\* An exception run_audited catches: the tick's work is rolled back.
Rollback(j) ==
    /\ pc[j] # "idle"
    /\ EndTransactions({j})
    /\ UNCHANGED <<store, world, scored, skipped>>

\* Decimal("n/a") raises InvalidOperation, which is an ArithmeticError: the
\* source's "malformed bar" clause catches ValueError and lets it through, so
\* such a payload needs no other fault to raise.
AtMalformedBar(j) == pc[j] = "fetch" /\ Head(todo[j]) \in Garbled

Raise(j) ==
    /\ IF AtMalformedBar(j) THEN UNCHANGED faults ELSE Fault
    /\ Rollback(j)

-----------------------------------------------------------------------------
\* The process and the world.

Crash ==
    /\ up /\ Fault
    /\ up' = FALSE
    /\ EndTransactions(Job)
    /\ UNCHANGED <<store, due, today, scored, skipped>>

Restart ==
    /\ ~up
    /\ up' = TRUE /\ due' = TRUE
    /\ UNCHANGED <<store, trans, tick, today, scored, skipped, faults>>

\* A new bar.  Environment: detect has run today, no tick has been busy since
\* yesterday (each of its calls has a timeout), and the newest bar of every asset
\* is within the lookback of the next bars tick (no longer outage).
NewDay ==
    /\ today < LastDay /\ scored
    /\ \A j \in Job : pc[j] # "idle" => asof[j] = today
    /\ \A a \in Answers : bars[a] # {} => \E d \in bars[a] : today - d <= BARS_LOOKBACK
    /\ today' = today + 1 /\ scored' = FALSE
    /\ UNCHANGED <<store, trans, tick, up, due, skipped, faults>>

Work(j) ==
    EnsureAssets(j) \/ (j = "backfill" /\ BackfillAsset)
    \/ Fetch(j) \/ Skip(j) \/ (AtMalformedBar(j) /\ Raise(j)) \/ Detect(j) \/ Commit(j)

Next ==
    \/ StartIngest
    \/ StartDetect
    \/ StartBackfill
    \/ \E j \in Job : EnsureAssets(j)
    \/ BackfillAsset
    \/ \E j \in Job : Fetch(j) \/ Skip(j)
    \/ \E j \in Job : Detect(j)
    \/ \E j \in Job : Commit(j) \/ Raise(j)
    \/ Crash \/ Restart \/ NewDay

Spec == Init /\ [][Next]_vars

\* The scheduler ticks every job for ever and the restart policy brings the
\* process back; Postgres grants a lock in the order it was asked for, so a
\* job that waits again and again is served (strong fairness).
Fairness ==
    /\ WF_vars(StartIngest) /\ WF_vars(StartDetect) /\ WF_vars(StartBackfill)
    /\ \A j \in Job : SF_vars(Work(j))
    /\ WF_vars(Restart)

FairSpec == Spec /\ Fairness

-----------------------------------------------------------------------------
\* Properties.

\* A missed tick heals on the next one: as long as no outage outlasts the
\* lookback, the history of an asset has no hole, whatever order backfill,
\* ingest ticks, outages and restarts come in.
NoHoles ==
    \A a \in Asset : \A d \in bars[a], e \in bars[a] : \A x \in d..e : x \in bars[a]

\* A recorded anomaly is one that the whole stored history confirms: scoring
\* a short tail never reports what a full pass would not.
RecordedTripped == \A a \in Asset : anomalies[a] \subseteq Detections[a][bars[a]]

\* No anomaly in the store goes unrecorded for ever, although each tick scores
\* only the newest DETECT_TAIL bars and bars arrive late, in bulk, or while a
\* tick is reading: the records catch up with the bars again and again.
CaughtUp == \A a \in Asset : Detections[a][bars[a]] \subseteq anomalies[a]
EveryAnomalyRecorded == []<>CaughtUp

\* A source that answers is ingested, every day, whatever the other sources do.
AnsweringSourceIngested == []<>(\A a \in Answers : today \in bars[a])

\* No two jobs wait for each other's rows: every tick ends.
TicksEnd == \A j \in Job : (pc[j] # "idle") ~> (pc[j] = "idle")

\* An asset the cold start skipped gets its history on a later tick ("the
\* scheduler will retry on its normal cadence").
SkippedIsRetried ==
    \A a \in Answers : (a \in skipped) ~> (\A d \in Day : d <= FirstDay => d \in bars[a])
=============================================================================
