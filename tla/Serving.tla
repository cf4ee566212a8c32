------------------------------- MODULE Serving -------------------------------
(***************************************************************************)
(* The served process: the lifespan of serving/app.py with the three       *)
(* things it owns, the poller's task (UpdatePoller), the scheduler of      *)
(* ingest/scheduler.py and the one-thread inference executor, which the    *)
(* explain job shares with POST /v1/sentiment (routes/sentiment.py).       *)
(*                                                                         *)
(* Teardown waits for the poller's task; asks the scheduler to stop, which *)
(* happens in a callback of the event loop that also cancels the ticks in  *)
(* flight; gives these a bounded grace; waits for the inference thread;    *)
(* and closes the engine and the client (Close).                           *)
(***************************************************************************)
EXTENDS UpdatePoller, Sequences, SequencesExt

CONSTANTS
    Recurring,      \* the jobs with an interval
    Inferring       \* those that score headlines (explain_anomalies)

Backfill == "backfill"      \* the one-shot job of the cold start
Http == "http"              \* a POST /v1/sentiment
Jobs == Recurring \cup {Backfill}

ASSUME ServingAssumption == Inferring \subseteq Recurring /\ {Backfill, Http} \cap Recurring = {}

VARIABLES
    sched,          \* the scheduler: "running", "asked" to stop, "stopped"
    due,            \* due[j]: is a run of j due, and how late is it
    tick,           \* tick[j]: the run of j in flight
    lane            \* callers of the inference thread; it works for the first

jobs == <<due, tick>>
host == <<sched, jobs, lane>>
allVars == <<vars, host>>

\* "late" is within MISFIRE_GRACE_S, "stale" beyond.
HostTypeOK ==
    /\ TypeOK
    /\ sched \in {"running", "asked", "stopped"}
    /\ due \in [Jobs -> {"no", "fresh", "late", "stale"}]
    /\ tick \in [Jobs -> {"idle", "work", "infer", "cancelled"}]
    /\ lane \in Seq(Inferring \cup {Http}) /\ IsInjective(lane)

\* The fire time of the one-shot is stamped when the scheduler is built; how long
\* ago that is when it starts nobody knows, and the worst is assumed.
DueAtStart == [j \in Jobs |-> IF j = Backfill THEN "stale" ELSE "no"]

ServingInit ==
    /\ Init
    /\ sched = "running" /\ due = DueAtStart
    /\ tick = [j \in Jobs |-> "idle"]
    /\ lane = <<>>

-----------------------------------------------------------------------------
\* The scheduler.

\* The interval elapses; with coalesce, whatever was due stays due once.
Fire(j) ==
    /\ sched = "running" /\ j \in Recurring /\ due[j] = "no"
    /\ due' = [due EXCEPT ![j] = "fresh"]
    /\ UNCHANGED <<vars, sched, tick, lane>>

\* The event loop is busy when it should wake up for the job.
Delay(j) ==
    /\ due[j] = "fresh"
    /\ due' = [due EXCEPT ![j] = "late"]
    /\ UNCHANGED <<vars, sched, tick, lane>>

\* The host sleeps for longer than MISFIRE_GRACE_S.
Suspend ==
    /\ sched = "running" /\ Fault
    /\ due' = [j \in Jobs |-> IF due[j] = "no" THEN "no" ELSE "stale"]
    /\ UNCHANGED <<telegram, task, app, history, stops, sched, tick, lane>>

\* Plausible slips: APScheduler's default grace of a second, and the default
\* grace of the jobs for the one-shot as well.
InGrace_Default(j) == due[j] = "fresh" \/ (j = Backfill /\ due[j] # "no")
InGrace_Uniform(j) == due[j] \in {"fresh", "late"}

\* misfire_grace_time: unlimited for the one-shot, which is stamped before the
\* process is up.
InGrace(j) == due[j] \in {"fresh", "late"} \/ (j = Backfill /\ due[j] = "stale")

StartTick(j) ==
    /\ sched = "running" /\ InGrace(j) /\ tick[j] = "idle"
    /\ due' = [due EXCEPT ![j] = "no"]
    /\ tick' = [tick EXCEPT ![j] = "work"]
    /\ UNCHANGED <<vars, sched, lane>>

\* A run too late, or one that finds the job still busy (max_instances), is
\* dropped.
DropTick(j) ==
    /\ sched = "running" /\ due[j] # "no" /\ (InGrace(j) => tick[j] # "idle")
    /\ due' = [due EXCEPT ![j] = "no"]
    /\ UNCHANGED <<vars, sched, tick, lane>>

\* run_audited outlives whatever the work raises: a tick ends.
EndTick(j) ==
    /\ tick[j] = "work"
    /\ tick' = [tick EXCEPT ![j] = "idle"]
    /\ UNCHANGED <<vars, sched, due, lane>>

\* The cancelled tick has left its session.
UnwindTick(j) ==
    /\ tick[j] = "cancelled"
    /\ tick' = [tick EXCEPT ![j] = "idle"]
    /\ UNCHANGED <<vars, sched, due, lane>>

-----------------------------------------------------------------------------
\* The inference thread.

Score(j) ==
    /\ j \in Inferring /\ tick[j] = "work"
    /\ tick' = [tick EXCEPT ![j] = "infer"]
    /\ lane' = Append(lane, j)
    /\ UNCHANGED <<vars, sched, due>>

Request ==
    /\ app = "up" /\ ~Contains(lane, Http)
    /\ lane' = Append(lane, Http)
    /\ UNCHANGED <<vars, sched, jobs>>

\* A forward pass ends.  Its caller goes on, unless it was cancelled meanwhile.
EndInference ==
    /\ lane # <<>> /\ lane' = Tail(lane)
    /\ tick' = [j \in Jobs |-> IF j = Head(lane) /\ tick[j] = "infer" THEN "work" ELSE tick[j]]
    /\ UNCHANGED <<vars, sched, due>>

-----------------------------------------------------------------------------
\* The lifespan.

HostUp ==
    /\ Start
    /\ sched' = "running" /\ due' = DueAtStart
    /\ tick' = [j \in Jobs |-> "idle"]
    /\ lane' = <<>>

\* uvicorn shuts the lifespan down once the requests in flight are answered.
BeginTeardown == Shutdown /\ ~Contains(lane, Http) /\ UNCHANGED host

AskToStop ==
    /\ app = "stopping" /\ TaskDone /\ sched = "running"
    /\ sched' = "asked"
    /\ UNCHANGED <<vars, jobs, lane>>

\* The deferred stop: every tick in flight is cancelled.  A pass that has begun
\* goes on in its thread; one that waits for the thread is withdrawn.
StopScheduler ==
    /\ sched = "asked" /\ sched' = "stopped"
    /\ tick' = [j \in Jobs |-> IF tick[j] = "idle" THEN "idle" ELSE "cancelled"]
    /\ lane' = (IF lane = <<>> THEN lane ELSE <<Head(lane)>>)
    /\ UNCHANGED <<vars, due>>

\* A plausible slip: no await between the request and what follows, so that the
\* stop lands when the resources are gone.
StopLanded_NoYield == sched = "asked"

\* After sleep(0) the stop has landed.
StopLanded == sched = "stopped"

\* executor.shutdown(wait=True) returns.
LaneDrained == lane = <<>>

\* The grace is over, whether or not the cancelled ticks have used it.
Release == Close /\ StopLanded /\ LaneDrained /\ UNCHANGED host

HostCrash ==
    /\ Crash
    /\ sched' = "stopped" /\ lane' = <<>>
    /\ due' = [j \in Jobs |-> "no"] /\ tick' = [j \in Jobs |-> "idle"]

ServingNext ==
    \/ TaskStep /\ UNCHANGED host
    \/ \E j \in Jobs : Fire(j) \/ Delay(j) \/ StartTick(j) \/ DropTick(j)
                       \/ EndTick(j) \/ UnwindTick(j) \/ Score(j)
    \/ Suspend \/ Request \/ EndInference
    \/ BeginTeardown \/ AskToStop \/ StopScheduler \/ Release \/ HostCrash \/ HostUp

ServingSpec == ServingInit /\ [][ServingNext]_allVars

\* The event loop runs the task, the lifespan and the due jobs to their next
\* await; an interval elapses; forward passes end, and so do ticks, which make
\* at most MAX_NEWS of them per anomaly and have a timeout on every call; the
\* restart policy, or the next deployment, starts the process again.
ServingFairSpec ==
    /\ ServingSpec
    /\ WF_allVars(Loop /\ UNCHANGED host) /\ WF_allVars(Unwind /\ UNCHANGED host)
    /\ WF_allVars(EndInference)
    /\ WF_allVars(AskToStop) /\ WF_allVars(StopScheduler) /\ WF_allVars(Release)
    /\ WF_allVars(HostUp)
    /\ \A j \in Jobs : WF_allVars(Fire(j) \/ StartTick(j) \/ DropTick(j)) /\ SF_allVars(EndTick(j))

-----------------------------------------------------------------------------
\* Properties.

\* When the engine and the client are closed, no inbound handler is mid-flight,
\* every tick has been told to stop and no forward pass is running, though the
\* scheduler stops in a callback and a cancelled tick leaves its pass to the
\* thread.  (That the tick has unwound is not promised: the grace is bounded.)
NothingRunsOn ==
    app = "closed" =>
        /\ pc \in {"stopped", "dead"}
        /\ lane = <<>>
        /\ \A j \in Jobs : tick[j] \in {"idle", "cancelled"}

\* Every process that stays up makes its cold start, however long it took to
\* come up and whatever delays the event loop.
ColdStartRuns ==
    app = "up" /\ due[Backfill] # "no" ~> app # "up" \/ tick[Backfill] # "idle"

\* While the process is up each recurring job is run and comes back again and
\* again, however busy the event loop and whoever else wants the thread.
JobsRecur ==
    \A j \in Recurring : /\ []<>(app = "up" => tick[j] = "idle")
                         /\ []<>(app = "up" => tick[j] # "idle")
=============================================================================
