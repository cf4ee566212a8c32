---------------------------- MODULE AlertPipeline ----------------------------
(***************************************************************************)
(* The explain job and the notify job over one database.                   *)
(*                                                                         *)
(* The jobs share nothing but rows: an explanations row, once committed,   *)
(* puts its anomaly in the delivery queue.  serving/app.py runs both in    *)
(* every process, every 300 and every 60 seconds, and neither waits for    *)
(* the other.  A process that dies takes both of its ticks with it; here   *)
(* each job may die alone, which allows every such behaviour and more.     *)
(***************************************************************************)
EXTENDS Integers, FiniteSets

CONSTANTS
    Process, NoProcess, NAnomalies, Unparseable, Refused,
    EXPLAIN_BATCH, NOTIFY_BATCH, Attempts, MaxExplainFaults, MaxNotifyFaults,
    NArticles, AssetOf, BarDay, About, Published, NEWS_WINDOW, BAR_SPAN, MAX_NEWS, NoAsset

VARIABLES
    \* the rows and ticks of the explain job
    detected, news, explanation, evidence, inserting, ePc, eQueue, eCur,
    candidates, reply, draft, replies, calls, spent, eFaults,
    \* the rows and ticks of the notify job
    notified, claim, nAudit, nPc, batch, nQueue, nCur, sent, nStatus, attempt, request,
    late, delivered, doubt, nFaults

explainVars ==
    <<detected, news, explanation, evidence, inserting, ePc, eQueue, eCur,
      candidates, reply, draft, replies, calls, spent, eFaults>>
notifyVars ==
    <<notified, claim, nAudit, nPc, batch, nQueue, nCur, sent, nStatus, attempt, request,
      late, delivered, doubt, nFaults>>
vars == <<explainVars, notifyVars>>

E == INSTANCE ExplainJob WITH
        pc <- ePc, queue <- eQueue, cur <- eCur, faults <- eFaults,
        MaxFaults <- MaxExplainFaults

\* What the two jobs assume of their constants, over the same names.
ASSUME PipelineCountsAssumption ==
    /\ {NAnomalies, MaxExplainFaults, MaxNotifyFaults} \subseteq Nat
    /\ {EXPLAIN_BATCH, NOTIFY_BATCH, Attempts} \subseteq Nat \ {0}
ASSUME PipelineNamesAssumption ==
    /\ NoProcess \notin Process /\ NoAsset \notin E!Asset
    /\ Unparseable \subseteq E!Anomaly /\ Refused \subseteq E!Anomaly
ASSUME PipelineNewsAssumption ==
    /\ {NArticles, MAX_NEWS, NEWS_WINDOW, BAR_SPAN} \subseteq Nat
    /\ DOMAIN AssetOf = E!Anomaly /\ BarDay \in [E!Anomaly -> Int]
    /\ DOMAIN About = E!Article /\ Published \in [E!Article -> Int]
    /\ \A m, n \in E!Article : m <= n => Published[m] <= Published[n]

\* What the join with explanations in explained_unnotified sees.
explained == E!Explained

N == INSTANCE NotifyJob WITH
        audit <- nAudit, pc <- nPc, queue <- nQueue, cur <- nCur, status <- nStatus,
        faults <- nFaults, MaxFaults <- MaxNotifyFaults

Init == E!Init /\ N!Init

ExplainStep == E!Next /\ UNCHANGED notifyVars

NotifyStep ==
    /\ UNCHANGED explainVars
    /\ \/ \E a \in E!Anomaly : N!ServeLate(a)
       \/ \E p \in Process : N!Work(p) \/ N!Telegram(p) \/ N!Failure(p)

Next == ExplainStep \/ NotifyStep

Spec == Init /\ [][Next]_vars

\* The scheduler keeps firing both jobs in a process that is up, asyncio runs a
\* ready coroutine, a process that died is restarted, and a provider answers what
\* nothing disturbs (the failures are never forced).  The fairness is stated job
\* by job: neither may starve the other.
FairSpec ==
    /\ Spec
    /\ \A p \in Process :
        /\ WF_vars(E!Work(p) /\ UNCHANGED notifyVars)
        /\ WF_vars(UNCHANGED explainVars /\ N!Work(p))
        /\ WF_vars(UNCHANGED explainVars /\ N!Telegram(p))

(***************************************************************************)
(* Properties.                                                             *)
(***************************************************************************)

\* A tick of the explain job makes no more calls than a batch holds, though one
\* anomaly's replies never parse and the backlog is longer than a batch.
TickSpendBounded == E!TickSpendBounded

\* An alert that reached the chat has an explanation on record, and it stays the
\* one the alert quoted.
AlertKeepsItsWhy ==
    [][\A a \in E!Anomaly : delivered[a] >= 1 =>
          explanation[a] # 0 /\ explanation'[a] = explanation[a]]_vars

\* From a detected anomaly to a delivered alert, once failures stop: the human is
\* eventually told of every move that was detected, though replies for some
\* anomalies never parse (as long as they cannot fill a batch), and though
\* Telegram refuses some alerts (a refused alert blocks every newer one, and none
\* older).
DetectedIsDelivered ==
    Cardinality(Unparseable) < EXPLAIN_BATCH =>
        \A a \in E!Anomaly \ Unparseable : (\A b \in Refused : a < b) =>
            (a \in detected ~> (a \in notified /\ delivered[a] >= 1))
=============================================================================
