------------------------------ MODULE NotifyJob ------------------------------
(***************************************************************************)
(* The delivery job of the recommend domain: ingest/jobs.py                *)
(* (run_audited, notify_anomalies) over store/repositories.py              *)
(* (explained_unnotified, mark_notified), sending through                  *)
(* delivery/telegram.py and connectors/base.py (request_json).             *)
(*                                                                         *)
(* Several processes run the job against one Postgres database: the        *)
(* serving app, a second container during a redeploy, and the demo, which  *)
(* docker-compose.yml invites the operator to run beside the app.  Inside  *)
(* one process the scheduler never overlaps the job with itself            *)
(* (max_instances = 1), so a process is at most one tick.                  *)
(*                                                                         *)
(* An anomaly is a number: the order of (bar_ts, id).  A transaction's     *)
(* uncommitted claim is the row lock its UPDATE holds.                     *)
(***************************************************************************)
EXTENDS Integers, FiniteSets

CONSTANTS
    Process,        \* the operating-system processes that run the job
    NoProcess,      \* "nobody holds the row lock"
    NAnomalies,     \* how many anomalies are ever detected
    Refused,        \* alerts Telegram always answers with a permanent error
    NOTIFY_BATCH,   \* jobs.NOTIFY_BATCH
    Attempts,       \* RetryPolicy.attempts
    MaxFaults       \* bound: failures of the network, the database and processes

Anomaly == 1..NAnomalies

ASSUME CountsAssumption ==
    /\ NAnomalies \in Nat
    /\ NOTIFY_BATCH \in Nat \ {0}
    /\ Attempts \in Nat \ {0}
    /\ MaxFaults \in Nat
ASSUME NamesAssumption ==
    /\ NoProcess \notin Process
    /\ Refused \subseteq Anomaly

VARIABLES
    \* Postgres
    explained,      \* anomalies with a committed explanations row
    notified,       \* anomalies with a committed anomalies.notified_at
    claim,          \* claim[a]: whose open transaction has stamped a
    audit,          \* ingest_runs: rows still "running", sum of the items recorded
    \* one tick of the job in a process
    pc, batch, queue, cur, sent, status,
    \* request_json on its way to Telegram
    attempt,        \* attempt[p]: requests made for the alert p is sending
    request,        \* request[p]: "none", "sent" or "acted" (on by Telegram)
    late,           \* late[a]: abandoned requests that may yet be acted on
    \* what happened (history), and the bound
    delivered,      \* delivered[a]: messages the chat received for a
    doubt,          \* doubt[a]: sends of a whose outcome was lost
    faults          \* failures so far

db == <<explained, notified, claim>>
tick == <<batch, queue, cur, sent, status>>
net == <<attempt, request, late, delivered, doubt>>
vars == <<db, audit, pc, tick, net, faults>>

Nobody == 0         \* cur[p] when p holds no claim

TypeOK ==
    /\ explained \subseteq Anomaly
    /\ notified \subseteq Anomaly
    /\ claim \in [Anomaly -> Process \cup {NoProcess}]
    /\ audit \in [running : Int, items : Nat]    \* AuditTruthful bounds running from below
    /\ pc \in [Process -> {"idle", "read", "next", "send", "commit", "finish", "down"}]
    /\ batch \in [Process -> SUBSET Anomaly]
    /\ queue \in [Process -> SUBSET Anomaly]
    /\ cur \in [Process -> Anomaly \cup {Nobody}]
    /\ sent \in [Process -> Nat]
    /\ status \in [Process -> {"ok", "error"}]
    /\ attempt \in [Process -> 0..Attempts]
    /\ request \in [Process -> {"none", "sent", "acted"}]
    /\ late \in [Anomaly -> Nat]
    /\ delivered \in [Anomaly -> Nat]
    /\ doubt \in [Anomaly -> Nat]
    /\ faults \in 0..MaxFaults

Init ==
    /\ explained = {}
    /\ notified = {}
    /\ claim = [a \in Anomaly |-> NoProcess]
    /\ audit = [running |-> 0, items |-> 0]
    /\ pc = [p \in Process |-> "idle"]
    /\ batch = [p \in Process |-> {}]
    /\ queue = [p \in Process |-> {}]
    /\ cur = [p \in Process |-> Nobody]
    /\ sent = [p \in Process |-> 0]
    /\ status = [p \in Process |-> "ok"]
    /\ attempt = [p \in Process |-> 0]
    /\ request = [p \in Process |-> "none"]
    /\ late = [a \in Anomaly |-> 0]
    /\ delivered = [a \in Anomaly |-> 0]
    /\ doubt = [a \in Anomaly |-> 0]
    /\ faults = 0

(***************************************************************************)
(* Building blocks.                                                        *)
(***************************************************************************)
Goto(p, label) == pc' = [pc EXCEPT ![p] = label]

Fault == faults < MaxFaults /\ faults' = faults + 1

\* The n least elements of S: ORDER BY bar_ts, id LIMIT n.
Oldest(S, n) == {a \in S : Cardinality({b \in S : b < a}) < n}

\* A plausible slip: the queue without its join on explanations.
DeliveryQueue_NoJoin == Oldest(Anomaly \ notified, NOTIFY_BATCH)

\* AnomalyRepository.explained_unnotified: committed rows only, so an alert
\* another process has claimed and not yet committed is still in the answer.
DeliveryQueue == Oldest(explained \ notified, NOTIFY_BATCH)

\* A plausible slip: the UPDATE without its "notified_at IS NULL" predicate.
Claimable_NoCompare(a) == claim[a] = NoProcess

\* The UPDATE of mark_notified stamps the row: nobody holds its lock and the
\* committed notified_at is (still) NULL.
Claimable(a) == claim[a] = NoProcess /\ a \notin notified

\* A plausible slip: the UPDATE gives up on a locked row instead of waiting for it.
Lost_SkipLocked(a) == a \in notified \/ claim[a] # NoProcess

\* The UPDATE of mark_notified returns no row: another transaction's stamp is
\* committed.  While that transaction is open the UPDATE waits, and neither
\* Claimable nor Lost holds.
Lost(a) == a \in notified

\* Commit and rollback free the rows p has stamped; p is done with the alert.
EndTransaction(p) ==
    /\ claim' = [a \in Anomaly |-> IF claim[a] = p THEN NoProcess ELSE claim[a]]
    /\ cur' = [cur EXCEPT ![p] = Nobody]
    /\ attempt' = [attempt EXCEPT ![p] = 0]
    /\ request' = [request EXCEPT ![p] = "none"]

\* The work is over, with an error to record.
ReturnError(p) ==
    /\ queue' = [queue EXCEPT ![p] = {}]
    /\ status' = [status EXCEPT ![p] = "error"]
    /\ Goto(p, "finish")

\* p's view of the outcome of its last request is gone, whatever Telegram did.
LoseOutcome(p) == doubt' = [doubt EXCEPT ![cur[p]] = @ + 1]

\* A request abandoned before Telegram acted on it may still arrive later.
Abandon(p) ==
    \/ UNCHANGED late
    \/ request[p] = "sent" /\ late' = [late EXCEPT ![cur[p]] = @ + 1]

(***************************************************************************)
(* run_audited and the loop of notify_anomalies.                           *)
(***************************************************************************)

\* The explain job commits an explanation (ingest/explain.py).  Seen from here
\* it may happen at any time, in any order.
Explain(a) ==
    /\ a \notin explained
    /\ explained' = explained \cup {a}
    /\ UNCHANGED <<notified, claim, audit, pc, tick, net, faults>>

\* A scheduler tick: the "running" row is committed before the work starts.
StartTick(p) ==
    /\ pc[p] = "idle"
    /\ audit' = [running |-> audit.running + 1, items |-> audit.items]
    /\ sent' = [sent EXCEPT ![p] = 0]
    /\ status' = [status EXCEPT ![p] = "ok"]
    /\ Goto(p, "read")
    /\ UNCHANGED <<db, batch, queue, cur, net, faults>>

ReadQueue(p) ==
    /\ pc[p] = "read"
    /\ batch' = [batch EXCEPT ![p] = DeliveryQueue]
    /\ queue' = [queue EXCEPT ![p] = DeliveryQueue]
    /\ Goto(p, "next")
    /\ UNCHANGED <<db, audit, cur, sent, status, net, faults>>

\* The loop takes the rows in the order the query returned them.
Take(p, a) ==
    /\ pc[p] = "next"
    /\ a \in queue[p]
    /\ \A b \in queue[p] : a <= b
    /\ queue' = [queue EXCEPT ![p] = @ \ {a}]

Claim(p, a) ==
    /\ Take(p, a)
    /\ Claimable(a)
    /\ claim' = [claim EXCEPT ![a] = p]
    /\ cur' = [cur EXCEPT ![p] = a]
    /\ Goto(p, "send")
    /\ UNCHANGED <<explained, notified, audit, batch, sent, status, net, faults>>

\* A plausible slip: a lost race is counted as a delivery.
LoseRace_Counted(p, a) ==
    /\ Take(p, a)
    /\ Lost(a)
    /\ sent' = [sent EXCEPT ![p] = @ + 1]
    /\ UNCHANGED <<db, audit, pc, batch, cur, status, net, faults>>

LoseRace(p, a) ==
    /\ Take(p, a)
    /\ Lost(a)
    /\ UNCHANGED <<db, audit, pc, batch, cur, sent, status, net, faults>>

EndBatch(p) ==
    /\ pc[p] = "next"
    /\ queue[p] = {}
    /\ Goto(p, "finish")
    /\ UNCHANGED <<db, audit, tick, net, faults>>

Commit(p) ==
    /\ pc[p] = "commit"
    /\ notified' = notified \cup {cur[p]}
    /\ EndTransaction(p)
    /\ sent' = [sent EXCEPT ![p] = @ + 1]
    /\ Goto(p, "next")
    /\ UNCHANGED <<explained, audit, batch, queue, status, late, delivered, doubt, faults>>

\* The audit row is closed and committed.
Finish(p) ==
    /\ pc[p] = "finish"
    /\ audit' = [running |-> audit.running - 1, items |-> audit.items + sent[p]]
    /\ batch' = [batch EXCEPT ![p] = {}]
    /\ sent' = [sent EXCEPT ![p] = 0]
    /\ Goto(p, "idle")
    /\ UNCHANGED <<db, queue, cur, status, net, faults>>

(***************************************************************************)
(* messenger.send: request_json retries, Telegram acts, answers are lost.  *)
(***************************************************************************)

\* A plausible slip: one attempt too many.
MayRetry_OffByOne(p) == attempt[p] <= Attempts

MayRetry(p) == attempt[p] < Attempts

Post(p) ==
    /\ pc[p] = "send"
    /\ request[p] = "none"
    /\ MayRetry(p)
    /\ attempt' = [attempt EXCEPT ![p] = @ + 1]
    /\ request' = [request EXCEPT ![p] = "sent"]
    /\ UNCHANGED <<db, audit, pc, tick, late, delivered, doubt, faults>>

\* Telegram accepts the request: the chat has the message.
Serve(p) ==
    /\ request[p] = "sent"
    /\ cur[p] \notin Refused
    /\ delivered' = [delivered EXCEPT ![cur[p]] = @ + 1]
    /\ request' = [request EXCEPT ![p] = "acted"]
    /\ UNCHANGED <<db, audit, pc, tick, attempt, late, doubt, faults>>

\* So does a request whose sender has stopped waiting.
ServeLate(a) ==
    /\ late[a] > 0
    /\ late' = [late EXCEPT ![a] = @ - 1]
    /\ a \notin Refused
    /\ delivered' = [delivered EXCEPT ![a] = @ + 1]
    /\ UNCHANGED <<db, audit, pc, tick, attempt, request, doubt, faults>>

Answer(p) ==
    /\ pc[p] = "send"
    /\ request[p] = "acted"
    /\ Goto(p, "commit")
    /\ UNCHANGED <<db, audit, tick, net, faults>>

\* A plausible slip: the error return without its rollback, so that the commit that
\* closes the audit row makes the claim durable.
FailSend_NoRollback(p) ==
    /\ notified' = notified \cup {cur[p]}
    /\ EndTransaction(p)
    /\ ReturnError(p)
    /\ UNCHANGED <<explained, audit, batch, sent>>

\* SourceUnavailable: the claim is rolled back and the batch ends.
FailSend(p) ==
    /\ EndTransaction(p)
    /\ ReturnError(p)
    /\ UNCHANGED <<explained, notified, audit, batch, sent>>

\* A transient failure: wait and try again while attempts are left.
RetryOrFail(p) ==
    IF MayRetry(p)
    THEN /\ request' = [request EXCEPT ![p] = "none"]
         /\ UNCHANGED <<db, audit, pc, tick, attempt>>
    ELSE FailSend(p)

\* 4xx, or ok=false: Telegram did not act, and request_json does not retry.  An
\* alert may be refused for good, or once (the bot blocked for a while).
Refuse(p) ==
    /\ request[p] = "sent"
    /\ IF cur[p] \in Refused THEN UNCHANGED faults ELSE Fault
    /\ FailSend(p)
    /\ UNCHANGED <<late, delivered, doubt>>

\* 429: Telegram did not act.
Throttle(p) ==
    /\ request[p] = "sent"
    /\ Fault
    /\ RetryOrFail(p)
    /\ UNCHANGED <<late, delivered, doubt>>

\* A timeout, a broken connection or a 5xx: Telegram may have acted.
LoseAnswer(p) ==
    /\ pc[p] = "send"
    /\ request[p] # "none"
    /\ Fault
    /\ LoseOutcome(p)
    /\ Abandon(p)
    /\ RetryOrFail(p)
    /\ UNCHANGED delivered

\* Telegram acted, but its answer does not parse: no retry.
GarbledAnswer(p) ==
    /\ pc[p] = "send"
    /\ request[p] = "acted"
    /\ Fault
    /\ LoseOutcome(p)
    /\ FailSend(p)
    /\ UNCHANGED <<late, delivered>>

(***************************************************************************)
(* Exceptions, and the end of a process.                                   *)
(***************************************************************************)

\* An exception leaves work: run_audited rolls back and records an error row
\* with no items.
Raise(p) ==
    /\ \/ pc[p] \in {"read", "next"}
       \/ pc[p] = "send" /\ request[p] = "none"
    /\ Fault
    /\ EndTransaction(p)
    /\ ReturnError(p)
    /\ sent' = [sent EXCEPT ![p] = 0]
    /\ UNCHANGED <<explained, notified, audit, batch, late, delivered, doubt>>

\* The connection breaks during COMMIT, which Postgres may have carried out.
CommitRaises(p) ==
    /\ pc[p] = "commit"
    /\ Fault
    /\ \/ notified' = notified \cup {cur[p]} /\ UNCHANGED doubt
       \/ UNCHANGED notified /\ LoseOutcome(p)
    /\ EndTransaction(p)
    /\ ReturnError(p)
    /\ sent' = [sent EXCEPT ![p] = 0]
    /\ UNCHANGED <<explained, audit, batch, late, delivered>>

\* The audit write itself raises out of the job; its row stays "running".
AuditRaises(p) ==
    /\ pc[p] = "finish"
    /\ Fault
    /\ batch' = [batch EXCEPT ![p] = {}]
    /\ sent' = [sent EXCEPT ![p] = 0]
    /\ Goto(p, "idle")
    /\ UNCHANGED <<db, audit, queue, cur, status, net>>

\* The process dies, or shutdown cancels its tick: Postgres rolls the open
\* transaction back, and a request on the wire stays on the wire.
Crash(p) ==
    /\ pc[p] # "down"
    /\ Fault
    /\ IF request[p] = "none"
       THEN UNCHANGED <<late, doubt>>
       ELSE LoseOutcome(p) /\ Abandon(p)
    /\ EndTransaction(p)
    /\ batch' = [batch EXCEPT ![p] = {}]
    /\ queue' = [queue EXCEPT ![p] = {}]
    /\ sent' = [sent EXCEPT ![p] = 0]
    /\ Goto(p, "down")
    /\ UNCHANGED <<explained, notified, audit, status, delivered>>

\* docker-compose.yml: restart: unless-stopped.
Restart(p) ==
    /\ pc[p] = "down"
    /\ Goto(p, "idle")
    /\ UNCHANGED <<db, audit, tick, net, faults>>

\* What a process does when nothing goes wrong around it ...
Work(p) ==
    \/ StartTick(p) \/ ReadQueue(p) \/ EndBatch(p) \/ Commit(p) \/ Finish(p)
    \/ \E a \in Anomaly : Claim(p, a) \/ LoseRace(p, a)
    \/ Post(p) \/ Answer(p) \/ Restart(p)

\* ... what Telegram does with its request ...
Telegram(p) == Serve(p) \/ Refuse(p)

\* ... and what goes wrong.
Failure(p) ==
    \/ Throttle(p) \/ LoseAnswer(p) \/ GarbledAnswer(p)
    \/ Raise(p) \/ CommitRaises(p) \/ AuditRaises(p) \/ Crash(p)

Next ==
    \/ \E a \in Anomaly : Explain(a) \/ ServeLate(a)
    \/ \E p \in Process : Work(p) \/ Telegram(p) \/ Failure(p)

Spec == Init /\ [][Next]_vars

(***************************************************************************)
(* Properties.                                                             *)
(***************************************************************************)
Sending(p) == pc[p] \in {"send", "commit"}

\* The compare-and-set of mark_notified: whoever is sending an alert holds its
\* row, and the alert was explained and is not yet notified, however old the
\* queue is that the process read it from.
NoStaleSend ==
    \A p \in Process : Sending(p) =>
        /\ claim[cur[p]] = p
        /\ cur[p] \in explained \ notified

\* "Commit becomes durable only after the send": an alert marked notified has
\* reached the chat, whatever failed in between.
NeverSilentlyMissing == \A a \in notified : delivered[a] >= 1

\* The chat sees an alert again only because the outcome of an earlier send of
\* it was lost: overlapping processes alone never duplicate one.
DuplicatesAccounted == \A a \in Anomaly : delivered[a] + late[a] <= 1 + doubt[a]

\* A tick that records "ok" leaves nothing of the batch it read undelivered,
\* including what another process raced it for.
OkTickDelivered ==
    \A p \in Process : pc[p] = "finish" /\ status[p] = "ok" => batch[p] \subseteq notified

\* The items that open ticks are about to record, one pair for each.
Unrecorded == UNION {{p} \X (1..sent[p]) : p \in Process}

Live == {p \in Process : pc[p] \notin {"idle", "down"}}

\* The audit table never claims more than was delivered: the items its closed
\* rows record, and those the open ticks are about to record, were all made
\* durable; and a row still "running" is a live tick or one that a failure cut
\* off.
AuditTruthful ==
    /\ audit.items + Cardinality(Unrecorded) <= Cardinality(notified)
    /\ Cardinality(Live) <= audit.running /\ audit.running <= Cardinality(Live) + faults

\* notify_anomalies implements the abstract promise of alert delivery.
Delivery == INSTANCE AlertDelivery
ImplementsDelivery == Delivery!Spec

(***************************************************************************)
(* The inductive invariant behind the safety properties.                   *)
(***************************************************************************)

\* A row is locked by exactly the process that is sending its alert, and only
\* a sending process has a request on its way.
RowLocks ==
    /\ \A p \in Process : Sending(p) => cur[p] \in Anomaly /\ claim[cur[p]] = p
    /\ \A a \in Anomaly : claim[a] # NoProcess =>
            Sending(claim[a]) /\ cur[claim[a]] = a
    /\ \A p \in Process : request[p] # "none" => Sending(p)
    /\ \A p \in Process : pc[p] = "commit" => request[p] = "acted"

\* Only explained alerts are read, sent and notified, and a notified alert is
\* never locked again.
QueueSound ==
    /\ notified \subseteq explained
    /\ \A p \in Process : queue[p] \subseteq explained
    /\ \A a \in Anomaly : claim[a] # NoProcess => a \in explained \ notified

\* Every request ever made for a is accounted for: Telegram acted on it, it is
\* late, or it is the one its sender is waiting for; all but one of them lost
\* their outcome.
Waiting(a) == IF claim[a] # NoProcess /\ request[claim[a]] = "sent" THEN 1 ELSE 0
Settled(a) ==
    IF a \in notified \/ (claim[a] # NoProcess /\ request[claim[a]] # "none") THEN 1 ELSE 0

RequestsCounted ==
    /\ \A a \in Anomaly : delivered[a] + late[a] + Waiting(a) <= doubt[a] + Settled(a)
    /\ \A a \in Anomaly : late[a] > 0 => a \in explained
    /\ \A a \in notified : delivered[a] >= 1
    /\ \A p \in Process : request[p] = "acted" => delivered[cur[p]] >= 1

\* What a tick has read and already left behind is notified.
BatchSettled ==
    /\ \A p \in Process : pc[p] = "next" => batch[p] \subseteq notified \cup queue[p]
    /\ \A p \in Process : Sending(p) => batch[p] \subseteq notified \cup queue[p] \cup {cur[p]}
    /\ \A p \in Process : pc[p] = "finish" /\ status[p] = "ok" => batch[p] \subseteq notified

\* Only a tick that is past its StartTick has items to record; and what is counted
\* can be counted.
AuditCounted ==
    /\ \A p \in Process : pc[p] \in {"idle", "read", "down"} => sent[p] = 0
    /\ IsFiniteSet(Unrecorded) /\ IsFiniteSet(Live)
    /\ AuditTruthful

IInv == TypeOK /\ RowLocks /\ QueueSound /\ RequestsCounted /\ BatchSettled
=============================================================================
