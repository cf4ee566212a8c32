------------------------- MODULE AlertPipeline_proofs -------------------------
(***************************************************************************)
(* Theorems about the explain job and the notify job together, for any     *)
(* number of processes, anomalies, articles, attempts and failures.  What  *)
(* is proved of each job alone is used here through INSTANCE: EP and NP    *)
(* are the E and N of AlertPipeline, with their theorems.                  *)
(***************************************************************************)
EXTENDS AlertPipeline, TLAPS

EP == INSTANCE ExplainJob_proofs WITH
        pc <- ePc, queue <- eQueue, cur <- eCur, faults <- eFaults,
        MaxFaults <- MaxExplainFaults

NP == INSTANCE NotifyJob_proofs WITH
        audit <- nAudit, pc <- nPc, queue <- nQueue, cur <- nCur, status <- nStatus,
        faults <- nFaults, MaxFaults <- MaxNotifyFaults

(***************************************************************************)
(* The instances are those of AlertPipeline.                               *)
(***************************************************************************)

LEMMA SameSets ==
    EP!Anomaly = E!Anomaly /\ EP!Article = E!Article /\ EP!Asset = E!Asset
    /\ NP!Anomaly = E!Anomaly /\ N!Anomaly = E!Anomaly
  BY DEF EP!Anomaly, E!Anomaly, EP!Article, E!Article, EP!Asset, E!Asset, NP!Anomaly, N!Anomaly

\* What the theorems of the explain job assume.
LEMMA ExplainAssumptions ==
    /\ NAnomalies \in Nat /\ EXPLAIN_BATCH \in Nat \ {0} /\ MaxExplainFaults \in Nat
    /\ NoProcess \notin Process /\ Unparseable \subseteq EP!Anomaly /\ NoAsset \notin EP!Asset
    /\ NArticles \in Nat /\ MAX_NEWS \in Nat /\ NEWS_WINDOW \in Nat /\ BAR_SPAN \in Nat
    /\ DOMAIN AssetOf = EP!Anomaly /\ BarDay \in [EP!Anomaly -> Int]
    /\ DOMAIN About = EP!Article /\ Published \in [EP!Article -> Int]
    /\ \A m, n \in EP!Article : m <= n => Published[m] <= Published[n]
  BY SameSets, PipelineCountsAssumption, PipelineNamesAssumption, PipelineNewsAssumption

\* ... and those of the notify job.
LEMMA NotifyAssumptions ==
    /\ NAnomalies \in Nat /\ NOTIFY_BATCH \in Nat \ {0}
    /\ Attempts \in Nat \ {0} /\ MaxNotifyFaults \in Nat
    /\ NoProcess \notin Process /\ Refused \subseteq NP!Anomaly
  BY SameSets, PipelineCountsAssumption, PipelineNamesAssumption

LEMMA SameExplainInit == E!Init => EP!Init
  BY DEF E!Init, EP!Init, E!Anomaly, EP!Anomaly, E!Article, EP!Article, E!NoAnomaly, EP!NoAnomaly

LEMMA SameExplainVars == UNCHANGED E!vars <=> UNCHANGED EP!vars
  BY DEF E!vars, EP!vars, E!db, EP!db, E!rows, EP!rows, E!tick, EP!tick, E!work, EP!work,
     E!spending, EP!spending

LEMMA SameExplainOperators ==
    /\ E!Explained = EP!Explained /\ E!Backlog = EP!Backlog
    /\ \A a : E!Candidates(a) = EP!Candidates(a)
    /\ \A p, S : E!Assemble(p, S) = EP!Assemble(p, S) /\ E!Meant(p, S) = EP!Meant(p, S)
<1>1. E!Explained = EP!Explained
  BY SameSets DEF E!Explained, EP!Explained
<1>2. \A S, n : E!Newest(S, n) = EP!Newest(S, n)
  BY DEF E!Newest, EP!Newest, E!Above, EP!Above, E!Cardinality, EP!Cardinality
<1>3. \A S : E!NewestFirst(S) = EP!NewestFirst(S)
  BY DEF E!NewestFirst, EP!NewestFirst, E!Above, EP!Above, E!Cardinality, EP!Cardinality
<1>4. \A a : E!Related(a) = EP!Related(a)
  BY SameSets DEF E!Related, EP!Related, E!InWindow, EP!InWindow
<1>5. E!Backlog = EP!Backlog
  BY <1>1, <1>2 DEF E!Backlog, EP!Backlog
<1>6. \A a : E!Candidates(a) = EP!Candidates(a)
  BY <1>2, <1>3, <1>4 DEF E!Candidates, EP!Candidates
<1>7. \A s, i : E!Position(s, i) = EP!Position(s, i)
  BY DEF E!Position, EP!Position
<1>8. \A p, S : E!Assemble(p, S) = EP!Assemble(p, S) /\ E!Meant(p, S) = EP!Meant(p, S)
  BY <1>7 DEF E!Assemble, EP!Assemble, E!Meant, EP!Meant
<1> QED BY <1>1, <1>5, <1>6, <1>8

LEMMA SameExplainNext == E!Next => EP!Next
<1> SUFFICES ASSUME E!Next PROVE EP!Next
  OBVIOUS
<1> USE DEF E!Anomaly, EP!Anomaly, E!Article, EP!Article, E!Asset, EP!Asset, E!Goto,
    EP!Goto, E!Fault, EP!Fault, E!vars, EP!vars, E!db, EP!db, E!rows, EP!rows, E!tick,
    EP!tick, E!work, EP!work, E!EndTransaction, EP!EndTransaction, E!NoAnomaly,
    EP!NoAnomaly, E!spending, EP!spending
<1>1. \A a \in E!Anomaly : E!Detect(a) => EP!Detect(a)
  BY DEF E!Detect, EP!Detect
<1>2. \A n \in E!Article, s \in E!Asset : E!IngestNews(n, s) => EP!IngestNews(n, s)
  BY DEF E!IngestNews, EP!IngestNews
<1>3. \A p \in Process : E!StartTick(p) => EP!StartTick(p)
  BY SameExplainOperators DEF E!StartTick, EP!StartTick
<1>4. \A p \in Process : E!EndBatch(p) => EP!EndBatch(p)
  BY DEF E!EndBatch, EP!EndBatch
<1>5. \A p \in Process : E!Store(p) => EP!Store(p)
  BY DEF E!Store, EP!Store, E!Inserts, EP!Inserts
<1>6. \A p \in Process : E!MakeDurable(p) => EP!MakeDurable(p)
  BY DEF E!MakeDurable, EP!MakeDurable
<1>7. \A p \in Process : E!Commit(p) => EP!Commit(p)
  BY DEF E!Commit, EP!Commit, E!MakeDurable, EP!MakeDurable
<1>8. \A p \in Process : \A a \in E!Anomaly : E!Skip(p, a) => EP!Skip(p, a)
  BY DEF E!Skip, EP!Skip, E!Take, EP!Take, E!Explained, EP!Explained
<1>9. \A p \in Process : \A a \in E!Anomaly : E!Ask(p, a) => EP!Ask(p, a)
  BY SameExplainOperators DEF E!Ask, EP!Ask, E!Take, EP!Take,
      E!Charge, EP!Charge
<1>10. \A p \in Process : E!Restart(p) => EP!Restart(p)
  BY DEF E!Restart, EP!Restart
<1>11. \A p \in Process : E!MalformedReply(p) => EP!MalformedReply(p)
  BY DEF E!MalformedReply, EP!MalformedReply, E!DiscardReply, EP!DiscardReply,
      E!OnMalformed, EP!OnMalformed
<1>12. \A p \in Process : \A indices : E!GoodReply(p, indices) => EP!GoodReply(p, indices)
  BY SameExplainOperators DEF E!GoodReply, EP!GoodReply, E!InRange, EP!InRange, E!Range, EP!Range
<1>13. \A p \in Process : E!Unavailable(p) => EP!Unavailable(p)
  BY DEF E!Unavailable, EP!Unavailable
<1>14. \A p \in Process : E!Raise(p) => EP!Raise(p)
  BY DEF E!Raise, EP!Raise, E!MakeDurable, EP!MakeDurable
<1>15. \A p \in Process : E!Crash(p) => EP!Crash(p)
  BY DEF E!Crash, EP!Crash
<1> QED BY <1>1, <1>2, <1>3, <1>4, <1>5, <1>6, <1>7, <1>8, <1>9, <1>10, <1>11, <1>12,
    <1>13, <1>14, <1>15 DEF E!Next, EP!Next, E!Indices, EP!Indices, E!Work, EP!Work, E!Failure, EP!Failure

LEMMA SameNotifyQueue == N!DeliveryQueue = NP!DeliveryQueue
<1>1. \A S, n : N!Oldest(S, n) = NP!Oldest(S, n)
  BY DEF N!Oldest, NP!Oldest, N!Cardinality, NP!Cardinality
<1> QED BY <1>1 DEF N!DeliveryQueue, NP!DeliveryQueue, N!Anomaly, NP!Anomaly

LEMMA SameNotifyNext == N!Next => NP!Next
<1> SUFFICES ASSUME N!Next PROVE NP!Next
  OBVIOUS
<1> USE DEF N!Anomaly, NP!Anomaly, N!db, NP!db, N!tick, NP!tick, N!net, NP!net, N!vars,
    NP!vars, N!Nobody, NP!Nobody, N!Goto, NP!Goto, N!Fault, NP!Fault, N!EndTransaction,
    NP!EndTransaction, N!ReturnError, NP!ReturnError, N!LoseOutcome, NP!LoseOutcome,
    N!Abandon, NP!Abandon
<1>1. \A a \in N!Anomaly : N!Explain(a) => NP!Explain(a)
  BY DEF N!Explain, NP!Explain
<1>2. \A a \in N!Anomaly : N!ServeLate(a) => NP!ServeLate(a)
  BY DEF N!ServeLate, NP!ServeLate
<1>3. \A p \in Process : N!StartTick(p) => NP!StartTick(p)
  BY DEF N!StartTick, NP!StartTick
<1>4. \A p \in Process : N!ReadQueue(p) => NP!ReadQueue(p)
  BY SameNotifyQueue DEF N!ReadQueue, NP!ReadQueue
<1>5. \A p \in Process : \A a \in N!Anomaly : N!Claim(p, a) => NP!Claim(p, a)
  BY DEF N!Claim, NP!Claim, N!Take, NP!Take, N!Claimable, NP!Claimable
<1>6. \A p \in Process : \A a \in N!Anomaly : N!LoseRace(p, a) => NP!LoseRace(p, a)
  BY DEF N!LoseRace, NP!LoseRace, N!Take, NP!Take, N!Lost, NP!Lost
<1>7. \A p \in Process : N!EndBatch(p) => NP!EndBatch(p)
  BY DEF N!EndBatch, NP!EndBatch
<1>8. \A p \in Process : N!Commit(p) => NP!Commit(p)
  BY DEF N!Commit, NP!Commit
<1>9. \A p \in Process : N!Finish(p) => NP!Finish(p)
  BY DEF N!Finish, NP!Finish
<1>10. \A p \in Process : N!Post(p) => NP!Post(p)
  BY DEF N!Post, NP!Post, N!MayRetry, NP!MayRetry
<1>11. \A p \in Process : N!Serve(p) => NP!Serve(p)
  BY DEF N!Serve, NP!Serve
<1>12. \A p \in Process : N!Answer(p) => NP!Answer(p)
  BY DEF N!Answer, NP!Answer
<1>13. \A p \in Process : N!FailSend(p) => NP!FailSend(p)
  BY DEF N!FailSend, NP!FailSend
<1>14. \A p \in Process : N!Refuse(p) => NP!Refuse(p)
  BY DEF N!Refuse, NP!Refuse, N!FailSend, NP!FailSend
<1>15. \A p \in Process : N!Throttle(p) => NP!Throttle(p)
  BY DEF N!Throttle, NP!Throttle, N!RetryOrFail, NP!RetryOrFail, N!FailSend, NP!FailSend,
      N!MayRetry, NP!MayRetry
<1>16. \A p \in Process : N!LoseAnswer(p) => NP!LoseAnswer(p)
  BY DEF N!LoseAnswer, NP!LoseAnswer, N!RetryOrFail, NP!RetryOrFail, N!FailSend,
      NP!FailSend, N!MayRetry, NP!MayRetry
<1>17. \A p \in Process : N!GarbledAnswer(p) => NP!GarbledAnswer(p)
  BY DEF N!GarbledAnswer, NP!GarbledAnswer, N!FailSend, NP!FailSend
<1>18. \A p \in Process : N!Raise(p) => NP!Raise(p)
  BY DEF N!Raise, NP!Raise
<1>19. \A p \in Process : N!CommitRaises(p) => NP!CommitRaises(p)
  BY DEF N!CommitRaises, NP!CommitRaises
<1>20. \A p \in Process : N!AuditRaises(p) => NP!AuditRaises(p)
  BY DEF N!AuditRaises, NP!AuditRaises
<1>21. \A p \in Process : N!Crash(p) => NP!Crash(p)
  BY DEF N!Crash, NP!Crash
<1>22. \A p \in Process : N!Restart(p) => NP!Restart(p)
  BY DEF N!Restart, NP!Restart
<1> QED BY <1>1, <1>2, <1>3, <1>4, <1>5, <1>6, <1>7, <1>8, <1>9, <1>10, <1>11, <1>12,
    <1>13, <1>14, <1>15, <1>16, <1>17, <1>18, <1>19, <1>20, <1>21, <1>22 DEF N!Next,
    NP!Next, N!Work, NP!Work, N!Failure, NP!Failure, N!Telegram, NP!Telegram

LEMMA SameNotifyInit == N!Init => NP!Init
  BY DEF N!Init, NP!Init, N!Anomaly, NP!Anomaly, N!Nobody, NP!Nobody

LEMMA SameNotifyVars == UNCHANGED N!vars <=> UNCHANGED NP!vars
  BY DEF N!vars, NP!vars, N!db, NP!db, N!tick, NP!tick, N!net, NP!net

LEMMA SameNotifySpec == N!Spec => NP!Spec
<1>1. [N!Next]_(N!vars) => [NP!Next]_(NP!vars)
  BY SameNotifyNext, SameNotifyVars
<1> QED BY <1>1, SameNotifyInit, PTL DEF N!Spec, NP!Spec

(***************************************************************************)
(* The explain job runs as it does alone.                                  *)
(***************************************************************************)

LEMMA ExplainRuns == Spec => EP!Spec
<1>1. Init => EP!Init
  BY SameExplainInit DEF Init
<1>2. [Next]_vars => [EP!Next]_(EP!vars)
  <2>1. UNCHANGED explainVars => UNCHANGED EP!vars
    BY SameExplainVars DEF explainVars, EP!vars, EP!db, EP!rows, EP!tick, EP!work,
       EP!spending
  <2> QED BY <2>1, SameExplainNext DEF Next, ExplainStep, NotifyStep, vars, explainVars
<1> QED BY <1>1, <1>2, PTL DEF Spec, EP!Spec

LEMMA ExplainInvariance == Spec => []EP!IInv
  BY ExplainRuns, EP!Invariance, ExplainAssumptions

(***************************************************************************)
(* The notify job runs as it does alone, where explanations come at any    *)
(* time and stay.                                                          *)
(***************************************************************************)

\* One anomaly at a time becomes explained, and stays so.
LEMMA ExplainedGrows ==
    ASSUME EP!IInv, EP!Next
    PROVE  \/ explained' = explained
           \/ \E a \in E!Anomaly : a \notin explained /\ explained' = explained \cup {a}
<1>1. /\ explained = {a \in E!Anomaly : explanation[a] # 0}
      /\ explained' = {a \in E!Anomaly : explanation'[a] # 0}
  BY DEF explained, E!Explained, E!Anomaly
<1>2. \/ UNCHANGED EP!rows
      \/ \E p \in Process :
            /\ eCur[p] \in EP!Anomaly /\ ePc[p] = "commit" /\ explanation[eCur[p]] = 0
            /\ explanation' = [explanation EXCEPT ![eCur[p]] = reply[p]]
  BY EP!RowsChange, ExplainAssumptions DEF EP!IInv
<1>3. explanation \in [E!Anomaly -> Nat]
  BY SameSets DEF EP!IInv, EP!TypeOK
<1>4. CASE UNCHANGED EP!rows
  BY <1>1, <1>4 DEF EP!rows
<1>5. ASSUME NEW a \in E!Anomaly, NEW r, explanation[a] = 0, explanation' = [explanation EXCEPT ![a] = r]
      PROVE  \/ explained' = explained
             \/ a \notin explained /\ explained' = explained \cup {a}
  <2>1. explanation'[a] = r /\ \A b \in E!Anomaly \ {a} : explanation'[b] = explanation[b]
    BY <1>3, <1>5
  <2>2. a \notin explained
    BY <1>1, <1>5
  <2>3. CASE r = 0
    <3>1. explained' = explained
      BY <1>1, <1>5, <2>1, <2>3
    <3> QED BY <3>1
  <2>4. CASE r # 0
    <3>1. explained' = explained \cup {a}
      BY <1>1, <1>5, <2>1, <2>4
    <3> QED BY <2>2, <3>1
  <2> QED BY <2>3, <2>4
<1> QED BY <1>2, <1>4, <1>5, SameSets

\* What the notify job's specification asks of the other job: the explain job, with
\* its races, failures and restarts, stays within it.
LEMMA NotifyRunsUnderExplain == Spec => N!Spec
<1>1. Init => N!Init
  BY DEF Init, N!Init
<1>2. ASSUME EP!IInv, [Next]_vars PROVE [N!Next]_(N!vars)
  <2>1. CASE ExplainStep
    <3>1. EP!Next /\ UNCHANGED notifyVars
      BY <2>1, SameExplainNext DEF ExplainStep
    <3>2. CASE explained' = explained
      BY <3>1, <3>2 DEF notifyVars, N!vars, N!db, N!tick, N!net
    <3>3. ASSUME NEW a \in E!Anomaly, a \notin explained, explained' = explained \cup {a}
          PROVE  N!Next
      <4>1. N!Explain(a)
        BY <3>1, <3>3 DEF N!Explain, notifyVars, N!tick, N!net
      <4> QED BY <4>1, SameSets DEF N!Next
    <3> QED BY <1>2, <3>1, <3>2, <3>3, ExplainedGrows
  <2>2. CASE NotifyStep
    BY <2>2, SameSets DEF NotifyStep, N!Next
  <2>3. CASE UNCHANGED vars
    <3>1. explained' = explained
      BY <2>3 DEF vars, explainVars, explained, E!Explained
    <3> QED BY <2>3, <3>1 DEF vars, notifyVars, N!vars, N!db, N!tick, N!net
  <2> QED BY <1>2, <2>1, <2>2, <2>3 DEF Next
<1> QED BY <1>1, <1>2, ExplainInvariance, PTL DEF Spec, N!Spec

LEMMA NotifyRuns == Spec => NP!Spec
  BY NotifyRunsUnderExplain, SameNotifySpec

(***************************************************************************)
(* What holds of the pipeline.                                             *)
(***************************************************************************)

\* However long the backlog, and whatever the replies, a tick's cost is a batch.
THEOREM TickSpendHolds == Spec => []TickSpendBounded
<1>1. Spec => []EP!TickSpendBounded
  BY ExplainRuns, EP!TickSpendIsBounded, ExplainAssumptions
<1>2. EP!TickSpendBounded => TickSpendBounded
  BY DEF EP!TickSpendBounded, TickSpendBounded, E!TickSpendBounded
<1> QED BY <1>1, <1>2, PTL

\* An alert the chat has received keeps the explanation it quoted, whatever the
\* explain job pays for later.
THEOREM WhyIsKept == Spec => AlertKeepsItsWhy
<1>1. Spec => [](\A a \in NP!Anomaly : delivered[a] >= 1 => a \in explained)
  BY NotifyRuns, NP!OnlyExplainedDelivered, NotifyAssumptions
<1>2. Spec => EP!ExplanationsFinal
  BY ExplainRuns, EP!ExplanationsAreFinal, ExplainAssumptions
<1>3. ASSUME \A a \in NP!Anomaly : delivered[a] >= 1 => a \in explained,
             [\A a \in EP!Anomaly : explanation[a] # 0 => explanation'[a] = explanation[a]]_(EP!vars)
      PROVE  [\A a \in E!Anomaly : delivered[a] >= 1 =>
                  explanation[a] # 0 /\ explanation'[a] = explanation[a]]_vars
  <2>1. \A a \in E!Anomaly : explanation[a] # 0 => explanation'[a] = explanation[a]
    <3>1. UNCHANGED EP!vars => explanation' = explanation
      BY DEF EP!vars, EP!db, EP!rows
    <3> QED BY <1>3, <3>1, SameSets
  <2>2. \A a \in E!Anomaly : delivered[a] >= 1 => explanation[a] # 0
    BY <1>3, SameSets DEF explained, E!Explained
  <2> QED BY <2>1, <2>2
<1> QED BY <1>1, <1>2, <1>3, PTL DEF EP!ExplanationsFinal, AlertKeepsItsWhy

\* What a process has delivered and marked: the chat has the alert, and the row it
\* quotes cites only articles of the anomaly's asset, from before its bar closed.
THEOREM NotifiedIsDeliveredAndExplained ==
    Spec => [](\A a \in E!Anomaly : a \in notified =>
                 /\ delivered[a] >= 1 /\ explanation[a] # 0
                 /\ \A n \in evidence[a] : news[n] = AssetOf[a] /\ Published[n] < BarDay[a] + BAR_SPAN)
<1>1. Spec => []NP!IInv
  BY NotifyRuns, NP!InductiveInvariant, NotifyAssumptions
<1>2. Spec => []EP!EvidenceHonest
  BY ExplainRuns, EP!EvidenceIsHonest, ExplainAssumptions
<1>3. ASSUME NP!IInv, EP!EvidenceHonest
      PROVE  \A a \in E!Anomaly : a \in notified =>
                 /\ delivered[a] >= 1 /\ explanation[a] # 0
                 /\ \A n \in evidence[a] : news[n] = AssetOf[a] /\ Published[n] < BarDay[a] + BAR_SPAN
  <2> SUFFICES ASSUME NEW a \in E!Anomaly, a \in notified
               PROVE  /\ delivered[a] >= 1 /\ explanation[a] # 0
                      /\ \A n \in evidence[a] :
                            news[n] = AssetOf[a] /\ Published[n] < BarDay[a] + BAR_SPAN
    OBVIOUS
  <2>1. delivered[a] >= 1 /\ a \in explained
    BY <1>3 DEF NP!IInv, NP!RequestsCounted, NP!QueueSound
  <2>2. a \in EP!Explained
    BY <2>1, SameExplainOperators DEF explained
  <2> QED BY <1>3, <2>1, <2>2 DEF EP!EvidenceHonest, EP!Explained
<1> QED BY <1>1, <1>2, <1>3, PTL
==============================================================================
