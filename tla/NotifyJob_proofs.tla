--------------------------- MODULE NotifyJob_proofs ---------------------------
(***************************************************************************)
(* Theorems about NotifyJob, for any number of processes, anomalies,       *)
(* attempts and failures, and any set of refused alerts.                   *)
(***************************************************************************)
EXTENDS NotifyJob, FiniteSetTheorems, TLAPS

(***************************************************************************)
(* Every case analysis below splits Next along this lemma.                 *)
(***************************************************************************)
LEMMA NextCases ==
    ASSUME Next
    PROVE  \/ \E a \in Anomaly : Explain(a) \/ ServeLate(a)
           \/ \E p \in Process :
                \/ StartTick(p) \/ ReadQueue(p) \/ EndBatch(p) \/ Commit(p) \/ Finish(p)
                \/ \E a \in Anomaly : Claim(p, a) \/ LoseRace(p, a)
                \/ Post(p) \/ Answer(p) \/ Restart(p) \/ Serve(p) \/ Refuse(p)
                \/ Throttle(p) \/ LoseAnswer(p) \/ GarbledAnswer(p)
                \/ Raise(p) \/ CommitRaises(p) \/ AuditRaises(p) \/ Crash(p)
  BY DEF Next, Work, Telegram, Failure

(***************************************************************************)
(* Type correctness.                                                       *)
(***************************************************************************)

\* The queue the job reads is a set of anomalies, all of them explained and
\* none of them notified.
LEMMA QueueFact == DeliveryQueue \subseteq explained \ notified
  BY DEF DeliveryQueue, Oldest

\* Counting one more at any index keeps a table of naturals one.
LEMMA BumpType ==
    ASSUME NEW S, NEW f \in [S -> Nat], NEW x
    PROVE  [f EXCEPT ![x] = @ + 1] \in [S -> Nat]
<1>1. CASE x \in S
  BY <1>1
<1>2. CASE x \notin S
  BY <1>2
<1> QED BY <1>1, <1>2

\* A failed send keeps the types of what it changes.
LEMMA FailType ==
    ASSUME TypeOK, NEW p \in Process, FailSend(p), late' \in [Anomaly -> Nat],
           doubt' \in [Anomaly -> Nat], delivered' \in [Anomaly -> Nat], faults' \in 0..MaxFaults
    PROVE  TypeOK'
  BY CountsAssumption DEF TypeOK, FailSend, Goto, EndTransaction, ReturnError

LEMMA TypeInductive ==
    ASSUME TypeOK, RowLocks, [Next]_vars
    PROVE  TypeOK'
<1> USE CountsAssumption, NamesAssumption DEF TypeOK
<1> USE DEF Goto, Fault, EndTransaction, ReturnError, LoseOutcome, Abandon, db, tick, net, Take
<1>1. CASE UNCHANGED vars
  BY <1>1 DEF vars
<1>2. ASSUME NEW a \in Anomaly, Explain(a) PROVE TypeOK'
  BY <1>2 DEF Explain
<1>3. ASSUME NEW a \in Anomaly, ServeLate(a) PROVE TypeOK'
  BY <1>3 DEF ServeLate
<1>4. ASSUME NEW p \in Process, StartTick(p) PROVE TypeOK'
  BY <1>4 DEF StartTick
<1>5. ASSUME NEW p \in Process, ReadQueue(p) PROVE TypeOK'
  BY <1>5, QueueFact DEF ReadQueue
<1>6. ASSUME NEW p \in Process, EndBatch(p) PROVE TypeOK'
  BY <1>6 DEF EndBatch
<1>7. ASSUME NEW p \in Process, Commit(p) PROVE TypeOK'
  BY <1>7 DEF Commit, RowLocks, Sending
<1>8. ASSUME NEW p \in Process, Finish(p) PROVE TypeOK'
  BY <1>8 DEF Finish
<1>9. ASSUME NEW p \in Process, NEW a \in Anomaly, Claim(p, a) PROVE TypeOK'
  BY <1>9 DEF Claim
<1>10. ASSUME NEW p \in Process, NEW a \in Anomaly, LoseRace(p, a) PROVE TypeOK'
  BY <1>10 DEF LoseRace
<1>11. ASSUME NEW p \in Process, Post(p) PROVE TypeOK'
  BY <1>11 DEF Post, MayRetry
<1>12. ASSUME NEW p \in Process, Answer(p) PROVE TypeOK'
  BY <1>12 DEF Answer
<1>13. ASSUME NEW p \in Process, Restart(p) PROVE TypeOK'
  BY <1>13 DEF Restart
<1>14. ASSUME NEW p \in Process, Serve(p) PROVE TypeOK'
  BY <1>14 DEF Serve, RowLocks, Sending
<1>15. ASSUME NEW p \in Process, Refuse(p) PROVE TypeOK'
  BY <1>15, FailType DEF Refuse
<1>16. ASSUME NEW p \in Process, Throttle(p) PROVE TypeOK'
  <2>1. CASE MayRetry(p)
    BY <1>16, <2>1 DEF Throttle, RetryOrFail
  <2>2. CASE ~MayRetry(p)
    BY <1>16, <2>2, FailType DEF Throttle, RetryOrFail
  <2> QED BY <2>1, <2>2
<1>17. ASSUME NEW p \in Process, LoseAnswer(p) PROVE TypeOK'
  <2>1. doubt' \in [Anomaly -> Nat] /\ late' \in [Anomaly -> Nat]
    BY <1>17, BumpType DEF LoseAnswer
  <2>2. CASE MayRetry(p)
    BY <1>17, <2>1, <2>2 DEF LoseAnswer, RetryOrFail
  <2>3. CASE ~MayRetry(p)
    BY <2>1, <2>3, <1>17, FailType DEF LoseAnswer, RetryOrFail
  <2> QED BY <2>2, <2>3
<1>18. ASSUME NEW p \in Process, GarbledAnswer(p) PROVE TypeOK'
  <2>1. doubt' \in [Anomaly -> Nat]
    BY <1>18, BumpType DEF GarbledAnswer
  <2> QED BY <1>18, <2>1, FailType DEF GarbledAnswer
<1>19. ASSUME NEW p \in Process, Raise(p) PROVE TypeOK'
  BY <1>19 DEF Raise
<1>20. ASSUME NEW p \in Process, CommitRaises(p) PROVE TypeOK'
  BY <1>20 DEF CommitRaises, RowLocks, Sending
<1>21. ASSUME NEW p \in Process, AuditRaises(p) PROVE TypeOK'
  BY <1>21 DEF AuditRaises
<1>22. ASSUME NEW p \in Process, Crash(p) PROVE TypeOK'
  <2>1. doubt' \in [Anomaly -> Nat] /\ late' \in [Anomaly -> Nat]
    <3>1. CASE request[p] = "none"
      BY <1>22, <3>1 DEF Crash
    <3>2. CASE request[p] # "none"
      <4>1. cur[p] \in Anomaly
        BY <3>2 DEF RowLocks
      <4>2. doubt' = [doubt EXCEPT ![cur[p]] = doubt[cur[p]] + 1]
        BY <1>22, <3>2 DEF Crash
      <4>3. late' = late \/ late' = [late EXCEPT ![cur[p]] = late[cur[p]] + 1]
        BY <1>22, <3>2 DEF Crash
      <4> QED BY <4>1, <4>2, <4>3
    <3> QED BY <3>1, <3>2
  <2> QED BY <1>22, <2>1 DEF Crash
<1> QED
  BY NextCases, <1>1, <1>2, <1>3, <1>4, <1>5, <1>6, <1>7, <1>8, <1>9, <1>10, <1>11,
     <1>12, <1>13, <1>14, <1>15, <1>16, <1>17, <1>18, <1>19, <1>20, <1>21, <1>22

LEMMA FailLocks ==
    ASSUME TypeOK, RowLocks,
           NEW p \in Process, FailSend(p)
    PROVE  RowLocks'
  BY NamesAssumption DEF TypeOK, RowLocks, Sending, Nobody, FailSend, Goto, EndTransaction, ReturnError

LEMMA LocksInductive ==
    ASSUME TypeOK, RowLocks, [Next]_vars
    PROVE  RowLocks'
<1> USE NamesAssumption DEF TypeOK, RowLocks, Sending, Nobody
<1> USE DEF Goto, Fault, EndTransaction, ReturnError, LoseOutcome, Abandon, db, tick, net, Take
<1>1. CASE UNCHANGED vars
  BY <1>1 DEF vars
<1>2. ASSUME NEW a \in Anomaly, Explain(a) PROVE RowLocks'
  BY <1>2 DEF Explain
<1>3. ASSUME NEW a \in Anomaly, ServeLate(a) PROVE RowLocks'
  BY <1>3 DEF ServeLate
<1>4. ASSUME NEW p \in Process, StartTick(p) PROVE RowLocks'
  BY <1>4 DEF StartTick
<1>5. ASSUME NEW p \in Process, ReadQueue(p) PROVE RowLocks'
  BY <1>5 DEF ReadQueue
<1>6. ASSUME NEW p \in Process, EndBatch(p) PROVE RowLocks'
  BY <1>6 DEF EndBatch
<1>7. ASSUME NEW p \in Process, Commit(p) PROVE RowLocks'
  BY <1>7 DEF Commit
<1>8. ASSUME NEW p \in Process, Finish(p) PROVE RowLocks'
  BY <1>8 DEF Finish
<1>9. ASSUME NEW p \in Process, NEW a \in Anomaly, Claim(p, a) PROVE RowLocks'
  BY <1>9 DEF Claim, Claimable
<1>10. ASSUME NEW p \in Process, NEW a \in Anomaly, LoseRace(p, a) PROVE RowLocks'
  BY <1>10 DEF LoseRace
<1>11. ASSUME NEW p \in Process, Post(p) PROVE RowLocks'
  BY <1>11 DEF Post, MayRetry
<1>12. ASSUME NEW p \in Process, Answer(p) PROVE RowLocks'
  BY <1>12 DEF Answer
<1>13. ASSUME NEW p \in Process, Restart(p) PROVE RowLocks'
  BY <1>13 DEF Restart
<1>14. ASSUME NEW p \in Process, Serve(p) PROVE RowLocks'
  BY <1>14 DEF Serve
<1>15. ASSUME NEW p \in Process, Refuse(p) PROVE RowLocks'
  BY <1>15, FailLocks DEF Refuse
<1>16. ASSUME NEW p \in Process, Throttle(p) PROVE RowLocks'
  <2>1. CASE MayRetry(p)
    BY <1>16, <2>1 DEF Throttle, RetryOrFail
  <2>2. CASE ~MayRetry(p)
    BY <1>16, <2>2, FailLocks DEF Throttle, RetryOrFail
  <2> QED BY <2>1, <2>2
<1>17. ASSUME NEW p \in Process, LoseAnswer(p) PROVE RowLocks'
  <2>1. CASE MayRetry(p)
    BY <1>17, <2>1 DEF LoseAnswer, RetryOrFail
  <2>2. CASE ~MayRetry(p)
    BY <1>17, <2>2, FailLocks DEF LoseAnswer, RetryOrFail
  <2> QED BY <2>1, <2>2
<1>18. ASSUME NEW p \in Process, GarbledAnswer(p) PROVE RowLocks'
  BY <1>18, FailLocks DEF GarbledAnswer
<1>19. ASSUME NEW p \in Process, Raise(p) PROVE RowLocks'
  BY <1>19 DEF Raise
<1>20. ASSUME NEW p \in Process, CommitRaises(p) PROVE RowLocks'
  BY <1>20 DEF CommitRaises
<1>21. ASSUME NEW p \in Process, AuditRaises(p) PROVE RowLocks'
  BY <1>21 DEF AuditRaises
<1>22. ASSUME NEW p \in Process, Crash(p) PROVE RowLocks'
  BY <1>22 DEF Crash
<1> QED
  BY NextCases, <1>1, <1>2, <1>3, <1>4, <1>5, <1>6, <1>7, <1>8, <1>9, <1>10, <1>11,
     <1>12, <1>13, <1>14, <1>15, <1>16, <1>17, <1>18, <1>19, <1>20, <1>21, <1>22

LEMMA FailQueue ==
    ASSUME TypeOK, RowLocks, QueueSound,
           NEW p \in Process, FailSend(p)
    PROVE  QueueSound'
  BY NamesAssumption DEF TypeOK, RowLocks, QueueSound, Sending, FailSend, Goto, EndTransaction, ReturnError

LEMMA QueueInductive ==
    ASSUME TypeOK, RowLocks, QueueSound, [Next]_vars
    PROVE  QueueSound'
<1> USE NamesAssumption DEF TypeOK, RowLocks, QueueSound, Sending
<1> USE DEF Goto, Fault, EndTransaction, ReturnError, LoseOutcome, Abandon, db, tick, net, Take
<1>1. CASE UNCHANGED vars
  BY <1>1 DEF vars
<1>2. ASSUME NEW a \in Anomaly, Explain(a) PROVE QueueSound'
  BY <1>2 DEF Explain
<1>3. ASSUME NEW a \in Anomaly, ServeLate(a) PROVE QueueSound'
  BY <1>3 DEF ServeLate
<1>4. ASSUME NEW p \in Process, StartTick(p) PROVE QueueSound'
  BY <1>4 DEF StartTick
<1>5. ASSUME NEW p \in Process, ReadQueue(p) PROVE QueueSound'
  BY <1>5, QueueFact DEF ReadQueue
<1>6. ASSUME NEW p \in Process, EndBatch(p) PROVE QueueSound'
  BY <1>6 DEF EndBatch
<1>7. ASSUME NEW p \in Process, Commit(p) PROVE QueueSound'
  BY <1>7 DEF Commit
<1>8. ASSUME NEW p \in Process, Finish(p) PROVE QueueSound'
  BY <1>8 DEF Finish
<1>9. ASSUME NEW p \in Process, NEW a \in Anomaly, Claim(p, a) PROVE QueueSound'
  BY <1>9 DEF Claim, Claimable
<1>10. ASSUME NEW p \in Process, NEW a \in Anomaly, LoseRace(p, a) PROVE QueueSound'
  BY <1>10 DEF LoseRace
<1>11. ASSUME NEW p \in Process, Post(p) PROVE QueueSound'
  BY <1>11 DEF Post
<1>12. ASSUME NEW p \in Process, Answer(p) PROVE QueueSound'
  BY <1>12 DEF Answer
<1>13. ASSUME NEW p \in Process, Restart(p) PROVE QueueSound'
  BY <1>13 DEF Restart
<1>14. ASSUME NEW p \in Process, Serve(p) PROVE QueueSound'
  BY <1>14 DEF Serve
<1>15. ASSUME NEW p \in Process, Refuse(p) PROVE QueueSound'
  BY <1>15, FailQueue DEF Refuse
<1>16. ASSUME NEW p \in Process, Throttle(p) PROVE QueueSound'
  <2>1. CASE MayRetry(p)
    BY <1>16, <2>1 DEF Throttle, RetryOrFail
  <2>2. CASE ~MayRetry(p)
    BY <1>16, <2>2, FailQueue DEF Throttle, RetryOrFail
  <2> QED BY <2>1, <2>2
<1>17. ASSUME NEW p \in Process, LoseAnswer(p) PROVE QueueSound'
  <2>1. CASE MayRetry(p)
    BY <1>17, <2>1 DEF LoseAnswer, RetryOrFail
  <2>2. CASE ~MayRetry(p)
    BY <1>17, <2>2, FailQueue DEF LoseAnswer, RetryOrFail
  <2> QED BY <2>1, <2>2
<1>18. ASSUME NEW p \in Process, GarbledAnswer(p) PROVE QueueSound'
  BY <1>18, FailQueue DEF GarbledAnswer
<1>19. ASSUME NEW p \in Process, Raise(p) PROVE QueueSound'
  BY <1>19 DEF Raise
<1>20. ASSUME NEW p \in Process, CommitRaises(p) PROVE QueueSound'
  BY <1>20 DEF CommitRaises
<1>21. ASSUME NEW p \in Process, AuditRaises(p) PROVE QueueSound'
  BY <1>21 DEF AuditRaises
<1>22. ASSUME NEW p \in Process, Crash(p) PROVE QueueSound'
  BY <1>22 DEF Crash
<1> QED
  BY NextCases, <1>1, <1>2, <1>3, <1>4, <1>5, <1>6, <1>7, <1>8, <1>9, <1>10, <1>11,
     <1>12, <1>13, <1>14, <1>15, <1>16, <1>17, <1>18, <1>19, <1>20, <1>21, <1>22

LEMMA FailBatch ==
    ASSUME TypeOK, RowLocks, BatchSettled,
           NEW p \in Process, FailSend(p)
    PROVE  BatchSettled'
  BY DEF TypeOK, RowLocks, BatchSettled, Sending, FailSend, Goto, EndTransaction, ReturnError

LEMMA BatchInductive ==
    ASSUME TypeOK, RowLocks, BatchSettled, [Next]_vars
    PROVE  BatchSettled'
<1> USE DEF TypeOK, RowLocks, BatchSettled, Sending
<1> USE DEF Goto, Fault, EndTransaction, ReturnError, LoseOutcome, Abandon, db, tick, net, Take
<1>1. CASE UNCHANGED vars
  BY <1>1 DEF vars
<1>2. ASSUME NEW a \in Anomaly, Explain(a) PROVE BatchSettled'
  BY <1>2 DEF Explain
<1>3. ASSUME NEW a \in Anomaly, ServeLate(a) PROVE BatchSettled'
  BY <1>3 DEF ServeLate
<1>4. ASSUME NEW p \in Process, StartTick(p) PROVE BatchSettled'
  BY <1>4 DEF StartTick
<1>5. ASSUME NEW p \in Process, ReadQueue(p) PROVE BatchSettled'
  BY <1>5 DEF ReadQueue
<1>6. ASSUME NEW p \in Process, EndBatch(p) PROVE BatchSettled'
  BY <1>6 DEF EndBatch
<1>7. ASSUME NEW p \in Process, Commit(p) PROVE BatchSettled'
  BY <1>7 DEF Commit
<1>8. ASSUME NEW p \in Process, Finish(p) PROVE BatchSettled'
  BY <1>8 DEF Finish
<1>9. ASSUME NEW p \in Process, NEW a \in Anomaly, Claim(p, a) PROVE BatchSettled'
  BY <1>9 DEF Claim
<1>10. ASSUME NEW p \in Process, NEW a \in Anomaly, LoseRace(p, a) PROVE BatchSettled'
  BY <1>10 DEF LoseRace, Lost
<1>11. ASSUME NEW p \in Process, Post(p) PROVE BatchSettled'
  BY <1>11 DEF Post
<1>12. ASSUME NEW p \in Process, Answer(p) PROVE BatchSettled'
  BY <1>12 DEF Answer
<1>13. ASSUME NEW p \in Process, Restart(p) PROVE BatchSettled'
  BY <1>13 DEF Restart
<1>14. ASSUME NEW p \in Process, Serve(p) PROVE BatchSettled'
  BY <1>14 DEF Serve
<1>15. ASSUME NEW p \in Process, Refuse(p) PROVE BatchSettled'
  BY <1>15, FailBatch DEF Refuse
<1>16. ASSUME NEW p \in Process, Throttle(p) PROVE BatchSettled'
  <2>1. CASE MayRetry(p)
    BY <1>16, <2>1 DEF Throttle, RetryOrFail
  <2>2. CASE ~MayRetry(p)
    BY <1>16, <2>2, FailBatch DEF Throttle, RetryOrFail
  <2> QED BY <2>1, <2>2
<1>17. ASSUME NEW p \in Process, LoseAnswer(p) PROVE BatchSettled'
  <2>1. CASE MayRetry(p)
    BY <1>17, <2>1 DEF LoseAnswer, RetryOrFail
  <2>2. CASE ~MayRetry(p)
    BY <1>17, <2>2, FailBatch DEF LoseAnswer, RetryOrFail
  <2> QED BY <2>1, <2>2
<1>18. ASSUME NEW p \in Process, GarbledAnswer(p) PROVE BatchSettled'
  BY <1>18, FailBatch DEF GarbledAnswer
<1>19. ASSUME NEW p \in Process, Raise(p) PROVE BatchSettled'
  BY <1>19 DEF Raise
<1>20. ASSUME NEW p \in Process, CommitRaises(p) PROVE BatchSettled'
  BY <1>20 DEF CommitRaises
<1>21. ASSUME NEW p \in Process, AuditRaises(p) PROVE BatchSettled'
  BY <1>21 DEF AuditRaises
<1>22. ASSUME NEW p \in Process, Crash(p) PROVE BatchSettled'
  BY <1>22 DEF Crash
<1> QED
  BY NextCases, <1>1, <1>2, <1>3, <1>4, <1>5, <1>6, <1>7, <1>8, <1>9, <1>10, <1>11,
     <1>12, <1>13, <1>14, <1>15, <1>16, <1>17, <1>18, <1>19, <1>20, <1>21, <1>22

LEMMA CountsInductive ==
    ASSUME TypeOK, RowLocks, QueueSound, RequestsCounted, [Next]_vars
    PROVE  RequestsCounted'
<1> USE NamesAssumption DEF TypeOK, RowLocks, QueueSound, RequestsCounted, Sending, Waiting, Settled
<1> USE DEF Goto, Fault, EndTransaction, ReturnError, LoseOutcome, Abandon, db, tick, net, Take
<1>1. CASE UNCHANGED vars
  BY <1>1 DEF vars
<1>2. ASSUME NEW a \in Anomaly, Explain(a) PROVE RequestsCounted'
  BY <1>2 DEF Explain
<1>3. ASSUME NEW a \in Anomaly, ServeLate(a) PROVE RequestsCounted'
  BY <1>3 DEF ServeLate
<1>4. ASSUME NEW p \in Process, StartTick(p) PROVE RequestsCounted'
  BY <1>4 DEF StartTick
<1>5. ASSUME NEW p \in Process, ReadQueue(p) PROVE RequestsCounted'
  BY <1>5 DEF ReadQueue
<1>6. ASSUME NEW p \in Process, EndBatch(p) PROVE RequestsCounted'
  BY <1>6 DEF EndBatch
<1>7. ASSUME NEW p \in Process, Commit(p) PROVE RequestsCounted'
  BY <1>7 DEF Commit
<1>8. ASSUME NEW p \in Process, Finish(p) PROVE RequestsCounted'
  BY <1>8 DEF Finish
<1>9. ASSUME NEW p \in Process, NEW a \in Anomaly, Claim(p, a) PROVE RequestsCounted'
  BY <1>9 DEF Claim, Claimable
<1>10. ASSUME NEW p \in Process, NEW a \in Anomaly, LoseRace(p, a) PROVE RequestsCounted'
  BY <1>10 DEF LoseRace
<1>11. ASSUME NEW p \in Process, Post(p) PROVE RequestsCounted'
  BY <1>11 DEF Post
<1>12. ASSUME NEW p \in Process, Answer(p) PROVE RequestsCounted'
  BY <1>12 DEF Answer
<1>13. ASSUME NEW p \in Process, Restart(p) PROVE RequestsCounted'
  BY <1>13 DEF Restart
<1>14. ASSUME NEW p \in Process, Serve(p) PROVE RequestsCounted'
  BY <1>14 DEF Serve
<1>15. ASSUME NEW p \in Process, Refuse(p) PROVE RequestsCounted'
  BY <1>15 DEF Refuse, FailSend
<1>16. ASSUME NEW p \in Process, Throttle(p) PROVE RequestsCounted'
  BY <1>16 DEF Throttle, RetryOrFail, FailSend
<1>17. ASSUME NEW p \in Process, LoseAnswer(p) PROVE RequestsCounted'
  BY <1>17 DEF LoseAnswer, RetryOrFail, FailSend
<1>18. ASSUME NEW p \in Process, GarbledAnswer(p) PROVE RequestsCounted'
  BY <1>18 DEF GarbledAnswer, FailSend
<1>19. ASSUME NEW p \in Process, Raise(p) PROVE RequestsCounted'
  BY <1>19 DEF Raise
<1>20. ASSUME NEW p \in Process, CommitRaises(p) PROVE RequestsCounted'
  BY <1>20 DEF CommitRaises
<1>21. ASSUME NEW p \in Process, AuditRaises(p) PROVE RequestsCounted'
  BY <1>21 DEF AuditRaises
<1>22. ASSUME NEW p \in Process, Crash(p) PROVE RequestsCounted'
  <2>1. CASE request[p] = "none"
    BY <1>22, <2>1 DEF Crash
  <2>2. CASE request[p] # "none"
    <3>1. cur[p] \in Anomaly /\ claim[cur[p]] = p
      BY <2>2
    <3>2. CASE UNCHANGED late
      BY <1>22, <2>2, <3>1, <3>2 DEF Crash
    <3>3. CASE request[p] = "sent" /\ late' = [late EXCEPT ![cur[p]] = late[cur[p]] + 1]
      BY <1>22, <2>2, <3>1, <3>3 DEF Crash
    <3> QED BY <1>22, <2>2, <3>2, <3>3 DEF Crash
  <2> QED BY <2>1, <2>2
<1> QED
  BY NextCases, <1>1, <1>2, <1>3, <1>4, <1>5, <1>6, <1>7, <1>8, <1>9, <1>10, <1>11,
     <1>12, <1>13, <1>14, <1>15, <1>16, <1>17, <1>18, <1>19, <1>20, <1>21, <1>22

(***************************************************************************)
(* The inductive invariant and what follows from it.                       *)
(***************************************************************************)
LEMMA InvInit == Init => IInv
<1> SUFFICES ASSUME Init PROVE IInv
  OBVIOUS
<1> USE CountsAssumption, NamesAssumption DEF Init
<1>1. TypeOK
  BY DEF TypeOK
<1>2. RowLocks
  BY DEF RowLocks, Sending
<1>3. QueueSound
  BY DEF QueueSound
<1>4. RequestsCounted
  BY DEF RequestsCounted, Waiting, Settled
<1>5. BatchSettled
  BY DEF BatchSettled, Sending
<1> QED BY <1>1, <1>2, <1>3, <1>4, <1>5 DEF IInv

\* IInv holds in every reachable state.
THEOREM InductiveInvariant == Spec => []IInv
<1>1. IInv /\ [Next]_vars => IInv'
  BY TypeInductive, LocksInductive, QueueInductive, CountsInductive, BatchInductive DEF IInv
<1> QED BY InvInit, <1>1, PTL DEF Spec

\* Every variable keeps its type.
THEOREM TypeCorrect == Spec => []TypeOK
<1>1. IInv => TypeOK
  BY DEF IInv
<1> QED BY <1>1, InductiveInvariant, PTL

\* mark_notified: whoever sends an alert holds its row and the alert is not
\* yet notified, for any number of overlapping processes and failures.
THEOREM NoStaleSendHolds == Spec => []NoStaleSend
<1>1. IInv => NoStaleSend
  BY NamesAssumption DEF IInv, TypeOK, RowLocks, QueueSound, NoStaleSend
<1> QED BY <1>1, InductiveInvariant, PTL

\* No two processes are sending the same alert.
THEOREM OneSender ==
    Spec => [](\A p, q \in Process : Sending(p) /\ Sending(q) /\ cur[p] = cur[q] => p = q)
<1>1. IInv => \A p, q \in Process : Sending(p) /\ Sending(q) /\ cur[p] = cur[q] => p = q
  BY DEF IInv, RowLocks
<1> QED BY <1>1, InductiveInvariant, PTL

\* An alert marked notified has reached the chat, whatever failed in between.
THEOREM NeverSilentlyMissingHolds == Spec => []NeverSilentlyMissing
<1>1. IInv => NeverSilentlyMissing
  BY DEF IInv, RequestsCounted, NeverSilentlyMissing
<1> QED BY <1>1, InductiveInvariant, PTL

\* Every repeated message answers for a send whose outcome was lost.
THEOREM DuplicatesAccountedHolds == Spec => []DuplicatesAccounted
<1>1. IInv => DuplicatesAccounted
  <2> SUFFICES ASSUME IInv, NEW a \in Anomaly
               PROVE  delivered[a] + late[a] <= 1 + doubt[a]
    BY DEF DuplicatesAccounted
  <2>1. delivered[a] + late[a] + Waiting(a) <= doubt[a] + Settled(a)
    BY DEF IInv, RequestsCounted
  <2> QED BY <2>1 DEF IInv, TypeOK, Waiting, Settled
<1> QED BY <1>1, InductiveInvariant, PTL

\* A tick that records "ok" leaves nothing of its batch undelivered.
THEOREM OkTickDeliveredHolds == Spec => []OkTickDelivered
<1>1. IInv => OkTickDelivered
  BY DEF IInv, BatchSettled, OkTickDelivered
<1> QED BY <1>1, InductiveInvariant, PTL

(***************************************************************************)
(* The audit table.  Items and live ticks are counted as sets, so that a   *)
(* step adds or takes away one element, or what one tick had to record.    *)
(***************************************************************************)

\* A step that records nothing, delivers nothing and starts and ends no tick.
LEMMA AuditUntouched ==
    ASSUME TypeOK, AuditCounted, audit' = audit, notified' = notified, sent' = sent,
           Live' = Live, faults' \in Nat, faults <= faults',
           \A p \in Process : pc'[p] \in {"idle", "read", "down"} => sent[p] = 0
    PROVE  AuditCounted'
<1>1. Unrecorded' = Unrecorded
  BY DEF Unrecorded
<1>2. Cardinality(Live) \in Nat /\ Cardinality(Live') = Cardinality(Live)
  BY FS_CardinalityType DEF AuditCounted
<1>3. AuditTruthful'
  BY <1>1, <1>2 DEF AuditCounted, AuditTruthful, TypeOK
<1> QED BY <1>1, <1>3 DEF AuditCounted

\* The items of one tick.
LEMMA OwnItems ==
    ASSUME NEW p, NEW n \in Nat
    PROVE  IsFiniteSet({p} \X (1..n)) /\ Cardinality({p} \X (1..n)) = n
<1>1. IsFiniteSet({p}) /\ Cardinality({p}) = 1
  BY FS_Singleton
<1>2. IsFiniteSet(1..n) /\ Cardinality(1..n) = n
  BY FS_Interval
<1>3. /\ IsFiniteSet({p} \X (1..n))
      /\ Cardinality({p} \X (1..n)) = Cardinality({p}) * Cardinality(1..n)
  BY <1>1, <1>2, FS_Product, ZenonT(30)
<1> QED BY <1>1, <1>2, <1>3

\* Once p has nothing to record, its items are gone.
LEMMA ItemsGone ==
    ASSUME TypeOK, AuditCounted, NEW p \in Process, sent' = [sent EXCEPT ![p] = 0]
    PROVE  /\ IsFiniteSet(Unrecorded') /\ Cardinality(Unrecorded') \in Nat
           /\ Cardinality(Unrecorded) = Cardinality(Unrecorded') + sent[p]
<1>1. \A q \in Process : sent'[q] = IF q = p THEN 0 ELSE sent[q]
  BY DEF TypeOK
<1>2. Unrecorded' = Unrecorded \ ({p} \X (1..sent[p]))
  BY <1>1 DEF Unrecorded
<1>3. Unrecorded \cap ({p} \X (1..sent[p])) = {p} \X (1..sent[p])
  BY DEF Unrecorded
<1>4. Cardinality(Unrecorded) \in Nat /\ sent[p] \in Nat
  BY FS_CardinalityType DEF AuditCounted, TypeOK
<1>5. Cardinality({p} \X (1..sent[p])) = sent[p]
  BY <1>4, OwnItems
<1>6. IsFiniteSet(Unrecorded') /\ Cardinality(Unrecorded') = Cardinality(Unrecorded) - sent[p]
  <2> DEFINE U == Unrecorded
             V == {p} \X (1..sent[p])
  <2>1. IsFiniteSet(U)
    BY DEF AuditCounted
  <2> HIDE DEF U, V
  <2>2. IsFiniteSet(U \ V) /\ Cardinality(U \ V) = Cardinality(U) - Cardinality(U \cap V)
    BY <2>1, FS_Difference
  <2> QED BY <1>2, <1>3, <1>5, <2>2 DEF U, V
<1>7. Cardinality(Unrecorded') \in Nat
  BY <1>6, FS_CardinalityType
<1> QED BY <1>4, <1>6, <1>7

\* A tick begins, and one ends.
LEMMA LiveGrows ==
    ASSUME AuditCounted, NEW p, p \notin Live, Live' = Live \cup {p}
    PROVE  /\ IsFiniteSet(Live') /\ Cardinality(Live) \in Nat
           /\ Cardinality(Live') = Cardinality(Live) + 1
  BY FS_AddElement, FS_CardinalityType DEF AuditCounted

LEMMA LiveShrinks ==
    ASSUME AuditCounted, NEW p, p \in Live, Live' = Live \ {p}
    PROVE  /\ IsFiniteSet(Live') /\ Cardinality(Live) \in Nat
           /\ Cardinality(Live') = Cardinality(Live) - 1
  BY FS_RemoveElement, FS_CardinalityType DEF AuditCounted

\* An exception leaves the tick's audit row to be closed with no items.
LEMMA AuditRaised ==
    ASSUME TypeOK, AuditCounted, NEW p \in Process, p \in Live,
           IsFiniteSet(notified), IsFiniteSet(notified'), notified \subseteq notified',
           audit' = audit, sent' = [sent EXCEPT ![p] = 0], pc' = [pc EXCEPT ![p] = "finish"],
           faults' = faults + 1
    PROVE  AuditCounted'
<1>1. \A q \in Process : sent'[q] = IF q = p THEN 0 ELSE sent[q]
  BY DEF TypeOK
<1>2. \A q \in Process : pc'[q] = IF q = p THEN "finish" ELSE pc[q]
  BY DEF TypeOK
<1>3. Live' = Live
  BY <1>2 DEF Live
<1>4. /\ IsFiniteSet(Unrecorded') /\ Cardinality(Unrecorded') \in Nat
      /\ Cardinality(Unrecorded) = Cardinality(Unrecorded') + sent[p]
  BY ItemsGone
<1>5. /\ Cardinality(notified) <= Cardinality(notified')
      /\ Cardinality(notified) \in Nat /\ Cardinality(notified') \in Nat
  BY FS_Subset, FS_CardinalityType
<1>6. Cardinality(Live) \in Nat
  BY FS_CardinalityType DEF AuditCounted
<1>7. audit.items \in Nat /\ audit.running \in Int /\ faults \in Nat /\ sent[p] \in Nat
  BY DEF TypeOK
<1>8. AuditTruthful'
  BY <1>3, <1>4, <1>5, <1>6, <1>7 DEF AuditCounted, AuditTruthful
<1>9. \A q \in Process : pc'[q] \in {"idle", "read", "down"} => sent'[q] = 0
  BY <1>1, <1>2 DEF AuditCounted
<1> QED BY <1>3, <1>4, <1>8, <1>9 DEF AuditCounted

\* The tick of p ends without closing its row: a failure that is counted.
LEMMA AuditCutOff ==
    ASSUME TypeOK, AuditCounted, NEW p \in Process, NEW l \in {"idle", "down"},
           IsFiniteSet(notified),
           audit' = audit, notified' = notified, sent' = [sent EXCEPT ![p] = 0],
           pc' = [pc EXCEPT ![p] = l], faults' = faults + 1
    PROVE  AuditCounted'
<1>1. \A q \in Process : sent'[q] = IF q = p THEN 0 ELSE sent[q]
  BY DEF TypeOK
<1>2. \A q \in Process : pc'[q] = IF q = p THEN l ELSE pc[q]
  BY DEF TypeOK
<1>3. Live' = Live \ {p}
  BY <1>2 DEF Live
<1>4. /\ IsFiniteSet(Live') /\ Cardinality(Live) \in Nat /\ Cardinality(Live') \in Nat
      /\ Cardinality(Live') <= Cardinality(Live) /\ Cardinality(Live) <= Cardinality(Live') + 1
  <2>1. IsFiniteSet(Live)
    BY DEF AuditCounted
  <2>2. /\ IsFiniteSet(Live \ {p})
        /\ Cardinality(Live \ {p}) = IF p \in Live THEN Cardinality(Live) - 1 ELSE Cardinality(Live)
    BY <2>1, FS_RemoveElement
  <2>3. Cardinality(Live) \in Nat /\ Cardinality(Live \ {p}) \in Nat
    BY <2>1, <2>2, FS_CardinalityType
  <2> QED BY <1>3, <2>2, <2>3
<1>5. /\ IsFiniteSet(Unrecorded') /\ Cardinality(Unrecorded') \in Nat
      /\ Cardinality(Unrecorded) = Cardinality(Unrecorded') + sent[p]
  BY ItemsGone
<1>6. /\ audit.items \in Nat /\ audit.running \in Int /\ faults \in Nat /\ sent[p] \in Nat
      /\ Cardinality(notified) \in Nat
  BY FS_CardinalityType DEF TypeOK
<1>7. AuditTruthful'
  BY <1>4, <1>5, <1>6 DEF AuditCounted, AuditTruthful
<1>8. \A q \in Process : pc'[q] \in {"idle", "read", "down"} => sent'[q] = 0
  BY <1>1, <1>2 DEF AuditCounted
<1> QED BY <1>4, <1>5, <1>7, <1>8 DEF AuditCounted

\* A failed send keeps what the tick has to record.
LEMMA FailAudit ==
    ASSUME TypeOK, AuditCounted, NEW p \in Process, p \in Live, FailSend(p),
           faults' \in Nat, faults <= faults'
    PROVE  AuditCounted'
<1>1. \A q \in Process : pc'[q] = IF q = p THEN "finish" ELSE pc[q]
  BY DEF FailSend, ReturnError, Goto, TypeOK
<1>2. Live' = Live
  BY <1>1 DEF Live
<1>3. audit' = audit /\ notified' = notified /\ sent' = sent
  BY DEF FailSend
<1>4. \A q \in Process : pc'[q] \in {"idle", "read", "down"} => sent[q] = 0
  BY <1>1 DEF AuditCounted
<1> QED BY <1>2, <1>3, <1>4, AuditUntouched

LEMMA AuditInductive ==
    ASSUME IInv, AuditCounted, [Next]_vars
    PROVE  AuditCounted'
<1> USE DEF Goto, Fault, db, tick, net
<1>0. /\ TypeOK /\ RowLocks /\ faults \in Nat
      /\ IsFiniteSet(notified) /\ Cardinality(notified) \in Nat
  <2>1. IsFiniteSet(Anomaly)
    BY CountsAssumption, FS_Interval DEF Anomaly
  <2> QED BY <2>1, FS_Subset, FS_CardinalityType DEF IInv, TypeOK
\* A step from one label of a live tick to another.
<1>a. ASSUME NEW p \in Process, p \in Live, NEW l \in {"next", "send", "commit", "finish"},
             pc' = [pc EXCEPT ![p] = l], UNCHANGED <<audit, notified, sent, faults>>
      PROVE  AuditCounted'
  <2>1. \A q \in Process : pc'[q] = IF q = p THEN l ELSE pc[q]
    BY <1>0, <1>a DEF TypeOK
  <2>2. Live' = Live
    BY <1>a, <2>1 DEF Live
  <2>3. \A q \in Process : pc'[q] \in {"idle", "read", "down"} => sent[q] = 0
    BY <2>1 DEF AuditCounted
  <2> QED BY <1>0, <1>a, <2>2, <2>3, AuditUntouched
\* A step that moves no tick.
<1>b. ASSUME UNCHANGED <<audit, notified, sent, pc>>, faults' \in Nat, faults <= faults'
      PROVE  AuditCounted'
  BY <1>0, <1>b, AuditUntouched DEF AuditCounted, Live
<1>1. CASE UNCHANGED vars
  BY <1>0, <1>1, <1>b DEF vars
<1>2. ASSUME NEW a \in Anomaly, Explain(a) PROVE AuditCounted'
  BY <1>0, <1>2, <1>b DEF Explain
<1>3. ASSUME NEW a \in Anomaly, ServeLate(a) PROVE AuditCounted'
  BY <1>0, <1>3, <1>b DEF ServeLate
<1>4. ASSUME NEW p \in Process, StartTick(p) PROVE AuditCounted'
  <2>1. \A q \in Process : pc'[q] = IF q = p THEN "read" ELSE pc[q]
    BY <1>0, <1>4 DEF StartTick, TypeOK
  <2>2. Live' = Live \cup {p} /\ p \notin Live
    BY <1>4, <2>1 DEF StartTick, Live
  <2>3. sent[p] = 0 /\ sent' = [sent EXCEPT ![p] = 0]
    BY <1>4 DEF StartTick, AuditCounted
  <2>4. sent' = sent
    BY <1>0, <2>3 DEF TypeOK
  <2>5. Unrecorded' = Unrecorded
    BY <2>4 DEF Unrecorded
  <2>6. /\ IsFiniteSet(Live') /\ Cardinality(Live) \in Nat
        /\ Cardinality(Live') = Cardinality(Live) + 1
    BY <2>2, LiveGrows
  <2>7. /\ audit'.items = audit.items /\ audit'.running = audit.running + 1
        /\ audit.running \in Int /\ notified' = notified /\ faults' = faults
    BY <1>0, <1>4 DEF StartTick, TypeOK
  <2>8. AuditTruthful'
    BY <1>0, <2>5, <2>6, <2>7 DEF AuditCounted, AuditTruthful
  <2>9. \A q \in Process : pc'[q] \in {"idle", "read", "down"} => sent'[q] = 0
    BY <2>1, <2>3, <2>4 DEF AuditCounted
  <2> QED BY <2>5, <2>6, <2>8, <2>9 DEF AuditCounted
<1>5. ASSUME NEW p \in Process, ReadQueue(p) PROVE AuditCounted'
  BY <1>0, <1>5, <1>a DEF ReadQueue, Live
<1>6. ASSUME NEW p \in Process, EndBatch(p) PROVE AuditCounted'
  BY <1>0, <1>6, <1>a DEF EndBatch, Live
<1>7. ASSUME NEW p \in Process, Commit(p) PROVE AuditCounted'
  <2>1. /\ pc[p] = "commit" /\ notified' = notified \cup {cur[p]} /\ audit' = audit
        /\ sent' = [sent EXCEPT ![p] = sent[p] + 1] /\ pc' = [pc EXCEPT ![p] = "next"]
        /\ faults' = faults
    BY <1>7 DEF Commit
  <2>2. cur[p] \notin notified
    BY <2>1, NamesAssumption DEF IInv, TypeOK, RowLocks, QueueSound, Sending
  <2>3. Cardinality(notified') = Cardinality(notified) + 1
    BY <1>0, <2>1, <2>2, FS_AddElement
  <2>4. /\ \A q \in Process : pc'[q] = IF q = p THEN "next" ELSE pc[q]
        /\ \A q \in Process : sent'[q] = IF q = p THEN sent[p] + 1 ELSE sent[q]
        /\ sent[p] \in Nat
    BY <1>0, <2>1 DEF TypeOK
  <2>5. Live' = Live
    BY <2>1, <2>4 DEF Live
  <2>6. Unrecorded' = Unrecorded \cup {<<p, sent[p] + 1>>} /\ <<p, sent[p] + 1>> \notin Unrecorded
    <3>1. 1..(sent[p] + 1) = 1..sent[p] \cup {sent[p] + 1} /\ sent[p] + 1 \notin 1..sent[p]
      BY <2>4
    <3>2. {p} \X (1..(sent[p] + 1)) = ({p} \X (1..sent[p])) \cup {<<p, sent[p] + 1>>}
      BY <3>1
    <3> QED BY <2>4, <3>1, <3>2 DEF Unrecorded
  <2>7. /\ IsFiniteSet(Unrecorded') /\ Cardinality(Unrecorded) \in Nat
        /\ Cardinality(Unrecorded') = Cardinality(Unrecorded) + 1
    BY <2>6, FS_AddElement, FS_CardinalityType DEF AuditCounted
  <2>8. audit.items \in Nat /\ audit.running \in Int
    BY <1>0 DEF TypeOK
  <2>9. AuditTruthful'
    BY <1>0, <2>1, <2>3, <2>5, <2>7, <2>8 DEF AuditCounted, AuditTruthful
  <2>10. \A q \in Process : pc'[q] \in {"idle", "read", "down"} => sent'[q] = 0
    BY <2>4 DEF AuditCounted
  <2> QED BY <2>5, <2>7, <2>9, <2>10 DEF AuditCounted
<1>8. ASSUME NEW p \in Process, Finish(p) PROVE AuditCounted'
  <2>1. /\ pc[p] = "finish" /\ notified' = notified /\ sent' = [sent EXCEPT ![p] = 0]
        /\ pc' = [pc EXCEPT ![p] = "idle"] /\ faults' = faults
        /\ audit'.running = audit.running - 1 /\ audit'.items = audit.items + sent[p]
    BY <1>8 DEF Finish
  <2>2. /\ \A q \in Process : pc'[q] = IF q = p THEN "idle" ELSE pc[q]
        /\ \A q \in Process : sent'[q] = IF q = p THEN 0 ELSE sent[q]
        /\ sent[p] \in Nat /\ audit.items \in Nat /\ audit.running \in Int
    BY <1>0, <2>1 DEF TypeOK
  <2>3. p \in Live /\ Live' = Live \ {p}
    BY <2>1, <2>2 DEF Live
  <2>4. /\ IsFiniteSet(Live') /\ Cardinality(Live) \in Nat
        /\ Cardinality(Live') = Cardinality(Live) - 1
    BY <2>3, LiveShrinks
  <2>5. /\ IsFiniteSet(Unrecorded') /\ Cardinality(Unrecorded') \in Nat
        /\ Cardinality(Unrecorded) = Cardinality(Unrecorded') + sent[p]
    BY <1>0, <2>1, ItemsGone
  <2>6. AuditTruthful'
    BY <1>0, <2>1, <2>2, <2>4, <2>5 DEF AuditCounted, AuditTruthful
  <2>7. \A q \in Process : pc'[q] \in {"idle", "read", "down"} => sent'[q] = 0
    BY <2>2 DEF AuditCounted
  <2> QED BY <2>4, <2>5, <2>6, <2>7 DEF AuditCounted
<1>9. ASSUME NEW p \in Process, NEW a \in Anomaly, Claim(p, a) PROVE AuditCounted'
  BY <1>0, <1>9, <1>a DEF Claim, Take, Live
<1>10. ASSUME NEW p \in Process, NEW a \in Anomaly, LoseRace(p, a) PROVE AuditCounted'
  BY <1>0, <1>10, <1>b DEF LoseRace
<1>11. ASSUME NEW p \in Process, Post(p) PROVE AuditCounted'
  BY <1>0, <1>11, <1>b DEF Post
<1>12. ASSUME NEW p \in Process, Answer(p) PROVE AuditCounted'
  BY <1>0, <1>12, <1>a DEF Answer, Live
<1>13. ASSUME NEW p \in Process, Restart(p) PROVE AuditCounted'
  <2>1. \A q \in Process : pc'[q] = IF q = p THEN "idle" ELSE pc[q]
    BY <1>0, <1>13 DEF Restart, TypeOK
  <2>2. Live' = Live
    BY <1>13, <2>1 DEF Restart, Live
  <2>3. \A q \in Process : pc'[q] \in {"idle", "read", "down"} => sent[q] = 0
    BY <1>13, <2>1 DEF Restart, AuditCounted
  <2> QED BY <1>0, <1>13, <2>2, <2>3, AuditUntouched DEF Restart
<1>14. ASSUME NEW p \in Process, Serve(p) PROVE AuditCounted'
  BY <1>0, <1>14, <1>b DEF Serve
\* Whoever has a request on its way is in the middle of a tick.
<1>c. ASSUME NEW p \in Process, request[p] # "none" PROVE p \in Live
  BY <1>0, <1>c DEF RowLocks, Sending, Live
<1>15. ASSUME NEW p \in Process, Refuse(p) PROVE AuditCounted'
  BY <1>0, <1>c, <1>15, FailAudit DEF Refuse
<1>d. ASSUME NEW p \in Process, p \in Live, RetryOrFail(p), Fault PROVE AuditCounted'
  <2>1. CASE MayRetry(p)
    BY <1>0, <1>b, <1>d, <2>1 DEF RetryOrFail
  <2>2. CASE ~MayRetry(p)
    BY <1>0, <1>d, <2>2, FailAudit DEF RetryOrFail
  <2> QED BY <2>1, <2>2
<1>16. ASSUME NEW p \in Process, Throttle(p) PROVE AuditCounted'
  BY <1>c, <1>d, <1>16 DEF Throttle
<1>17. ASSUME NEW p \in Process, LoseAnswer(p) PROVE AuditCounted'
  BY <1>c, <1>d, <1>17 DEF LoseAnswer
<1>18. ASSUME NEW p \in Process, GarbledAnswer(p) PROVE AuditCounted'
  BY <1>0, <1>c, <1>18, FailAudit DEF GarbledAnswer
<1>19. ASSUME NEW p \in Process, Raise(p) PROVE AuditCounted'
  BY <1>0, <1>19, AuditRaised DEF Raise, ReturnError, Live
<1>20. ASSUME NEW p \in Process, CommitRaises(p) PROVE AuditCounted'
  <2>1. /\ p \in Live /\ audit' = audit /\ sent' = [sent EXCEPT ![p] = 0]
        /\ pc' = [pc EXCEPT ![p] = "finish"] /\ faults' = faults + 1
        /\ notified' = notified \/ notified' = notified \cup {cur[p]}
    BY <1>20 DEF CommitRaises, ReturnError, Live
  <2>2. IsFiniteSet(notified') /\ notified \subseteq notified'
    BY <1>0, <2>1, FS_AddElement
  <2> QED BY <1>0, <2>1, <2>2, AuditRaised
<1>21. ASSUME NEW p \in Process, AuditRaises(p) PROVE AuditCounted'
  BY <1>0, <1>21, AuditCutOff DEF AuditRaises
<1>22. ASSUME NEW p \in Process, Crash(p) PROVE AuditCounted'
  BY <1>0, <1>22, AuditCutOff DEF Crash
<1> QED
  BY NextCases, <1>1, <1>2, <1>3, <1>4, <1>5, <1>6, <1>7, <1>8, <1>9, <1>10, <1>11,
     <1>12, <1>13, <1>14, <1>15, <1>16, <1>17, <1>18, <1>19, <1>20, <1>21, <1>22

\* run_audited: however many ticks overlap and whatever cuts them off, the audit
\* table never claims more than was made durable, and a row still "running" is a
\* live tick or one that a failure cut off.
THEOREM AuditTruthfulHolds == Spec => []AuditTruthful
<1>1. Init => AuditCounted
  <2> SUFFICES ASSUME Init PROVE AuditCounted
    OBVIOUS
  <2>1. Unrecorded = {} /\ Live = {} /\ notified = {} /\ audit.items = 0 /\ audit.running = 0
    BY DEF Init, Unrecorded, Live
  <2> QED BY <2>1, FS_EmptySet DEF Init, AuditCounted, AuditTruthful
<1>2. IInv /\ AuditCounted /\ [Next]_vars => AuditCounted'
  BY AuditInductive
<1>3. AuditCounted => AuditTruthful
  BY DEF AuditCounted
<1> QED BY <1>1, <1>2, <1>3, InductiveInvariant, PTL DEF Spec

(***************************************************************************)
(* NotifyJob implements AlertDelivery: every step of a process, of Telegram *)
(* or of a failure is a step of the abstract delivery or leaves it alone.  *)
(***************************************************************************)

\* A request that Telegram has yet to act on is owed a delivery.
LEMMA DeliveryOwed ==
    ASSUME IInv, NEW a \in Anomaly, late[a] > 0 \/ Waiting(a) = 1
    PROVE  a \in explained /\ delivered[a] <= doubt[a]
<1>1. delivered[a] + late[a] + Waiting(a) <= doubt[a] + Settled(a)
  BY DEF IInv, RequestsCounted
<1>2. delivered[a] \in Nat /\ late[a] \in Nat /\ doubt[a] \in Nat
  BY DEF IInv, TypeOK
<1>3. Waiting(a) \in {0, 1} /\ Settled(a) \in {0, 1}
  BY DEF Waiting, Settled
<1>4. a \in explained
  BY DEF IInv, RequestsCounted, QueueSound, Waiting
<1> QED BY <1>1, <1>2, <1>3, <1>4

\* A sender that loses the outcome of its request holds an open alert.
LEMMA OutcomeLost ==
    ASSUME IInv, NEW p \in Process, request[p] # "none", LoseOutcome(p),
           UNCHANGED <<explained, notified, delivered>>
    PROVE  Delivery!Next
<1>1. cur[p] \in Anomaly /\ cur[p] \in explained \ notified
  BY NamesAssumption DEF IInv, TypeOK, RowLocks, QueueSound
<1>2. Delivery!LoseTrack(cur[p])
  BY <1>1 DEF Delivery!LoseTrack, LoseOutcome
<1> QED BY <1>1, <1>2 DEF Delivery!Next

LEMMA StepRefines ==
    ASSUME IInv, [Next]_vars
    PROVE  (Delivery!Next \/ UNCHANGED Delivery!vars)
<1> USE NamesAssumption DEF IInv, TypeOK, RowLocks, QueueSound, RequestsCounted, Sending, Waiting, Settled
<1> USE DEF Delivery!Next, Delivery!vars
<1> USE DEF Goto, Fault, EndTransaction, ReturnError, LoseOutcome, Abandon, db, tick, net, Take
<1>1. CASE UNCHANGED vars
  BY <1>1 DEF vars
<1>2. ASSUME NEW a \in Anomaly, Explain(a) PROVE (Delivery!Next \/ UNCHANGED Delivery!vars)
  BY <1>2 DEF Explain, Delivery!Explain
<1>3. ASSUME NEW a \in Anomaly, ServeLate(a) PROVE (Delivery!Next \/ UNCHANGED Delivery!vars)
  <2>1. Delivery!Deliver(a)
    BY <1>3, DeliveryOwed DEF ServeLate, Delivery!Deliver
  <2> QED BY <2>1
<1>4. ASSUME NEW p \in Process, StartTick(p) PROVE (Delivery!Next \/ UNCHANGED Delivery!vars)
  BY <1>4 DEF StartTick
<1>5. ASSUME NEW p \in Process, ReadQueue(p) PROVE (Delivery!Next \/ UNCHANGED Delivery!vars)
  BY <1>5 DEF ReadQueue
<1>6. ASSUME NEW p \in Process, EndBatch(p) PROVE (Delivery!Next \/ UNCHANGED Delivery!vars)
  BY <1>6 DEF EndBatch
<1>7. ASSUME NEW p \in Process, Commit(p) PROVE (Delivery!Next \/ UNCHANGED Delivery!vars)
  BY <1>7 DEF Commit, Delivery!Acknowledge
<1>8. ASSUME NEW p \in Process, Finish(p) PROVE (Delivery!Next \/ UNCHANGED Delivery!vars)
  BY <1>8 DEF Finish
<1>9. ASSUME NEW p \in Process, NEW a \in Anomaly, Claim(p, a) PROVE (Delivery!Next \/ UNCHANGED Delivery!vars)
  BY <1>9 DEF Claim
<1>10. ASSUME NEW p \in Process, NEW a \in Anomaly, LoseRace(p, a) PROVE (Delivery!Next \/ UNCHANGED Delivery!vars)
  BY <1>10 DEF LoseRace
<1>11. ASSUME NEW p \in Process, Post(p) PROVE (Delivery!Next \/ UNCHANGED Delivery!vars)
  BY <1>11 DEF Post
<1>12. ASSUME NEW p \in Process, Answer(p) PROVE (Delivery!Next \/ UNCHANGED Delivery!vars)
  BY <1>12 DEF Answer
<1>13. ASSUME NEW p \in Process, Restart(p) PROVE (Delivery!Next \/ UNCHANGED Delivery!vars)
  BY <1>13 DEF Restart
<1>14. ASSUME NEW p \in Process, Serve(p) PROVE (Delivery!Next \/ UNCHANGED Delivery!vars)
  <2>1. cur[p] \in Anomaly /\ claim[cur[p]] = p
    BY <1>14 DEF Serve
  <2>2. Waiting(cur[p]) = 1
    BY <1>14, <2>1 DEF Serve
  <2>3. Delivery!Deliver(cur[p])
    BY <1>14, <2>1, <2>2, DeliveryOwed DEF Serve, Delivery!Deliver
  <2> QED BY <2>1, <2>3
<1>15. ASSUME NEW p \in Process, Refuse(p) PROVE (Delivery!Next \/ UNCHANGED Delivery!vars)
  BY <1>15 DEF Refuse, FailSend
<1>16. ASSUME NEW p \in Process, Throttle(p) PROVE (Delivery!Next \/ UNCHANGED Delivery!vars)
  BY <1>16 DEF Throttle, RetryOrFail, FailSend
<1>17. ASSUME NEW p \in Process, LoseAnswer(p) PROVE (Delivery!Next \/ UNCHANGED Delivery!vars)
  <2>1. LoseOutcome(p) /\ request[p] # "none"
    BY <1>17 DEF LoseAnswer
  <2>2. UNCHANGED <<explained, notified, delivered>>
    BY <1>17 DEF LoseAnswer, RetryOrFail, FailSend
  <2> QED BY <2>1, <2>2, OutcomeLost
<1>18. ASSUME NEW p \in Process, GarbledAnswer(p) PROVE (Delivery!Next \/ UNCHANGED Delivery!vars)
  <2> QED BY <1>18, OutcomeLost DEF GarbledAnswer, FailSend
<1>19. ASSUME NEW p \in Process, Raise(p) PROVE (Delivery!Next \/ UNCHANGED Delivery!vars)
  BY <1>19 DEF Raise
<1>20. ASSUME NEW p \in Process, CommitRaises(p) PROVE (Delivery!Next \/ UNCHANGED Delivery!vars)
  <2>1. CASE notified' = notified \cup {cur[p]} /\ UNCHANGED doubt
    <3>1. Delivery!Acknowledge(cur[p])
      BY <1>20, <2>1 DEF CommitRaises, Delivery!Acknowledge
    <3> QED BY <1>20, <3>1 DEF CommitRaises
  <2>2. CASE UNCHANGED notified /\ LoseOutcome(p)
    BY <1>20, <2>2, OutcomeLost DEF CommitRaises
  <2> QED BY <1>20, <2>1, <2>2 DEF CommitRaises
<1>21. ASSUME NEW p \in Process, AuditRaises(p) PROVE (Delivery!Next \/ UNCHANGED Delivery!vars)
  BY <1>21 DEF AuditRaises
<1>22. ASSUME NEW p \in Process, Crash(p) PROVE (Delivery!Next \/ UNCHANGED Delivery!vars)
  <2>1. CASE request[p] = "none"
    BY <1>22, <2>1 DEF Crash
  <2>2. CASE request[p] # "none"
    <3>1. LoseOutcome(p)
      BY <1>22, <2>2 DEF Crash
    <3> QED BY <1>22, <2>2, <3>1, OutcomeLost DEF Crash
  <2> QED BY <2>1, <2>2
<1> QED
  BY NextCases, <1>1, <1>2, <1>3, <1>4, <1>5, <1>6, <1>7, <1>8, <1>9, <1>10, <1>11,
     <1>12, <1>13, <1>14, <1>15, <1>16, <1>17, <1>18, <1>19, <1>20, <1>21, <1>22

\* The detailed job keeps the abstract promise.
THEOREM Refinement == Spec => ImplementsDelivery
<1>1. Init => Delivery!Init
  BY DEF Init, Delivery!Init
<1>2. IInv /\ [Next]_vars => [Delivery!Next]_(Delivery!vars)
  BY StepRefines
<1> QED BY <1>1, <1>2, InductiveInvariant, PTL DEF Spec, ImplementsDelivery, Delivery!Spec

\* Nothing reaches the chat that has no explanation on record.
THEOREM OnlyExplainedDelivered == Spec => [](\A a \in Anomaly : delivered[a] >= 1 => a \in explained)
<1> DEFINE J == \A a \in Anomaly : delivered[a] >= 1 => a \in explained
<1>1. Init => J
  BY DEF Init
<1>2. ASSUME IInv, J, [Next]_vars PROVE J'
  <2>1. delivered \in [Anomaly -> Nat] /\ notified \subseteq Anomaly
    BY <1>2 DEF IInv, TypeOK
  <2>2. CASE UNCHANGED Delivery!vars
    BY <1>2, <2>2 DEF Delivery!vars
  <2>3. ASSUME NEW a \in Anomaly, Delivery!Deliver(a) PROVE J'
    BY <1>2, <2>1, <2>3 DEF Delivery!Deliver
  <2>4. ASSUME NEW a \in Anomaly, Delivery!Explain(a) \/ Delivery!LoseTrack(a) \/ Delivery!Acknowledge(a)
        PROVE  J'
    BY <1>2, <2>4 DEF Delivery!Explain, Delivery!LoseTrack, Delivery!Acknowledge
  <2> HIDE DEF J
  <2> QED BY <1>2, <2>2, <2>3, <2>4, StepRefines DEF Delivery!Next
<1> QED BY <1>1, <1>2, InductiveInvariant, PTL DEF Spec
=============================================================================
