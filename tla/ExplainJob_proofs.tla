-------------------------- MODULE ExplainJob_proofs --------------------------
(***************************************************************************)
(* Theorems about ExplainJob, for any number of processes, anomalies,      *)
(* articles and failures, and any feeds, windows and limits.               *)
(***************************************************************************)
EXTENDS ExplainJob, FiniteSetTheorems, FunctionTheorems, TLAPS

(***************************************************************************)
(* The inductive invariant.                                                *)
(***************************************************************************)

Busy(p) == pc[p] \in {"call", "store", "commit"}

\* An open insert belongs to a process about to commit it, and is of a row that
\* is not there yet.
OpenInserts ==
    \A a \in Anomaly : inserting[a] # NoProcess =>
        pc[inserting[a]] = "commit" /\ cur[inserting[a]] = a /\ explanation[a] = 0

\* What a process works on, or will, has been detected.
OnRecord ==
    \A p \in Process :
        /\ queue[p] \subseteq detected
        /\ Busy(p) => cur[p] \in detected

\* An article is stored for an asset whose feed carries it.
NewsCarried == \A n \in Article : news[n] # NoAsset => news[n] \in About[n]

\* What the model is being shown is related to the anomaly.
ShownRelated ==
    \A p \in Process, a \in Anomaly :
        pc[p] = "call" /\ cur[p] = a => Range(candidates[p]) \subseteq Related(a)

\* A reply on record was shown related articles, and cites what it was shown.
RepliesHonest ==
    \A a \in Anomaly : \A k \in DOMAIN replies[a] :
        replies[a][k].cites \subseteq replies[a][k].shown /\ replies[a][k].shown \subseteq Related(a)

\* What a process is about to store is what its reply cited.
DraftHonest ==
    \A p \in Process : pc[p] \in {"store", "commit"} =>
        reply[p] \in DOMAIN replies[cur[p]] /\ draft[p] = replies[cur[p]][reply[p]].cites

\* A row is one of the usable replies for its anomaly.
RowsHonest ==
    \A a \in Anomaly : explanation[a] # 0 =>
        explanation[a] \in DOMAIN replies[a] /\ evidence[a] = replies[a][explanation[a]].cites

IInv ==
    /\ TypeOK
    /\ OpenInserts /\ OnRecord /\ NewsCarried
    /\ ShownRelated /\ RepliesHonest /\ DraftHonest /\ RowsHonest

(***************************************************************************)
(* Lemmas about the operators.                                             *)
(***************************************************************************)

LEMMA NextCases ==
    ASSUME Next
    PROVE  \/ \E a \in Anomaly : Detect(a)
           \/ \E n \in Article, s \in Asset : IngestNews(n, s)
           \/ \E p \in Process :
                \/ StartTick(p) \/ EndBatch(p) \/ Store(p) \/ Commit(p) \/ Restart(p)
                \/ \E a \in Anomaly : Skip(p, a) \/ Ask(p, a)
                \/ \E indices \in SUBSET Indices : GoodReply(p, indices)
                \/ MalformedReply(p) \/ Unavailable(p) \/ Raise(p) \/ Crash(p)
  BY DEF Next, Work, Failure

\* A place in the order of a finite set is a number below its size.
LEMMA AboveType ==
    ASSUME NEW S \in SUBSET Int, IsFiniteSet(S), NEW x \in S
    PROVE  Above(S, x) \in Nat /\ Above(S, x) < Cardinality(S)
<1> DEFINE Newer == {y \in S : y > x}
<1>1. IsFiniteSet(S \ {x}) /\ Cardinality(S \ {x}) = Cardinality(S) - 1
  BY FS_RemoveElement
<1>2. Newer \in SUBSET (S \ {x})
  OBVIOUS
<1>3. IsFiniteSet(Newer) /\ Cardinality(Newer) <= Cardinality(S \ {x})
  BY <1>1, <1>2, FS_Subset
<1>4. Cardinality(Newer) \in Nat /\ Cardinality(S) \in Nat
  BY <1>3, FS_CardinalityType
<1> QED BY <1>1, <1>3, <1>4 DEF Above

\* What is newer comes earlier.
LEMMA AboveMonotone ==
    ASSUME NEW S \in SUBSET Int, IsFiniteSet(S), NEW x \in S, NEW y \in S, x > y
    PROVE  Above(S, x) < Above(S, y)
<1> DEFINE Newer(u) == {v \in S : v > u}
<1>1. \A u : Newer(u) \in SUBSET S
  OBVIOUS
<1>2. \A u : IsFiniteSet(Newer(u)) /\ Cardinality(Newer(u)) \in Nat
  BY <1>1, FS_Subset, FS_CardinalityType
<1>3. Newer(x) \cup {x} \in SUBSET Newer(y)
  <2>1. ASSUME NEW v \in Newer(x) PROVE v \in Newer(y)
    <3>1. v \in Int /\ x \in Int /\ y \in Int
      OBVIOUS
    <3> QED BY <3>1
  <2> QED BY <2>1
<1>4. x \notin Newer(x)
  OBVIOUS
<1>5. Cardinality(Newer(x) \cup {x}) = Cardinality(Newer(x)) + 1
  <2> HIDE DEF Newer
  <2> QED BY <1>2, <1>4, FS_AddElement
<1>6. Cardinality(Newer(x) \cup {x}) <= Cardinality(Newer(y))
  <2> HIDE DEF Newer
  <2> QED BY <1>2, <1>3, FS_Subset
<1>7. Above(S, x) = Cardinality(Newer(x)) /\ Above(S, y) = Cardinality(Newer(y))
  BY DEF Above
<1> HIDE DEF Newer
<1> QED BY <1>2, <1>5, <1>6, <1>7

LEMMA AboveInjective ==
    ASSUME NEW S \in SUBSET Int, IsFiniteSet(S), NEW x \in S, NEW y \in S,
           Above(S, x) = Above(S, y)
    PROVE  x = y
<1>1. Above(S, x) \in Nat
  BY AboveType
<1>2. ~(x > y) /\ ~(y > x)
  BY <1>1, AboveMonotone
<1>3. x \in Int /\ y \in Int
  OBVIOUS
<1> QED BY <1>2, <1>3

\* Every place below the size of the set is taken.
LEMMA AboveOnto ==
    ASSUME NEW S \in SUBSET Int, IsFiniteSet(S), NEW k \in 1..Cardinality(S)
    PROVE  \E x \in S : Above(S, x) = k - 1
<1> DEFINE n == Cardinality(S)
           place == [x \in S |-> Above(S, x) + 1]
<1>1. n \in Nat
  BY FS_CardinalityType
<1>2. place \in [S -> 1..n]
  BY <1>1, AboveType
<1>3. \A x, y \in S : place[x] = place[y] => x = y
  BY AboveInjective, AboveType
<1>4. place \in Injection(S, 1..n)
  BY <1>2, <1>3, Fun_IsInj
<1>5. IsFiniteSet(1..n) /\ Cardinality(1..n) = n
  BY <1>1, FS_Interval
<1>6. place \in Surjection(S, 1..n)
  BY <1>4, <1>5, FS_Injection
<1>7. PICK x \in S : place[x] = k
  BY <1>6 DEF Surjection
<1>8. Above(S, x) \in Nat /\ Above(S, x) + 1 = k
  BY <1>7, AboveType
<1> QED BY <1>8

\* The n greatest elements are at most n: each has a place of its own among the
\* first n.
LEMMA NewestBound ==
    ASSUME NEW S \in SUBSET Int, IsFiniteSet(S), NEW n \in Nat
    PROVE  /\ Newest(S, n) \in SUBSET S /\ IsFiniteSet(Newest(S, n))
           /\ Cardinality(Newest(S, n)) \in Nat /\ Cardinality(Newest(S, n)) <= n
<1> DEFINE T == Newest(S, n)
           place == [x \in T |-> Above(S, x) + 1]
<1>1. T \in SUBSET S
  BY DEF Newest
<1>2. IsFiniteSet(T) /\ Cardinality(T) \in Nat
  BY <1>1, FS_Subset, FS_CardinalityType
<1>3. \A x \in T : Above(S, x) \in Nat /\ Above(S, x) + 1 \in 1..n
  BY <1>1, AboveType DEF Newest
<1> HIDE DEF T
<1>4. place \in [T -> 1..n]
  BY <1>3
<1>5. \A x, y \in T : place[x] = place[y] => x = y
  BY <1>1, <1>3, AboveInjective
<1>6. place \in Injection(T, 1..n)
  BY <1>4, <1>5, Fun_IsInj
<1>7. IsFiniteSet(1..n) /\ Cardinality(1..n) = n
  BY FS_Interval
<1>8. Cardinality(T) <= n
  BY <1>6, <1>7, FS_Injection
<1> QED BY <1>1, <1>2, <1>8 DEF T

\* A query's result has as many rows as there are, and each is one of them.
LEMMA NewestFirstLists ==
    ASSUME NEW S \in SUBSET Int, IsFiniteSet(S)
    PROVE  NewestFirst(S) \in Seq(S) /\ Len(NewestFirst(S)) = Cardinality(S)
<1> DEFINE n == Cardinality(S)
           s == NewestFirst(S)
<1>1. n \in Nat
  BY FS_CardinalityType
<1>2. s \in [1..n -> S]
  BY AboveOnto DEF NewestFirst
<1> QED BY <1>1, <1>2

\* A query returns distinct numbers of the rows it is over, as many as its limit.
LEMMA BacklogFact ==
    ASSUME detected \subseteq Anomaly
    PROVE  Backlog \subseteq detected \ Explained /\ Cardinality(Backlog) <= EXPLAIN_BATCH
<1>1. IsFiniteSet(Anomaly)
  BY ExplainCountsAssumption, FS_Interval DEF Anomaly
<1>2. IsFiniteSet(detected \ Explained) /\ detected \ Explained \in SUBSET Int
  <2>1. detected \ Explained \in SUBSET Anomaly
    OBVIOUS
  <2>2. IsFiniteSet(detected \ Explained)
    BY <1>1, <2>1, FS_Subset
  <2>3. Anomaly \in SUBSET Int
    BY ExplainCountsAssumption DEF Anomaly
  <2> QED BY <2>1, <2>2, <2>3
<1> QED BY <1>2, NewestBound, ExplainCountsAssumption DEF Backlog

LEMMA CandidatesFact ==
    ASSUME NEW a
    PROVE  /\ Candidates(a) \in Seq(Article) /\ Len(Candidates(a)) <= MAX_NEWS
           /\ Range(Candidates(a)) \subseteq Related(a)
<1> DEFINE T == Newest(Related(a), MAX_NEWS)
           s == NewestFirst(T)
<1>1. IsFiniteSet(Article) /\ Article \in SUBSET Int
  BY NewsAssumption, FS_Interval DEF Article
<1>2. Related(a) \in SUBSET Article /\ IsFiniteSet(Related(a)) /\ Related(a) \in SUBSET Int
  BY <1>1, FS_Subset DEF Related
<1>3. T \in SUBSET Related(a) /\ IsFiniteSet(T) /\ Cardinality(T) <= MAX_NEWS
  BY <1>2, NewestBound, NewsAssumption
<1> HIDE DEF T
<1>4. s \in Seq(T) /\ Len(s) <= MAX_NEWS
  BY <1>2, <1>3, NewestFirstLists
<1>5. Candidates(a) = s
  BY DEF Candidates, s, T
<1> HIDE DEF s
<1>6. Range(s) \subseteq T
  BY <1>4 DEF Range
<1> QED BY <1>2, <1>3, <1>4, <1>5, <1>6

\* For the indices that parse_reply accepts, Python's reading of them and the
\* prompt's numbering agree.
LEMMA AssembleIsMeant ==
    ASSUME NEW p \in Process, candidates[p] \in Seq(Article), NEW indices \in SUBSET Int,
           \A i \in indices : InRange(p, i)
    PROVE  Assemble(p, indices) = Meant(p, indices)
<1> DEFINE L == candidates[p]
<1>1. \A k \in DOMAIN L : (\E i \in indices : k \in Position(L, i)) <=> k - 1 \in indices
  BY DEF InRange, Position
<1> DEFINE ByPosition == UNION {Position(L, i) : i \in indices}
           ByNumber == {j \in DOMAIN L : j - 1 \in indices}
<1>2. ByPosition = ByNumber
  <2>1. \A k \in ByPosition : k \in DOMAIN L
    BY DEF Position
  <2>2. \A k : k \in ByPosition <=> k \in DOMAIN L /\ \E i \in indices : k \in Position(L, i)
    BY <2>1
  <2> QED BY <1>1, <2>2
<1> QED BY <1>2 DEF Assemble, Meant

(***************************************************************************)
(* Type correctness.                                                       *)
(***************************************************************************)

LEMMA NothingFits ==
    /\ {} \in {S \in SUBSET Anomaly : Cardinality(S) <= EXPLAIN_BATCH}
    /\ <<>> \in {s \in Seq(Article) : Len(s) <= MAX_NEWS}
  BY FS_EmptySet, ExplainCountsAssumption, NewsAssumption

LEMMA InitType == Init => TypeOK
  BY NothingFits, ExplainCountsAssumption DEF Init, TypeOK

\* The end of a transaction keeps the types of what it changes.
LEMMA EndTransactionType ==
    ASSUME TypeOK, NEW p \in Process, EndTransaction(p)
    PROVE  /\ inserting' \in [Anomaly -> Process \cup {NoProcess}]
           /\ cur' \in [Process -> Anomaly \cup {NoAnomaly}]
           /\ candidates' \in [Process -> {s \in Seq(Article) : Len(s) <= MAX_NEWS}]
           /\ reply' \in [Process -> Nat]
           /\ draft' \in [Process -> SUBSET Article]
  BY NothingFits DEF TypeOK, EndTransaction

\* ... and so does the end of a batch.
LEMMA NoQueueType ==
    ASSUME TypeOK, NEW p \in Process, queue' = [queue EXCEPT ![p] = {}]
    PROVE  queue' \in [Process -> {S \in SUBSET Anomaly : Cardinality(S) <= EXPLAIN_BATCH}]
  BY NothingFits DEF TypeOK

LEMMA TakeType ==
    ASSUME TypeOK, NEW p \in Process, NEW a \in Anomaly, Take(p, a)
    PROVE  queue' \in [Process -> {S \in SUBSET Anomaly : Cardinality(S) <= EXPLAIN_BATCH}]
<1>1. IsFiniteSet(Anomaly)
  BY ExplainCountsAssumption, FS_Interval DEF Anomaly
<1>2. queue[p] \in SUBSET Anomaly /\ Cardinality(queue[p]) <= EXPLAIN_BATCH
  BY DEF TypeOK
<1>3. IsFiniteSet(queue[p])
  BY <1>1, <1>2, FS_Subset
<1>4. queue[p] \ {a} \in SUBSET queue[p]
  OBVIOUS
<1>5. Cardinality(queue[p] \ {a}) <= Cardinality(queue[p])
  BY <1>3, <1>4, FS_Subset
<1>6. /\ Cardinality(queue[p]) \in Nat /\ Cardinality(queue[p] \ {a}) \in Nat
      /\ EXPLAIN_BATCH \in Nat
  BY <1>3, <1>4, FS_Subset, FS_CardinalityType, ExplainCountsAssumption
<1>7. Cardinality(queue[p] \ {a}) <= EXPLAIN_BATCH
  BY <1>2, <1>5, <1>6
<1> QED BY <1>2, <1>7 DEF TypeOK, Take

\* Only a call, and the tick that allows it, are counted.
LEMMA SpendingChange ==
    ASSUME [Next]_vars
    PROVE  \/ UNCHANGED spending
           \/ \E p \in Process : StartTick(p)
           \/ \E p \in Process, a \in Anomaly : Ask(p, a)
  BY NextCases DEF vars, Detect, IngestNews, EndBatch, Store, Commit, Restart, Skip,
     GoodReply, MalformedReply, DiscardReply, Unavailable, Raise, Crash, spending

LEMMA SpendingType ==
    ASSUME TypeOK, [Next]_vars
    PROVE  calls' \in Nat /\ spent' \in [Process -> Nat]
<1>1. calls \in Nat /\ spent \in [Process -> Nat]
  BY DEF TypeOK
<1>2. CASE UNCHANGED spending
  BY <1>1, <1>2 DEF spending
<1>3. ASSUME NEW p \in Process, StartTick(p) PROVE calls' \in Nat /\ spent' \in [Process -> Nat]
  BY <1>1, <1>3 DEF StartTick
<1>4. ASSUME NEW p \in Process, NEW a \in Anomaly, Ask(p, a)
      PROVE  calls' \in Nat /\ spent' \in [Process -> Nat]
  BY <1>1, <1>4 DEF Ask, Charge
<1> QED BY <1>2, <1>3, <1>4, SpendingChange

LEMMA TypeInductive ==
    ASSUME TypeOK, OpenInserts, OnRecord, DraftHonest, [Next]_vars
    PROVE  TypeOK'
<1> USE ExplainCountsAssumption, ExplainNamesAssumption
<1> USE DEF Goto, Fault, db, rows, tick, work
<1>0. calls' \in Nat /\ spent' \in [Process -> Nat]
  BY SpendingType
<1>1. CASE UNCHANGED vars
  BY <1>0, <1>1 DEF vars, TypeOK
<1>2. ASSUME NEW a \in Anomaly, Detect(a) PROVE TypeOK'
  BY <1>0, <1>2 DEF Detect, TypeOK
<1>3. ASSUME NEW n \in Article, NEW s \in Asset, IngestNews(n, s) PROVE TypeOK'
  BY <1>0, <1>3 DEF IngestNews, TypeOK
<1>4. ASSUME NEW p \in Process, StartTick(p) PROVE TypeOK'
  <2>1. Backlog \in {S \in SUBSET Anomaly : Cardinality(S) <= EXPLAIN_BATCH}
    BY BacklogFact DEF TypeOK
  <2> QED BY <1>0, <1>4, <2>1 DEF StartTick, TypeOK
<1>5. ASSUME NEW p \in Process, EndBatch(p) PROVE TypeOK'
  BY <1>0, <1>5 DEF EndBatch, TypeOK
<1>6. ASSUME NEW p \in Process, Store(p) PROVE TypeOK'
  BY <1>0, <1>6 DEF Store, TypeOK
<1>7. ASSUME NEW p \in Process, MakeDurable(p)
      PROVE  explanation' \in [Anomaly -> Nat] /\ evidence' \in [Anomaly -> SUBSET Article]
  BY <1>7 DEF MakeDurable, TypeOK
<1>8. ASSUME NEW p \in Process, Commit(p) PROVE TypeOK'
  BY <1>0, <1>7, <1>8, EndTransactionType DEF Commit, TypeOK
<1>9. ASSUME NEW p \in Process, Restart(p) PROVE TypeOK'
  BY <1>0, <1>9 DEF Restart, TypeOK
<1>10. ASSUME NEW p \in Process, NEW a \in Anomaly, Skip(p, a) PROVE TypeOK'
  BY <1>0, <1>10, TakeType DEF Skip, TypeOK
<1>11. ASSUME NEW p \in Process, NEW a \in Anomaly, Ask(p, a) PROVE TypeOK'
  BY <1>0, <1>11, TakeType, CandidatesFact DEF Ask, TypeOK
<1>12. ASSUME NEW p \in Process, NEW indices \in SUBSET Indices, GoodReply(p, indices)
       PROVE  TypeOK'
  <2>1. cur[p] \in Anomaly
    BY <1>12 DEF GoodReply, OnRecord, Busy, TypeOK
  <2>2. candidates[p] \in Seq(Article)
    BY DEF TypeOK
  <2>3. Range(candidates[p]) \subseteq Article
    BY <2>2 DEF Range
  <2>4. Meant(p, indices) \subseteq Article /\ Assemble(p, indices) \subseteq Article
    BY <2>2 DEF Meant, Assemble, Position
  <2>5. replies[cur[p]] \in Seq([shown : SUBSET Article, cites : SUBSET Article])
    BY <2>1 DEF TypeOK
  <2>6. /\ Len(replies[cur[p]]) \in Nat
        /\ Append(replies[cur[p]], [shown |-> Range(candidates[p]), cites |-> Meant(p, indices)])
             \in Seq([shown : SUBSET Article, cites : SUBSET Article])
    BY <2>3, <2>4, <2>5
  <2>7. replies' \in [Anomaly -> Seq([shown : SUBSET Article, cites : SUBSET Article])]
    BY <1>12, <2>6 DEF GoodReply, TypeOK
  <2>8. reply' \in [Process -> Nat] /\ draft' \in [Process -> SUBSET Article]
    BY <1>12, <2>4, <2>6 DEF GoodReply, TypeOK
  <2> QED BY <1>0, <1>12, <2>7, <2>8 DEF GoodReply, TypeOK
<1>13. ASSUME NEW p \in Process, MalformedReply(p) PROVE TypeOK'
  <2>1. /\ inserting' \in [Anomaly -> Process \cup {NoProcess}]
        /\ cur' \in [Process -> Anomaly \cup {NoAnomaly}]
        /\ candidates' \in [Process -> {s \in Seq(Article) : Len(s) <= MAX_NEWS}]
        /\ reply' \in [Process -> Nat]
        /\ draft' \in [Process -> SUBSET Article]
    BY <1>13, EndTransactionType DEF MalformedReply, DiscardReply
  <2>2. /\ explanation' \in [Anomaly -> Nat] /\ evidence' \in [Anomaly -> SUBSET Article]
        /\ queue' \in [Process -> {S \in SUBSET Anomaly : Cardinality(S) <= EXPLAIN_BATCH}]
    BY <1>13 DEF MalformedReply, DiscardReply, OnMalformed, TypeOK
  <2>3. detected' \subseteq Anomaly /\ news' \in [Article -> Asset \cup {NoAsset}]
    BY <1>13 DEF MalformedReply, DiscardReply, OnMalformed, TypeOK
  <2>4. replies' \in [Anomaly -> Seq([shown : SUBSET Article, cites : SUBSET Article])]
    BY <1>13 DEF MalformedReply, DiscardReply, OnMalformed, TypeOK
  <2>5. pc' \in [Process -> {"idle", "next", "call", "store", "commit", "down"}]
    BY <1>13 DEF MalformedReply, DiscardReply, OnMalformed, TypeOK
  <2>6. faults' \in 0..MaxFaults
    BY <1>13 DEF MalformedReply, DiscardReply, OnMalformed, TypeOK
  <2> QED BY <2>1, <2>2, <2>3, <2>4, <2>5, <2>6, <1>0, Zenon DEF TypeOK
<1>14. ASSUME NEW p \in Process, Unavailable(p) PROVE TypeOK'
  <2>1. /\ inserting' \in [Anomaly -> Process \cup {NoProcess}]
        /\ cur' \in [Process -> Anomaly \cup {NoAnomaly}]
        /\ candidates' \in [Process -> {s \in Seq(Article) : Len(s) <= MAX_NEWS}]
        /\ reply' \in [Process -> Nat]
        /\ draft' \in [Process -> SUBSET Article]
    BY <1>14, EndTransactionType DEF Unavailable
  <2>2. queue' \in [Process -> {S \in SUBSET Anomaly : Cardinality(S) <= EXPLAIN_BATCH}]
    BY <1>14, NoQueueType DEF Unavailable
  <2>3. explanation' \in [Anomaly -> Nat] /\ evidence' \in [Anomaly -> SUBSET Article]
    BY <1>14 DEF Unavailable, TypeOK
  <2>4. detected' \subseteq Anomaly /\ news' \in [Article -> Asset \cup {NoAsset}]
    BY <1>14 DEF Unavailable, TypeOK
  <2>5. replies' \in [Anomaly -> Seq([shown : SUBSET Article, cites : SUBSET Article])]
    BY <1>14 DEF Unavailable, TypeOK
  <2>6. pc' \in [Process -> {"idle", "next", "call", "store", "commit", "down"}]
    BY <1>14 DEF Unavailable, TypeOK
  <2>7. faults' \in 0..MaxFaults
    BY <1>14 DEF Unavailable, TypeOK
  <2> QED BY <2>1, <2>2, <2>3, <2>4, <2>5, <2>6, <2>7, <1>0, Zenon DEF TypeOK
<1>15. ASSUME NEW p \in Process, Raise(p) PROVE TypeOK'
  <2>1. /\ inserting' \in [Anomaly -> Process \cup {NoProcess}]
        /\ cur' \in [Process -> Anomaly \cup {NoAnomaly}]
        /\ candidates' \in [Process -> {s \in Seq(Article) : Len(s) <= MAX_NEWS}]
        /\ reply' \in [Process -> Nat]
        /\ draft' \in [Process -> SUBSET Article]
    BY <1>15, EndTransactionType DEF Raise
  <2>2. queue' \in [Process -> {S \in SUBSET Anomaly : Cardinality(S) <= EXPLAIN_BATCH}]
    BY <1>15, NoQueueType DEF Raise
  <2>3. explanation' \in [Anomaly -> Nat] /\ evidence' \in [Anomaly -> SUBSET Article]
    BY <1>7, <1>15 DEF Raise, TypeOK
  <2>4. detected' \subseteq Anomaly /\ news' \in [Article -> Asset \cup {NoAsset}]
    BY <1>15 DEF Raise, TypeOK
  <2>5. replies' \in [Anomaly -> Seq([shown : SUBSET Article, cites : SUBSET Article])]
    BY <1>15 DEF Raise, TypeOK
  <2>6. pc' \in [Process -> {"idle", "next", "call", "store", "commit", "down"}]
    BY <1>15 DEF Raise, TypeOK
  <2>7. faults' \in 0..MaxFaults
    BY <1>15 DEF Raise, TypeOK
  <2> QED BY <2>1, <2>2, <2>3, <2>4, <2>5, <2>6, <2>7, <1>0, Zenon DEF TypeOK
<1>16. ASSUME NEW p \in Process, Crash(p) PROVE TypeOK'
  <2>1. /\ inserting' \in [Anomaly -> Process \cup {NoProcess}]
        /\ cur' \in [Process -> Anomaly \cup {NoAnomaly}]
        /\ candidates' \in [Process -> {s \in Seq(Article) : Len(s) <= MAX_NEWS}]
        /\ reply' \in [Process -> Nat]
        /\ draft' \in [Process -> SUBSET Article]
    BY <1>16, EndTransactionType DEF Crash
  <2>2. queue' \in [Process -> {S \in SUBSET Anomaly : Cardinality(S) <= EXPLAIN_BATCH}]
    BY <1>16, NoQueueType DEF Crash
  <2>3. explanation' \in [Anomaly -> Nat] /\ evidence' \in [Anomaly -> SUBSET Article]
    BY <1>16 DEF Crash, TypeOK
  <2>4. detected' \subseteq Anomaly /\ news' \in [Article -> Asset \cup {NoAsset}]
    BY <1>16 DEF Crash, TypeOK
  <2>5. replies' \in [Anomaly -> Seq([shown : SUBSET Article, cites : SUBSET Article])]
    BY <1>16 DEF Crash, TypeOK
  <2>6. pc' \in [Process -> {"idle", "next", "call", "store", "commit", "down"}]
    BY <1>16 DEF Crash, TypeOK
  <2>7. faults' \in 0..MaxFaults
    BY <1>16 DEF Crash, TypeOK
  <2> QED BY <2>1, <2>2, <2>3, <2>4, <2>5, <2>6, <2>7, <1>0, Zenon DEF TypeOK
<1> QED
  BY <1>1, <1>2, <1>3, <1>4, <1>5, <1>6, <1>8, <1>9, <1>10, <1>11, <1>12, <1>13, <1>14,
     <1>15, <1>16, NextCases

(***************************************************************************)
(* What no step undoes: stored news and the replies on record.             *)
(***************************************************************************)

LEMMA NewsStay ==
    ASSUME TypeOK, [Next]_vars
    PROVE  /\ \A n \in Article : news[n] # NoAsset => news'[n] = news[n]
           /\ \A a \in Anomaly : Related(a) \subseteq Related(a)'
<1>1. \A n \in Article : news[n] # NoAsset => news'[n] = news[n]
  <2> USE DEF db
  <2>1. CASE UNCHANGED news
    BY <2>1
  <2>2. ASSUME NEW n \in Article, NEW s \in Asset, IngestNews(n, s)
        PROVE  \A m \in Article : news[m] # NoAsset => news'[m] = news[m]
    BY <2>2 DEF IngestNews, TypeOK
  <2>3. UNCHANGED news \/ \E n \in Article, s \in Asset : IngestNews(n, s)
    BY NextCases DEF vars, Detect, StartTick, EndBatch, Store, Commit, Restart, Skip, Ask,
       GoodReply, MalformedReply, DiscardReply, Unavailable, Raise, Crash
  <2> QED BY <2>1, <2>2, <2>3
<1>2. \A a \in Anomaly : AssetOf[a] # NoAsset
  BY ExplainNamesAssumption DEF Asset
<1> QED BY <1>1, <1>2 DEF Related, InWindow

LEMMA RepliesStay ==
    ASSUME TypeOK, OnRecord, [Next]_vars
    PROVE  \A a \in Anomaly : \A k \in DOMAIN replies[a] :
               k \in DOMAIN replies'[a] /\ replies'[a][k] = replies[a][k]
<1>1. CASE UNCHANGED replies
  BY <1>1
<1>2. ASSUME NEW p \in Process, NEW indices \in SUBSET Indices, GoodReply(p, indices),
             NEW a \in Anomaly, NEW k \in DOMAIN replies[a]
      PROVE  k \in DOMAIN replies'[a] /\ replies'[a][k] = replies[a][k]
  <2> DEFINE new == [shown |-> Range(candidates[p]), cites |-> Meant(p, indices)]
  <2>1. replies[a] \in Seq([shown : SUBSET Article, cites : SUBSET Article])
    BY DEF TypeOK
  <2>2. replies'[a] = replies[a] \/ replies'[a] = Append(replies[a], new)
    BY <1>2 DEF GoodReply, TypeOK
  <2> HIDE DEF new
  <2> QED BY <2>1, <2>2
<1>3. UNCHANGED replies \/ \E p \in Process, indices \in SUBSET Indices : GoodReply(p, indices)
  BY NextCases DEF vars, Detect, IngestNews, StartTick, EndBatch, Store, Commit, Restart, Skip,
     Ask, MalformedReply, DiscardReply, Unavailable, Raise, Crash
<1> QED BY <1>1, <1>2, <1>3

(***************************************************************************)
(* The other parts of the invariant.                                       *)
(***************************************************************************)

LEMMA NewsCarriedInductive ==
    ASSUME TypeOK, NewsCarried, [Next]_vars
    PROVE  NewsCarried'
<1>1. CASE UNCHANGED news
  BY <1>1 DEF NewsCarried
<1>2. ASSUME NEW n \in Article, NEW s \in Asset, IngestNews(n, s) PROVE NewsCarried'
  BY <1>2 DEF IngestNews, NewsCarried, TypeOK
<1>3. UNCHANGED news \/ \E n \in Article, s \in Asset : IngestNews(n, s)
  BY NextCases DEF db, vars, Detect, StartTick, EndBatch, Store, Commit, Restart, Skip, Ask,
     GoodReply, MalformedReply, DiscardReply, Unavailable, Raise, Crash
<1> QED BY <1>1, <1>2, <1>3

LEMMA OnRecordInductive ==
    ASSUME TypeOK, OnRecord, [Next]_vars
    PROVE  OnRecord'
<1> USE DEF Goto, db, tick, work, rows, Busy, OnRecord
<1>1. CASE UNCHANGED vars
  BY <1>1 DEF vars
<1>2. ASSUME NEW a \in Anomaly, Detect(a) PROVE OnRecord'
  BY <1>2 DEF Detect
<1>3. ASSUME NEW n \in Article, NEW s \in Asset, IngestNews(n, s) PROVE OnRecord'
  BY <1>3 DEF IngestNews
<1>4. ASSUME NEW p \in Process, StartTick(p) PROVE OnRecord'
  <2>1. Backlog \subseteq detected
    BY BacklogFact DEF TypeOK
  <2> QED BY <1>4, <2>1 DEF StartTick, TypeOK
<1>5. ASSUME NEW p \in Process, EndBatch(p) \/ Restart(p) PROVE OnRecord'
  BY <1>5 DEF EndBatch, Restart, TypeOK
<1>6. ASSUME NEW p \in Process, Store(p) PROVE OnRecord'
  BY <1>6 DEF Store, TypeOK
<1>7. ASSUME NEW p \in Process, Commit(p) PROVE OnRecord'
  BY <1>7 DEF Commit, EndTransaction, TypeOK
<1>8. ASSUME NEW p \in Process, NEW a \in Anomaly, Skip(p, a) PROVE OnRecord'
  BY <1>8 DEF Skip, Take, TypeOK
<1>9. ASSUME NEW p \in Process, NEW a \in Anomaly, Ask(p, a) PROVE OnRecord'
  BY <1>9 DEF Ask, Take, TypeOK
<1>10. ASSUME NEW p \in Process, NEW indices \in SUBSET Indices, GoodReply(p, indices)
       PROVE  OnRecord'
  BY <1>10 DEF GoodReply, TypeOK
<1>11. ASSUME NEW p \in Process, MalformedReply(p) PROVE OnRecord'
  BY <1>11 DEF MalformedReply, DiscardReply, OnMalformed, EndTransaction, TypeOK
<1>12. ASSUME NEW p \in Process, Unavailable(p) \/ Raise(p) \/ Crash(p) PROVE OnRecord'
  BY <1>12 DEF Unavailable, Raise, Crash, EndTransaction, TypeOK
<1> QED
  BY <1>1, <1>2, <1>3, <1>4, <1>5, <1>6, <1>7, <1>8, <1>9, <1>10, <1>11, <1>12, NextCases

LEMMA OpenInsertsInductive ==
    ASSUME TypeOK, OpenInserts, [Next]_vars
    PROVE  OpenInserts'
<1> USE ExplainNamesAssumption DEF Goto, db, tick, work, rows, OpenInserts
<1>1. CASE UNCHANGED vars
  BY <1>1 DEF vars
<1>2. ASSUME NEW a \in Anomaly, Detect(a) PROVE OpenInserts'
  BY <1>2 DEF Detect
<1>3. ASSUME NEW n \in Article, NEW s \in Asset, IngestNews(n, s) PROVE OpenInserts'
  BY <1>3 DEF IngestNews
<1>4. ASSUME NEW p \in Process, StartTick(p) \/ EndBatch(p) \/ Restart(p) PROVE OpenInserts'
  BY <1>4 DEF StartTick, EndBatch, Restart, TypeOK
<1>5. ASSUME NEW p \in Process, Store(p) PROVE OpenInserts'
  BY <1>5 DEF Store, Inserts, TypeOK
<1>6. ASSUME NEW p \in Process, EndTransaction(p), UNCHANGED rows \/ MakeDurable(p),
             \A q \in Process \ {p} : pc'[q] = pc[q]
      PROVE  OpenInserts'
  <2> SUFFICES ASSUME NEW a \in Anomaly, inserting'[a] # NoProcess
               PROVE  /\ pc'[inserting'[a]] = "commit" /\ cur'[inserting'[a]] = a
                      /\ explanation'[a] = 0
    OBVIOUS
  <2>1. inserting[a] # p /\ inserting'[a] = inserting[a] /\ inserting[a] \in Process \ {p}
    BY <1>6 DEF EndTransaction, TypeOK
  <2>2. explanation'[a] = explanation[a]
    BY <1>6, <2>1 DEF MakeDurable
  <2> QED BY <1>6, <2>1, <2>2 DEF EndTransaction, TypeOK
<1>7. ASSUME NEW p \in Process, Commit(p) PROVE OpenInserts'
  BY <1>6, <1>7 DEF Commit, TypeOK
<1>8. ASSUME NEW p \in Process, NEW a \in Anomaly, Skip(p, a) PROVE OpenInserts'
  BY <1>8 DEF Skip, Take, TypeOK
<1>9. ASSUME NEW p \in Process, NEW a \in Anomaly, Ask(p, a) PROVE OpenInserts'
  BY <1>9 DEF Ask, Take, TypeOK
<1>10. ASSUME NEW p \in Process, NEW indices \in SUBSET Indices, GoodReply(p, indices)
       PROVE  OpenInserts'
  BY <1>10 DEF GoodReply, TypeOK
<1>11. ASSUME NEW p \in Process, MalformedReply(p) PROVE OpenInserts'
  BY <1>6, <1>11 DEF MalformedReply, DiscardReply, OnMalformed, TypeOK
<1>12. ASSUME NEW p \in Process, Unavailable(p) \/ Raise(p) \/ Crash(p) PROVE OpenInserts'
  BY <1>6, <1>12 DEF Unavailable, Raise, Crash, TypeOK
<1> QED
  BY <1>1, <1>2, <1>3, <1>4, <1>5, <1>7, <1>8, <1>9, <1>10, <1>11, <1>12, NextCases

LEMMA ShownRelatedInductive ==
    ASSUME TypeOK, ShownRelated, [Next]_vars
    PROVE  ShownRelated'
<1> SUFFICES ASSUME NEW q \in Process, NEW b \in Anomaly, pc'[q] = "call", cur'[q] = b
             PROVE  Range(candidates'[q]) \subseteq Related(b)'
  BY DEF ShownRelated
<1> USE DEF Goto, tick, work
<1> DEFINE Keeps == pc[q] = "call" /\ cur'[q] = cur[q] /\ candidates'[q] = candidates[q]
<1>1. CASE Keeps
  <2>1. Range(candidates[q]) \subseteq Related(b)
    BY <1>1 DEF ShownRelated
  <2>2. Related(b) \subseteq Related(b)'
    BY NewsStay
  <2> QED BY <1>1, <2>1, <2>2
<1>2. ASSUME NEW a \in Anomaly, Ask(q, a) PROVE Range(candidates'[q]) \subseteq Related(b)'
  <2>1. candidates'[q] = Candidates(b)
    BY <1>2 DEF Ask, TypeOK
  <2>2. Related(b) \subseteq Related(b)'
    BY NewsStay
  <2> QED BY <2>1, <2>2, CandidatesFact
<1>3. Keeps \/ \E a \in Anomaly : Ask(q, a)
  <2>1. CASE UNCHANGED vars
    BY <2>1 DEF vars
  <2>2. ASSUME NEW a \in Anomaly, Detect(a) PROVE Keeps
    BY <2>2 DEF Detect
  <2>3. ASSUME NEW n \in Article, NEW s \in Asset, IngestNews(n, s) PROVE Keeps
    BY <2>3 DEF IngestNews
  <2>4. ASSUME NEW p \in Process,
               StartTick(p) \/ EndBatch(p) \/ Restart(p) \/ Store(p) \/ (\E a \in Anomaly : Skip(p, a))
        PROVE  Keeps
    BY <2>4 DEF StartTick, EndBatch, Restart, Store, Skip, Take, TypeOK
  <2>5. ASSUME NEW p \in Process, Commit(p) \/ MalformedReply(p)
        PROVE  Keeps
    BY <2>5 DEF Commit, MalformedReply, DiscardReply, OnMalformed, EndTransaction, TypeOK
  <2>6. ASSUME NEW p \in Process, NEW indices \in SUBSET Indices, GoodReply(p, indices)
        PROVE  Keeps
    BY <2>6 DEF GoodReply, TypeOK
  <2>7. ASSUME NEW p \in Process, NEW a \in Anomaly, Ask(p, a) PROVE p = q \/ Keeps
    BY <2>7 DEF Ask, TypeOK
  <2>8. ASSUME NEW p \in Process, Unavailable(p) \/ Raise(p) \/ Crash(p) PROVE Keeps
    BY <2>8 DEF Unavailable, Raise, Crash, EndTransaction, TypeOK
  <2> HIDE DEF Keeps
  <2> QED BY <2>1, <2>2, <2>3, <2>4, <2>5, <2>6, <2>7, <2>8, NextCases
<1> QED BY <1>1, <1>2, <1>3

LEMMA RepliesHonestInductive ==
    ASSUME TypeOK, OnRecord, ShownRelated, RepliesHonest, [Next]_vars
    PROVE  RepliesHonest'
<1>1. CASE UNCHANGED replies
  BY <1>1, NewsStay DEF RepliesHonest
<1>2. ASSUME NEW p \in Process, NEW indices \in SUBSET Indices, GoodReply(p, indices)
      PROVE  RepliesHonest'
  <2> DEFINE new == [shown |-> Range(candidates[p]), cites |-> Meant(p, indices)]
  <2>1. cur[p] \in Anomaly /\ pc[p] = "call"
    BY <1>2 DEF GoodReply, OnRecord, Busy, TypeOK
  <2>2. new.cites \subseteq new.shown
    BY DEF Meant, Range
  <2>3. new.shown \subseteq Related(cur[p])
    BY <2>1 DEF ShownRelated
  <2>4. replies' = [replies EXCEPT ![cur[p]] = Append(replies[cur[p]], new)]
    BY <1>2 DEF GoodReply
  <2> SUFFICES ASSUME NEW a \in Anomaly, NEW k \in DOMAIN replies'[a]
               PROVE  /\ replies'[a][k].cites \subseteq replies'[a][k].shown
                      /\ replies'[a][k].shown \subseteq Related(a)'
    BY DEF RepliesHonest
  <2> HIDE DEF new
  <2>5. replies[a] \in Seq([shown : SUBSET Article, cites : SUBSET Article])
    BY DEF TypeOK
  <2>6. \/ k \in DOMAIN replies[a] /\ replies'[a][k] = replies[a][k]
        \/ a = cur[p] /\ replies'[a][k] = new
    <3>1. CASE a = cur[p]
      <4>1. replies'[a] = Append(replies[a], new)
        BY <2>4, <3>1 DEF TypeOK
      <4> QED BY <2>5, <3>1, <4>1
    <3>2. CASE a # cur[p]
      BY <2>4, <3>2 DEF TypeOK
    <3> QED BY <3>1, <3>2
  <2>7. Related(a) \subseteq Related(a)'
    BY NewsStay
  <2> QED BY <2>2, <2>3, <2>6, <2>7 DEF RepliesHonest
<1>3. UNCHANGED replies \/ \E p \in Process, indices \in SUBSET Indices : GoodReply(p, indices)
  BY NextCases DEF vars, Detect, IngestNews, StartTick, EndBatch, Store, Commit, Restart, Skip,
     Ask, MalformedReply, DiscardReply, Unavailable, Raise, Crash
<1> QED BY <1>1, <1>2, <1>3

LEMMA DraftHonestInductive ==
    ASSUME TypeOK, OnRecord, DraftHonest, [Next]_vars
    PROVE  DraftHonest'
<1> SUFFICES ASSUME NEW q \in Process, pc'[q] \in {"store", "commit"}
             PROVE  /\ reply'[q] \in DOMAIN replies'[cur'[q]]
                    /\ draft'[q] = replies'[cur'[q]][reply'[q]].cites
  BY DEF DraftHonest
<1> USE DEF Goto, tick, work
<1> DEFINE Keeps == /\ pc[q] \in {"store", "commit"}
                    /\ cur'[q] = cur[q] /\ reply'[q] = reply[q] /\ draft'[q] = draft[q]
<1>1. CASE Keeps
  <2>1. cur[q] \in Anomaly
    BY <1>1 DEF OnRecord, Busy, TypeOK
  <2>2. reply[q] \in DOMAIN replies[cur[q]] /\ draft[q] = replies[cur[q]][reply[q]].cites
    BY <1>1 DEF DraftHonest
  <2> QED BY <1>1, <2>1, <2>2, RepliesStay
<1>2. ASSUME NEW indices \in SUBSET Indices, GoodReply(q, indices)
      PROVE  /\ reply'[q] \in DOMAIN replies'[cur'[q]]
             /\ draft'[q] = replies'[cur'[q]][reply'[q]].cites
  <2> DEFINE new == [shown |-> Range(candidates[q]), cites |-> Meant(q, indices)]
             a == cur[q]
  <2>1. a \in Anomaly
    BY <1>2 DEF GoodReply, OnRecord, Busy, TypeOK
  <2>2. replies[a] \in Seq([shown : SUBSET Article, cites : SUBSET Article])
    BY <2>1 DEF TypeOK
  <2>3. cur'[q] = a /\ replies'[a] = Append(replies[a], new) /\ reply'[q] = Len(replies[a]) + 1
    BY <1>2, <2>1 DEF GoodReply, TypeOK
  <2>4. draft'[q] = Meant(q, indices)
    <3>1. candidates[q] \in Seq(Article) /\ indices \in SUBSET Int
      BY NewsAssumption DEF TypeOK, Indices
    <3>2. Assemble(q, indices) = Meant(q, indices)
      BY <1>2, <3>1, AssembleIsMeant DEF GoodReply
    <3> QED BY <1>2, <3>2 DEF GoodReply, TypeOK
  <2>5. new.cites = Meant(q, indices)
    OBVIOUS
  <2> HIDE DEF new, a
  <2> QED BY <2>2, <2>3, <2>4, <2>5
<1>3. Keeps \/ \E indices \in SUBSET Indices : GoodReply(q, indices)
  <2>1. CASE UNCHANGED vars
    BY <2>1 DEF vars
  <2>2. ASSUME NEW a \in Anomaly, Detect(a) PROVE Keeps
    BY <2>2 DEF Detect
  <2>3. ASSUME NEW n \in Article, NEW s \in Asset, IngestNews(n, s) PROVE Keeps
    BY <2>3 DEF IngestNews
  <2>4. ASSUME NEW p \in Process, StartTick(p) \/ EndBatch(p) \/ Restart(p) \/ Store(p)
        PROVE  Keeps
    BY <2>4 DEF StartTick, EndBatch, Restart, Store, TypeOK
  <2>5. ASSUME NEW p \in Process, NEW a \in Anomaly, Skip(p, a) \/ Ask(p, a) PROVE Keeps
    BY <2>5 DEF Skip, Ask, Take, TypeOK
  <2>6. ASSUME NEW p \in Process, Commit(p) \/ MalformedReply(p) PROVE Keeps
    BY <2>6 DEF Commit, MalformedReply, DiscardReply, OnMalformed, EndTransaction, TypeOK
  <2>7. ASSUME NEW p \in Process, NEW indices \in SUBSET Indices, GoodReply(p, indices)
        PROVE  p = q \/ Keeps
    BY <2>7 DEF GoodReply, TypeOK
  <2>8. ASSUME NEW p \in Process, Unavailable(p) \/ Raise(p) \/ Crash(p) PROVE Keeps
    BY <2>8 DEF Unavailable, Raise, Crash, EndTransaction, TypeOK
  <2> HIDE DEF Keeps
  <2> QED BY <2>1, <2>2, <2>3, <2>4, <2>5, <2>6, <2>7, <2>8, NextCases
<1> QED BY <1>1, <1>2, <1>3

\* A commit makes one row durable, where there was none, or none at all.
LEMMA DurableFact ==
    ASSUME TypeOK, OpenInserts, NEW p \in Process, MakeDurable(p)
    PROVE  \/ UNCHANGED rows
           \/ /\ cur[p] \in Anomaly /\ pc[p] = "commit" /\ explanation[cur[p]] = 0
              /\ explanation' = [explanation EXCEPT ![cur[p]] = reply[p]]
              /\ evidence' = [evidence EXCEPT ![cur[p]] = draft[p]]
<1>1. \A a \in Anomaly : inserting[a] = p => a = cur[p] /\ pc[p] = "commit" /\ explanation[a] = 0
  BY ExplainNamesAssumption DEF OpenInserts
<1>2. CASE \A a \in Anomaly : inserting[a] # p
  BY <1>2 DEF MakeDurable, TypeOK, rows
<1>3. CASE \E a \in Anomaly : inserting[a] = p
  <2>1. cur[p] \in Anomaly /\ inserting[cur[p]] = p /\ pc[p] = "commit" /\ explanation[cur[p]] = 0
    BY <1>1, <1>3
  <2>2. \A a \in Anomaly : a # cur[p] => inserting[a] # p
    BY <1>1
  <2>3. explanation' = [explanation EXCEPT ![cur[p]] = reply[p]]
    BY <2>1, <2>2 DEF MakeDurable, TypeOK
  <2>4. evidence' = [evidence EXCEPT ![cur[p]] = draft[p]]
    BY <2>1, <2>2 DEF MakeDurable, TypeOK
  <2> QED BY <2>1, <2>3, <2>4
<1> QED BY <1>2, <1>3

\* How the rows change: a process that is to commit records what it holds.
LEMMA RowsChange ==
    ASSUME TypeOK, OpenInserts, [Next]_vars
    PROVE  \/ UNCHANGED rows
           \/ \E p \in Process :
                 /\ cur[p] \in Anomaly /\ pc[p] = "commit" /\ explanation[cur[p]] = 0
                 /\ explanation' = [explanation EXCEPT ![cur[p]] = reply[p]]
                 /\ evidence' = [evidence EXCEPT ![cur[p]] = draft[p]]
                 /\ UNCHANGED <<detected, news, replies>>
<1>1. \/ UNCHANGED rows
      \/ \E p \in Process : MakeDurable(p) /\ UNCHANGED <<detected, news, replies>>
  BY NextCases DEF vars, db, rows, Detect, IngestNews, StartTick, EndBatch, Store, Commit, Restart,
     Skip, Ask, GoodReply, MalformedReply, DiscardReply, Unavailable, Raise, Crash
<1> QED BY <1>1, DurableFact

LEMMA RowsHonestInductive ==
    ASSUME TypeOK, OnRecord, OpenInserts, DraftHonest, RowsHonest, [Next]_vars
    PROVE  RowsHonest'
<1>1. CASE UNCHANGED rows
  BY <1>1, RepliesStay DEF RowsHonest, rows
<1>2. ASSUME NEW p \in Process,
             cur[p] \in Anomaly, pc[p] = "commit",
             explanation' = [explanation EXCEPT ![cur[p]] = reply[p]],
             evidence' = [evidence EXCEPT ![cur[p]] = draft[p]],
             UNCHANGED replies
      PROVE  RowsHonest'
  <2>1. reply[p] \in DOMAIN replies[cur[p]] /\ draft[p] = replies[cur[p]][reply[p]].cites
    BY <1>2 DEF DraftHonest
  <2> QED BY <1>2, <2>1 DEF RowsHonest, TypeOK
<1> QED BY <1>1, <1>2, RowsChange

(***************************************************************************)
(* Theorems.                                                               *)
(***************************************************************************)

LEMMA IInvInit == Init => IInv
<1> SUFFICES ASSUME Init PROVE IInv
  OBVIOUS
<1>1. TypeOK
  BY InitType
<1>2. OpenInserts /\ OnRecord /\ NewsCarried
  BY ExplainNamesAssumption DEF Init, OpenInserts, OnRecord, NewsCarried, Busy
<1>3. ShownRelated /\ RepliesHonest /\ DraftHonest /\ RowsHonest
  BY DEF Init, ShownRelated, RepliesHonest, DraftHonest, RowsHonest
<1> QED BY <1>1, <1>2, <1>3 DEF IInv

LEMMA IInvNext == IInv /\ [Next]_vars => IInv'
<1> SUFFICES ASSUME IInv, [Next]_vars PROVE IInv'
  OBVIOUS
<1> USE DEF IInv
<1>1. TypeOK'
  BY TypeInductive
<1>2. OpenInserts' /\ OnRecord' /\ NewsCarried'
  BY OpenInsertsInductive, OnRecordInductive, NewsCarriedInductive
<1>3. ShownRelated' /\ RepliesHonest' /\ DraftHonest' /\ RowsHonest'
  BY ShownRelatedInductive, RepliesHonestInductive, DraftHonestInductive, RowsHonestInductive
<1> QED BY <1>1, <1>2, <1>3

LEMMA Invariance == Spec => []IInv
  BY IInvInit, IInvNext, PTL DEF Spec

\* The variables of the explain job keep their types: no batch outgrows
\* EXPLAIN_BATCH, and no prompt shows more than MAX_NEWS articles.
THEOREM TypeCorrect == Spec => []TypeOK
<1>1. IInv => TypeOK
  BY DEF IInv
<1> QED BY <1>1, Invariance, PTL

\* What an explanation cites is what the model meant, and articles of the
\* anomaly's asset from before its bar closed, however many articles are stored
\* while the model thinks, and whichever of several processes wins the insert.
THEOREM EvidenceIsHonest == Spec => []EvidenceHonest
<1>1. IInv => EvidenceHonest
  <2> SUFFICES ASSUME IInv, NEW a \in Explained
               PROVE  /\ evidence[a] = replies[a][explanation[a]].cites
                      /\ \A n \in evidence[a] :
                            news[n] = AssetOf[a] /\ Published[n] < BarDay[a] + BAR_SPAN
    BY DEF EvidenceHonest
  <2>1. a \in Anomaly /\ explanation[a] \in DOMAIN replies[a]
        /\ evidence[a] = replies[a][explanation[a]].cites
    BY DEF Explained, IInv, RowsHonest
  <2>2. evidence[a] \subseteq Related(a)
    BY <2>1 DEF IInv, RepliesHonest
  <2> QED BY <2>1, <2>2 DEF Related, InWindow
<1> QED BY <1>1, Invariance, PTL

\* No step of any process changes an explanation that is on record.
THEOREM ExplanationsAreFinal == Spec => ExplanationsFinal
<1>1. ASSUME IInv, [Next]_vars
      PROVE  [\A a \in Anomaly : explanation[a] # 0 => explanation'[a] = explanation[a]]_vars
  BY <1>1, RowsChange DEF IInv, TypeOK, rows
<1> QED BY <1>1, Invariance, PTL DEF Spec, ExplanationsFinal

(***************************************************************************)
(* What the job may waste.                                                 *)
(***************************************************************************)

\* Anomalies of which a reply may be usable.
Explicable == detected \ Unparseable

\* p may yet pay for a without a further failure: no row keeps it from asking, and
\* it is not at work on a now.
MayPay(p, a) ==
    /\ a \in Explicable
    /\ explanation[a] = 0
    /\ ~(Busy(p) /\ cur[p] = a)

StillToPay == {pa \in Process \X Anomaly : MayPay(pa[1], pa[2])}

\* After a commit the row is there, whoever inserted it.
CommitSure ==
    \A p \in Process : pc[p] = "commit" => inserting[cur[p]] = p \/ explanation[cur[p]] # 0

\* What is paid, and what may still be paid without a failure, is within bounds.
SpendAllowed ==
    calls + Cardinality(StillToPay) <= Cardinality(Process) * Cardinality(Explicable) + faults

SInv == CommitSure /\ SpendAllowed

LEMMA ExplainedStay ==
    ASSUME IInv, [Next]_vars
    PROVE  \A a \in Anomaly : explanation'[a] = 0 => explanation[a] = 0
  BY RowsChange DEF IInv, TypeOK, rows

LEMMA CommitSureInductive ==
    ASSUME IInv, CommitSure, [Next]_vars
    PROVE  CommitSure'
<1> SUFFICES ASSUME NEW q \in Process, pc'[q] = "commit"
             PROVE  inserting'[cur'[q]] = q \/ explanation'[cur'[q]] # 0
  BY DEF CommitSure
<1> USE DEF Goto, db, rows, tick, work
<1>1. TypeOK
  BY DEF IInv
<1> DEFINE Keeps ==
        /\ pc[q] = "commit" /\ cur'[q] = cur[q]
        /\ \A a \in Anomaly : inserting[a] = q => inserting'[a] = q
<1>2. CASE Keeps
  <2>1. cur[q] \in Anomaly
    BY <1>2 DEF IInv, OnRecord, Busy, TypeOK
  <2> QED BY <1>2, <2>1, ExplainedStay DEF CommitSure
<1>3. CASE Store(q)
  <2>1. cur[q] \in Anomaly
    BY <1>3 DEF Store, IInv, OnRecord, Busy, TypeOK
  <2> QED BY <1>1, <1>3, <2>1 DEF Store, Inserts, TypeOK
<1>4. Keeps \/ Store(q)
  <2> USE <1>1
  <2>1. CASE UNCHANGED vars
    BY <2>1 DEF vars
  <2>2. ASSUME NEW a \in Anomaly, Detect(a) PROVE Keeps
    BY <2>2 DEF Detect
  <2>3. ASSUME NEW n \in Article, NEW s \in Asset, IngestNews(n, s) PROVE Keeps
    BY <2>3 DEF IngestNews
  <2>4. ASSUME NEW p \in Process, StartTick(p) \/ EndBatch(p) \/ Restart(p) PROVE Keeps
    BY <2>4 DEF StartTick, EndBatch, Restart, TypeOK
  <2>5. ASSUME NEW p \in Process, NEW a \in Anomaly, Skip(p, a) \/ Ask(p, a) PROVE Keeps
    BY <2>5 DEF Skip, Ask, Take, TypeOK
  <2>6. ASSUME NEW p \in Process, Store(p) PROVE Keeps \/ Store(q)
    BY <2>6, ExplainNamesAssumption DEF Store, TypeOK
  <2>7. ASSUME NEW p \in Process, Commit(p) \/ MalformedReply(p) PROVE Keeps
    BY <2>7 DEF Commit, MalformedReply, DiscardReply, OnMalformed, EndTransaction, TypeOK
  <2>8. ASSUME NEW p \in Process, NEW indices \in SUBSET Indices, GoodReply(p, indices)
        PROVE  Keeps
    BY <2>8 DEF GoodReply, TypeOK
  <2>9. ASSUME NEW p \in Process, Unavailable(p) \/ Raise(p) \/ Crash(p) PROVE Keeps
    BY <2>9 DEF Unavailable, Raise, Crash, EndTransaction, TypeOK
  <2> HIDE DEF Keeps
  <2> QED BY <2>1, <2>2, <2>3, <2>4, <2>5, <2>6, <2>7, <2>8, <2>9, NextCases
<1> QED BY <1>2, <1>3, <1>4

\* A process that has committed will not ask again.
LEMMA CommitIsLast ==
    ASSUME IInv, CommitSure, NEW p \in Process, Commit(p)
    PROVE  cur[p] \in Anomaly /\ explanation'[cur[p]] # 0
<1>1. pc[p] = "commit" /\ MakeDurable(p)
  BY DEF Commit
<1>2. cur[p] \in Anomaly /\ reply[p] \in DOMAIN replies[cur[p]]
  BY <1>1 DEF IInv, OnRecord, Busy, DraftHonest, TypeOK
<1>3. replies[cur[p]] \in Seq([shown : SUBSET Article, cites : SUBSET Article])
  BY <1>2 DEF IInv, TypeOK
<1>4. reply[p] # 0
  BY <1>2, <1>3
<1> QED BY <1>1, <1>2, <1>4 DEF CommitSure, MakeDurable

\* No step lets anybody pay again, but for a failure, which lets one process do so
\* for one anomaly, and for the detection of a new anomaly; and a call is paid for
\* by a process that might.
LEMMA MayPayStep ==
    ASSUME IInv, CommitSure, [Next]_vars
    PROVE  \/ /\ UNCHANGED <<calls, Explicable>> /\ faults' >= faults
              /\ \A q \in Process, b \in Anomaly : MayPay(q, b)' => MayPay(q, b)
           \/ /\ UNCHANGED <<calls, Explicable>> /\ faults' = faults + 1
              /\ \E p \in Process : \A q \in Process, b \in Anomaly :
                    MayPay(q, b)' => MayPay(q, b) \/ (q = p /\ b = cur[p])
           \/ \E a \in Anomaly :
                /\ a \notin Explicable /\ Explicable' = Explicable \cup {a}
                /\ UNCHANGED <<calls, faults>>
                /\ \A q \in Process, b \in Anomaly : MayPay(q, b)' => MayPay(q, b) \/ b = a
           \/ \E p \in Process, a \in Anomaly :
                /\ calls' = calls + 1 /\ UNCHANGED <<faults, Explicable>>
                /\ MayPay(p, a)
                /\ \A q \in Process, b \in Anomaly :
                      MayPay(q, b)' => MayPay(q, b) /\ <<q, b>> # <<p, a>>
<1> USE DEF Goto, db, rows, tick, work, spending, Busy
<1>1. TypeOK /\ faults \in Nat
  <2>1. TypeOK
    BY DEF IInv
  <2>2. faults \in Nat
    BY <2>1, ExplainCountsAssumption DEF TypeOK
  <2> QED BY <2>1, <2>2
<1>2. \A a \in Anomaly : explanation'[a] = 0 => explanation[a] = 0
  BY ExplainedStay
<1> DEFINE Quiet ==
        /\ UNCHANGED <<calls, detected>> /\ faults' >= faults
        /\ \A q \in Process, b \in Anomaly : MayPay(q, b)' => MayPay(q, b)
           Fails ==
        /\ UNCHANGED <<calls, detected>> /\ faults' = faults + 1
        /\ \E p \in Process : \A q \in Process, b \in Anomaly :
              MayPay(q, b)' => MayPay(q, b) \/ (q = p /\ b = cur[p])
           Detects == \E a \in Anomaly :
        /\ a \notin Explicable /\ Explicable' = Explicable \cup {a}
        /\ UNCHANGED <<calls, faults>>
        /\ \A q \in Process, b \in Anomaly : MayPay(q, b)' => MayPay(q, b) \/ b = a
           Asks == \E p \in Process, a \in Anomaly :
        /\ calls' = calls + 1 /\ UNCHANGED <<faults, detected>>
        /\ MayPay(p, a)
        /\ \A q \in Process, b \in Anomaly :
              MayPay(q, b)' => MayPay(q, b) /\ <<q, b>> # <<p, a>>
           SameMayPay == \A q \in Process, b \in Anomaly : MayPay(q, b)' => MayPay(q, b)
<1>3. ASSUME UNCHANGED <<pc, cur, Explicable>> PROVE SameMayPay
  BY <1>2, <1>3 DEF MayPay
<1>4. ASSUME UNCHANGED <<pc, cur, detected, calls, faults>> PROVE Quiet
  <2>1. UNCHANGED Explicable
    BY <1>4 DEF Explicable
  <2> QED BY <1>1, <1>3, <1>4, <2>1
<1>5. ASSUME UNCHANGED vars PROVE Quiet
  BY <1>4, <1>5 DEF vars
<1>6. ASSUME NEW a \in Anomaly, Detect(a)
      PROVE  \/ UNCHANGED <<Explicable, calls, faults>> /\ SameMayPay
             \/ Detects
  <2>1. UNCHANGED <<pc, cur, explanation, calls, faults>>
        /\ detected' = detected \cup {a} /\ a \notin detected
    BY <1>6 DEF Detect
  <2>2. CASE a \in Unparseable
    <3>1. UNCHANGED Explicable
      BY <2>1, <2>2 DEF Explicable
    <3> QED BY <1>3, <2>1, <3>1
  <2>3. CASE a \notin Unparseable
    <3>1. a \notin Explicable /\ Explicable' = Explicable \cup {a}
      BY <2>1, <2>3 DEF Explicable
    <3>2. \A q \in Process, b \in Anomaly : MayPay(q, b)' => MayPay(q, b) \/ b = a
      BY <2>1, <3>1 DEF MayPay
    <3> QED BY <2>1, <3>1, <3>2
  <2> QED BY <2>2, <2>3
<1>7. ASSUME NEW n \in Article, NEW s \in Asset, IngestNews(n, s) PROVE Quiet
  BY <1>4, <1>7 DEF IngestNews
<1>8. ASSUME NEW p \in Process, NEW a \in Anomaly, Skip(p, a) PROVE Quiet
  BY <1>4, <1>8 DEF Skip
<1>9. ASSUME NEW p \in Process, StartTick(p) \/ EndBatch(p) \/ Restart(p) \/ Store(p) PROVE Quiet
  <2>1. UNCHANGED <<cur, detected, explanation, calls, faults>>
    BY <1>9 DEF StartTick, EndBatch, Restart, Store
  <2>2. \A q \in Process : Busy(q) => Busy(q)'
    BY <1>1, <1>9 DEF StartTick, EndBatch, Restart, Store, TypeOK
  <2>3. SameMayPay
    BY <2>1, <2>2 DEF MayPay, Explicable
  <2> QED BY <1>1, <2>1, <2>3
<1>10. ASSUME NEW p \in Process, NEW indices \in SUBSET Indices, GoodReply(p, indices) PROVE Quiet
  <2>1. UNCHANGED <<cur, detected, explanation, calls, faults>>
    BY <1>10 DEF GoodReply
  <2>2. \A q \in Process : Busy(q) => Busy(q)'
    BY <1>1, <1>10 DEF GoodReply, TypeOK
  <2>3. SameMayPay
    BY <2>1, <2>2 DEF MayPay, Explicable
  <2> QED BY <1>1, <2>1, <2>3
<1>11. ASSUME NEW p \in Process, NEW label \in {"next", "idle", "down"},
              EndTransaction(p), pc' = [pc EXCEPT ![p] = label], UNCHANGED detected
       PROVE  \A q \in Process, b \in Anomaly :
                  MayPay(q, b)' => MayPay(q, b) \/ (q = p /\ b = cur[p])
  <2>1. \A q \in Process : q # p => (Busy(q)' <=> Busy(q)) /\ cur'[q] = cur[q]
    BY <1>1, <1>11 DEF EndTransaction, TypeOK
  <2> QED BY <1>2, <1>11, <2>1 DEF MayPay, Explicable
<1>12. ASSUME NEW p \in Process, Commit(p) PROVE Quiet
  <2>1. cur[p] \in Anomaly /\ explanation'[cur[p]] # 0
    BY <1>12, CommitIsLast
  <2>2. EndTransaction(p) /\ pc' = [pc EXCEPT ![p] = "next"] /\ UNCHANGED <<detected, calls, faults>>
    BY <1>12 DEF Commit
  <2>3. \A q \in Process, b \in Anomaly : MayPay(q, b)' => b # cur[p]
    BY <2>1 DEF MayPay
  <2>4. SameMayPay
    BY <1>11, <2>2, <2>3
  <2> QED BY <1>1, <2>2, <2>4
<1>13. ASSUME NEW p \in Process, MalformedReply(p) PROVE Quiet \/ Fails
  <2>1. EndTransaction(p) /\ pc' = [pc EXCEPT ![p] = "next"] /\ UNCHANGED <<detected, calls>>
    BY <1>13 DEF MalformedReply, DiscardReply, OnMalformed
  <2>2. CASE cur[p] \in Unparseable
    <3>1. \A q \in Process, b \in Anomaly : MayPay(q, b)' => b # cur[p]
      BY <2>2 DEF MayPay, Explicable
    <3>2. SameMayPay
      BY <1>11, <2>1, <3>1
    <3>3. faults' = faults
      BY <1>13, <2>2 DEF MalformedReply
    <3> QED BY <1>1, <2>1, <3>2, <3>3
  <2>3. CASE cur[p] \notin Unparseable
    <3>1. faults' = faults + 1
      BY <1>13, <2>3 DEF MalformedReply, Fault
    <3> QED BY <1>11, <2>1, <3>1
  <2> QED BY <2>2, <2>3
<1>14. ASSUME NEW p \in Process, Unavailable(p) \/ Raise(p) \/ Crash(p) PROVE Fails
  <2>1. /\ faults' = faults + 1 /\ EndTransaction(p) /\ UNCHANGED <<detected, calls>>
        /\ pc' = [pc EXCEPT ![p] = "idle"] \/ pc' = [pc EXCEPT ![p] = "down"]
    BY <1>14 DEF Unavailable, Raise, Crash, Fault
  <2> QED BY <1>11, <2>1
<1>15. ASSUME NEW p \in Process, NEW a \in Anomaly, Ask(p, a) PROVE Quiet \/ Asks
  <2>1. /\ pc[p] = "next" /\ a \in queue[p] /\ explanation[a] = 0
        /\ cur' = [cur EXCEPT ![p] = a] /\ pc' = [pc EXCEPT ![p] = "call"]
        /\ UNCHANGED <<detected, explanation, faults>>
        /\ calls' = IF a \in Unparseable THEN calls ELSE calls + 1
    BY <1>15 DEF Ask, Take, Explained, Charge
  <2>2. a \in detected
    BY <2>1 DEF IInv, OnRecord
  <2>3. pc'[p] = "call" /\ cur'[p] = a
        /\ \A q \in Process : q # p => pc'[q] = pc[q] /\ cur'[q] = cur[q]
    BY <1>1, <2>1 DEF TypeOK
  <2>4. \A q \in Process, b \in Anomaly : MayPay(q, b)' => MayPay(q, b) /\ <<q, b>> # <<p, a>>
    <3> SUFFICES ASSUME NEW q \in Process, NEW b \in Anomaly, MayPay(q, b)'
                 PROVE  MayPay(q, b) /\ (q = p => b # a)
      OBVIOUS
    <3>1. b \in Explicable /\ explanation[b] = 0 /\ ~(Busy(q)' /\ cur'[q] = b)
      BY <2>1 DEF MayPay, Explicable
    <3> QED BY <2>1, <2>3, <3>1 DEF MayPay
  <2>5. CASE a \in Unparseable
    BY <1>1, <2>1, <2>4, <2>5
  <2>6. CASE a \notin Unparseable
    <3>1. MayPay(p, a)
      BY <2>1, <2>2, <2>6 DEF MayPay, Explicable
    <3> QED BY <2>1, <2>4, <2>6, <3>1
  <2> QED BY <2>5, <2>6
<1>16. UNCHANGED detected => UNCHANGED Explicable
  BY DEF Explicable
<1> DEFINE Still == UNCHANGED <<Explicable, calls, faults>> /\ SameMayPay
<1>17. Quiet \/ Fails \/ Detects \/ Asks \/ Still
  <2> HIDE DEF Quiet, Fails, Detects, Asks, Still
  <2>1. ASSUME NEW a \in Anomaly, Detect(a) PROVE Still \/ Detects
    BY <1>6, <2>1 DEF Still
  <2>2. ASSUME NEW p \in Process, Unavailable(p) \/ Raise(p) \/ Crash(p) PROVE Fails
    BY <1>14, <2>2
  <2> QED BY <1>5, <2>1, <1>7, <1>8, <1>9, <1>10, <1>12, <1>13, <1>14, <1>15, NextCases
<1>18. faults >= faults
  BY <1>1
<1> QED BY <1>16, <1>17, <1>18

\* What is counted is finite.
LEMMA SpendFinite ==
    ASSUME IsFiniteSet(Process), TypeOK
    PROVE  /\ Cardinality(Process) \in Nat
           /\ IsFiniteSet(StillToPay) /\ Cardinality(StillToPay) \in Nat
           /\ IsFiniteSet(Explicable) /\ Cardinality(Explicable) \in Nat
<1>1. IsFiniteSet(Anomaly)
  BY ExplainCountsAssumption, FS_Interval DEF Anomaly
<1>2. IsFiniteSet(Process \X Anomaly)
  BY <1>1, FS_Product
<1>3. StillToPay \in SUBSET (Process \X Anomaly) /\ Explicable \in SUBSET Anomaly
  BY DEF StillToPay, Explicable, TypeOK
<1> QED BY <1>1, <1>2, <1>3, FS_Subset, FS_CardinalityType

\* One more element adds at most one.
LEMMA AtMostOneMore ==
    ASSUME NEW S, IsFiniteSet(S), NEW x
    PROVE  /\ IsFiniteSet(S \cup {x}) /\ Cardinality(S \cup {x}) \in Nat
           /\ Cardinality(S \cup {x}) <= Cardinality(S) + 1
<1>1. Cardinality(S) \in Nat
  BY FS_CardinalityType
<1>2. CASE x \in S
  <2>1. S \cup {x} = S
    BY <1>2
  <2>2. IsFiniteSet(S \cup {x}) /\ Cardinality(S \cup {x}) = Cardinality(S)
    BY <2>1, Zenon
  <2> QED BY <1>1, <2>2
<1>3. CASE x \notin S
  BY <1>1, <1>3, FS_AddElement
<1> QED BY <1>2, <1>3

LEMMA SpendInductive ==
    ASSUME IsFiniteSet(Process), IInv, SInv, [Next]_vars
    PROVE  SInv'
<1> DEFINE N == Cardinality(Process)
           still == Cardinality(StillToPay)
           known == Cardinality(Explicable)
<1>1. TypeOK /\ TypeOK' /\ CommitSure
  BY IInvNext DEF IInv, SInv
<1>2. /\ faults \in Nat /\ faults' \in Nat /\ calls \in Nat /\ calls' \in Nat
      /\ N \in Nat /\ still \in Nat /\ known \in Nat
      /\ IsFiniteSet(StillToPay) /\ IsFiniteSet(Explicable)
  <2>1. faults \in Nat /\ faults' \in Nat /\ calls \in Nat /\ calls' \in Nat
    BY <1>1, ExplainCountsAssumption DEF TypeOK
  <2> QED BY <1>1, <2>1, SpendFinite
<1>3. calls + still <= N * known + faults
  BY DEF SInv, SpendAllowed
<1>4. N * known \in Nat
  BY <1>2
<1> HIDE DEF N, still, known
<1>5. ASSUME UNCHANGED <<calls, Explicable>>, faults' >= faults,
             \A q \in Process, b \in Anomaly : MayPay(q, b)' => MayPay(q, b)
      PROVE  SpendAllowed'
  <2>1. StillToPay' \in SUBSET StillToPay
    BY <1>5 DEF StillToPay
  <2>2. Cardinality(StillToPay') \in Nat /\ Cardinality(StillToPay') <= still
    BY <1>2, <2>1, FS_Subset, FS_CardinalityType DEF still
  <2>3. calls' + Cardinality(StillToPay') <= N * known + faults'
    BY <1>2, <1>3, <1>4, <1>5, <2>2
  <2>4. Explicable' = Explicable
    BY <1>5
  <2> QED BY <2>3, <2>4 DEF SpendAllowed, N, known
<1>6. ASSUME NEW p \in Process, UNCHANGED <<calls, Explicable>>, faults' = faults + 1,
             \A q \in Process, b \in Anomaly :
                MayPay(q, b)' => MayPay(q, b) \/ (q = p /\ b = cur[p])
      PROVE  SpendAllowed'
  <2> DEFINE More == StillToPay \cup {<<p, cur[p]>>}
  <2>1. StillToPay' \in SUBSET More
    BY <1>6 DEF StillToPay
  <2>2. IsFiniteSet(More) /\ Cardinality(More) \in Nat /\ Cardinality(More) <= still + 1
    BY <1>2, AtMostOneMore DEF still
  <2> HIDE DEF More
  <2>3. Cardinality(StillToPay') \in Nat /\ Cardinality(StillToPay') <= Cardinality(More)
    BY <2>1, <2>2, FS_Subset, FS_CardinalityType
  <2>4. calls' + Cardinality(StillToPay') <= N * known + faults'
    BY <1>2, <1>3, <1>4, <1>6, <2>2, <2>3
  <2>5. Explicable' = Explicable
    BY <1>6
  <2> QED BY <2>4, <2>5 DEF SpendAllowed, N, known
<1>7. ASSUME NEW a \in Anomaly,
             a \notin Explicable, Explicable' = Explicable \cup {a},
             UNCHANGED <<calls, faults>>,
             \A q \in Process, b \in Anomaly : MayPay(q, b)' => MayPay(q, b) \/ b = a
      PROVE  SpendAllowed'
  <2> DEFINE All == Process \X {a}
             More == StillToPay \cup All
  <2>1. IsFiniteSet(All) /\ Cardinality(All) = N * 1
    <3>1. IsFiniteSet({a}) /\ Cardinality({a}) = 1
      BY FS_Singleton
    <3>2. IsFiniteSet(All) /\ Cardinality(All) = Cardinality(Process) * Cardinality({a})
      BY <3>1, FS_Product
    <3> QED BY <3>1, <3>2 DEF N
  <2>2. StillToPay' \in SUBSET More
    BY <1>7 DEF StillToPay
  <2> HIDE DEF All
  <2>3. /\ IsFiniteSet(More)
        /\ Cardinality(More) = still + Cardinality(All) - Cardinality(StillToPay \cap All)
        /\ Cardinality(StillToPay \cap All) \in Nat
    <3>1. StillToPay \cap All \in SUBSET All
      OBVIOUS
    <3> QED BY <1>2, <2>1, <3>1, FS_Union, FS_Subset, FS_CardinalityType DEF still
  <2> HIDE DEF More
  <2>4. Cardinality(StillToPay') \in Nat /\ Cardinality(StillToPay') <= Cardinality(More)
    BY <2>2, <2>3, FS_Subset, FS_CardinalityType
  <2>5. Cardinality(StillToPay') <= still + N
    <3>1. Cardinality(More) \in Nat
      BY <2>3, FS_CardinalityType
    <3> QED BY <1>2, <2>1, <2>3, <2>4, <3>1
  <2>6. Cardinality(Explicable') = known + 1
    BY <1>2, <1>7, FS_AddElement DEF known
  <2>7. N * (known + 1) = N * known + N
    BY <1>2
  <2>8. calls' + Cardinality(StillToPay') <= N * Cardinality(Explicable') + faults'
    BY <1>2, <1>3, <1>4, <1>7, <2>4, <2>5, <2>6, <2>7
  <2> QED BY <2>8 DEF SpendAllowed, N
<1>8. ASSUME NEW p \in Process, NEW a \in Anomaly,
             calls' = calls + 1, UNCHANGED <<faults, Explicable>>, MayPay(p, a),
             \A q \in Process, b \in Anomaly :
                MayPay(q, b)' => MayPay(q, b) /\ <<q, b>> # <<p, a>>
      PROVE  SpendAllowed'
  <2>1. <<p, a>> \in StillToPay
    BY <1>8 DEF StillToPay
  <2>2. StillToPay' \in SUBSET (StillToPay \ {<<p, a>>})
    BY <1>8 DEF StillToPay
  <2>3. /\ IsFiniteSet(StillToPay \ {<<p, a>>})
        /\ Cardinality(StillToPay \ {<<p, a>>}) = still - 1
    BY <1>2, <2>1, FS_RemoveElement DEF still
  <2>4. Cardinality(StillToPay') \in Nat /\ Cardinality(StillToPay') <= still - 1
    BY <2>2, <2>3, FS_Subset, FS_CardinalityType
  <2>5. calls' + Cardinality(StillToPay') <= N * known + faults'
    BY <1>2, <1>3, <1>4, <1>8, <2>4
  <2>6. Explicable' = Explicable
    BY <1>8
  <2> QED BY <2>5, <2>6 DEF SpendAllowed, N, known
<1>9. SpendAllowed'
  BY <1>1, <1>5, <1>6, <1>7, <1>8, MayPayStep
<1>10. CommitSure'
  BY <1>1, CommitSureInductive
<1> QED BY <1>9, <1>10 DEF SInv

LEMMA SpendInit ==
    ASSUME IsFiniteSet(Process), Init
    PROVE  SInv
<1>1. StillToPay = {} /\ Explicable = {} /\ calls = 0 /\ faults = 0
  BY DEF Init, StillToPay, MayPay, Explicable
<1>2. Cardinality(Process) \in Nat /\ Cardinality({}) = 0
  BY FS_EmptySet, FS_CardinalityType
<1>3. SpendAllowed
  BY <1>1, <1>2 DEF SpendAllowed
<1> QED BY <1>3 DEF Init, SInv, CommitSure

\* Of the anomalies whose replies can be used, each is paid for no more than once
\* per process, and once more for each failure, whatever the order in which
\* processes find it unexplained, wait for the model and store what it said, and
\* whatever became of the call.
THEOREM SpendIsBounded ==
    ASSUME IsFiniteSet(Process)
    PROVE  Spec => []SpendBounded
<1>1. IInv /\ SInv => SpendBounded
  <2> SUFFICES ASSUME IInv, SInv PROVE SpendBounded
    OBVIOUS
  <2>1. TypeOK
    BY DEF IInv
  <2>2. calls \in Nat /\ faults \in Nat
    BY <2>1, ExplainCountsAssumption DEF TypeOK
  <2>3. Cardinality(StillToPay) \in Nat /\ Cardinality(Explicable) \in Nat
        /\ Cardinality(Process) \in Nat
    BY <2>1, SpendFinite
  <2>4. Cardinality(Process) * Cardinality(Explicable) \in Nat
    BY <2>3
  <2> QED BY <2>2, <2>3, <2>4 DEF SInv, SpendAllowed, SpendBounded, Explicable
<1>2. Init => SInv
  BY SpendInit
<1>3. IInv /\ SInv /\ [Next]_vars => SInv'
  BY SpendInductive
<1> QED BY <1>1, <1>2, <1>3, Invariance, PTL DEF Spec

\* What a tick has paid for and what it may yet pay for fit a batch.
TickAllowed == \A p \in Process : spent[p] + Cardinality(queue[p]) <= EXPLAIN_BATCH

LEMMA QueueFact ==
    ASSUME TypeOK
    PROVE  /\ EXPLAIN_BATCH \in Nat
           /\ \A p \in Process : /\ queue[p] \in SUBSET Anomaly /\ IsFiniteSet(queue[p])
                                 /\ Cardinality(queue[p]) \in Nat /\ spent[p] \in Nat
<1>1. IsFiniteSet(Anomaly)
  BY ExplainCountsAssumption, FS_Interval DEF Anomaly
<1>2. \A p \in Process : queue[p] \in SUBSET Anomaly /\ spent[p] \in Nat
  BY DEF TypeOK
<1> QED BY <1>1, <1>2, FS_Subset, FS_CardinalityType, ExplainCountsAssumption

LEMMA TickInductive ==
    ASSUME IInv, TickAllowed, [Next]_vars
    PROVE  TickAllowed'
<1> USE DEF Goto, db, rows, tick, work, spending
<1>1. TypeOK
  BY DEF IInv
<1>2. /\ EXPLAIN_BATCH \in Nat
      /\ \A p \in Process : /\ IsFiniteSet(queue[p]) /\ Cardinality(queue[p]) \in Nat
                            /\ spent[p] \in Nat
  BY <1>1, QueueFact
<1> SUFFICES ASSUME NEW q \in Process
             PROVE  spent'[q] + Cardinality(queue'[q]) <= EXPLAIN_BATCH
  BY DEF TickAllowed
<1> DEFINE Goal == spent'[q] + Cardinality(queue'[q]) <= EXPLAIN_BATCH
<1>3. ASSUME spent'[q] = spent[q], queue'[q] = queue[q] PROVE Goal
  BY <1>3 DEF TickAllowed
<1>4. ASSUME spent'[q] = spent[q], queue'[q] = {} PROVE Goal
  <2>1. Cardinality(queue'[q]) = 0
    BY <1>4, FS_EmptySet
  <2> QED BY <1>2, <1>4, <2>1 DEF TickAllowed
<1>5. ASSUME UNCHANGED <<spent, queue>> PROVE Goal
  BY <1>3, <1>5
<1>6. ASSUME NEW p \in Process, NEW a \in Anomaly, Take(p, a),
             spent' = spent \/ spent' = [spent EXCEPT ![p] = @ + 1]
      PROVE  Goal
  <2>1. CASE q # p
    <3>1. spent'[q] = spent[q] /\ queue'[q] = queue[q]
      BY <1>1, <1>6, <2>1 DEF Take, TypeOK
    <3> QED BY <1>3, <3>1
  <2>2. CASE q = p
    <3>1. a \in queue[q] /\ queue'[q] = queue[q] \ {a}
      BY <1>1, <1>6, <2>2 DEF Take, TypeOK
    <3>2. IsFiniteSet(queue[q])
      BY <1>2
    <3>3. Cardinality(queue[q] \ {a}) = Cardinality(queue[q]) - 1
      BY <3>1, <3>2, FS_RemoveElement
    <3>4. spent'[q] = spent[q] \/ spent'[q] = spent[q] + 1
      BY <1>1, <1>6, <2>2 DEF TypeOK
    <3> QED BY <1>2, <3>1, <3>3, <3>4 DEF TickAllowed
  <2> QED BY <2>1, <2>2
<1>7. ASSUME NEW p \in Process, NEW a \in Anomaly, Skip(p, a) \/ Ask(p, a) PROVE Goal
  BY <1>6, <1>7 DEF Skip, Ask, Charge
<1>8. ASSUME NEW p \in Process, StartTick(p) PROVE Goal
  <2>1. CASE q # p
    <3>1. spent'[q] = spent[q] /\ queue'[q] = queue[q]
      BY <1>1, <1>8, <2>1 DEF StartTick, TypeOK
    <3> QED BY <1>3, <3>1
  <2>2. CASE q = p
    <3>1. spent'[q] = 0 /\ queue'[q] = Backlog
      BY <1>1, <1>8, <2>2 DEF StartTick, TypeOK
    <3>2. Cardinality(Backlog) <= EXPLAIN_BATCH /\ Cardinality(Backlog) \in Nat
      <4>1. Backlog \subseteq Anomaly /\ Cardinality(Backlog) <= EXPLAIN_BATCH
        BY <1>1, BacklogFact DEF TypeOK
      <4>2. IsFiniteSet(Anomaly)
        BY ExplainCountsAssumption, FS_Interval DEF Anomaly
      <4> QED BY <4>1, <4>2, FS_Subset, FS_CardinalityType
    <3> QED BY <1>2, <3>1, <3>2
  <2> QED BY <2>1, <2>2
<1>9. ASSUME NEW p \in Process, Unavailable(p) \/ Raise(p) \/ Crash(p) PROVE Goal
  <2>1. UNCHANGED spent /\ queue' = [queue EXCEPT ![p] = {}]
    BY <1>9 DEF Unavailable, Raise, Crash
  <2> QED BY <1>1, <1>3, <1>4, <2>1 DEF TypeOK
<1>10. \/ UNCHANGED <<spent, queue>>
       \/ \E p \in Process, a \in Anomaly : Skip(p, a) \/ Ask(p, a)
       \/ \E p \in Process : StartTick(p) \/ Unavailable(p) \/ Raise(p) \/ Crash(p)
  BY NextCases DEF vars, Detect, IngestNews, EndBatch, Store, Commit, Restart,
     GoodReply, MalformedReply, DiscardReply, OnMalformed
<1> HIDE DEF Goal
<1>11. Goal
  BY <1>5, <1>7, <1>8, <1>9, <1>10
<1> QED BY <1>11 DEF Goal

\* A tick makes no more calls than a batch holds, whatever the replies are worth,
\* and however often the anomalies it meets were asked about in earlier ticks.
THEOREM TickSpendIsBounded == Spec => []TickSpendBounded
<1>1. Init => TickAllowed
  BY FS_EmptySet, ExplainCountsAssumption DEF Init, TickAllowed
<1>2. IInv /\ TickAllowed /\ [Next]_vars => TickAllowed'
  BY TickInductive
<1>3. IInv /\ TickAllowed => TickSpendBounded
  <2> SUFFICES ASSUME IInv, TickAllowed, NEW p \in Process PROVE spent[p] <= EXPLAIN_BATCH
    BY DEF TickSpendBounded
  <2>1. EXPLAIN_BATCH \in Nat /\ Cardinality(queue[p]) \in Nat /\ spent[p] \in Nat
    BY QueueFact DEF IInv
  <2> QED BY <2>1 DEF TickAllowed
<1> QED BY <1>1, <1>2, <1>3, Invariance, PTL DEF Spec

(***************************************************************************)
(* The explain job implements Explanations.                                *)
(***************************************************************************)

LEMMA PromiseInit == Init => Promise!Init
  BY DEF Init, Promise!Init

LEMMA PromiseNext == IInv /\ [Next]_vars => [Promise!Next]_Promise!vars
<1> SUFFICES ASSUME IInv, [Next]_vars PROVE [Promise!Next]_Promise!vars
  OBVIOUS
<1> DEFINE Stored == {n \in Article : news[n] # NoAsset}
<1>1. CASE UNCHANGED <<detected, news, rows, replies>>
  BY <1>1 DEF Promise!vars, rows
<1>2. ASSUME NEW a \in Anomaly, Detect(a) PROVE Promise!Next
  BY <1>2 DEF Detect, rows, Promise!Next, Promise!Detect
<1>3. ASSUME NEW n \in Article, NEW s \in Asset, IngestNews(n, s) PROVE Promise!Next
  <2>1. s # NoAsset /\ n \notin Stored
    BY <1>3, ExplainNamesAssumption DEF IngestNews
  <2>2. Stored' = Stored \cup {n}
    BY <1>3, <2>1 DEF IngestNews, IInv, TypeOK
  <2>3. Promise!Publish(n)
    BY <1>3, <2>1, <2>2 DEF IngestNews, rows, Promise!Publish
  <2> QED BY <2>3 DEF Promise!Next
<1>4. ASSUME NEW p \in Process, NEW indices \in SUBSET Indices, GoodReply(p, indices)
      PROVE  Promise!Next
  <2> DEFINE shown == Range(candidates[p])
             cites == Meant(p, indices)
  <2>1. cur[p] \in detected /\ cur[p] \in Anomaly /\ pc[p] = "call"
    BY <1>4 DEF GoodReply, IInv, OnRecord, Busy, TypeOK
  <2>2. cites \in SUBSET shown
    BY DEF Meant, Range
  <2>3. shown \subseteq Related(cur[p])
    BY <2>1 DEF IInv, ShownRelated
  <2>4. Related(cur[p]) \subseteq
          Stored \cap {n \in Article : /\ AssetOf[cur[p]] \in About[n]
                                       /\ BarDay[cur[p]] - NEWS_WINDOW <= Published[n]
                                       /\ Published[n] < BarDay[cur[p]] + BAR_SPAN}
    <3>1. AssetOf[cur[p]] # NoAsset
      BY <2>1, ExplainNamesAssumption DEF Asset
    <3> QED BY <2>1, <3>1 DEF Related, InWindow, IInv, NewsCarried
  <2>5. Promise!Reply(cur[p], shown, cites)
    BY <1>4 DEF GoodReply, db, rows, Promise!Reply
  <2> HIDE DEF shown, cites
  <2> QED BY <2>1, <2>2, <2>3, <2>4, <2>5 DEF Promise!Next
<1>5. ASSUME NEW p \in Process,
             cur[p] \in Anomaly, pc[p] = "commit", explanation[cur[p]] = 0,
             explanation' = [explanation EXCEPT ![cur[p]] = reply[p]],
             evidence' = [evidence EXCEPT ![cur[p]] = draft[p]],
             UNCHANGED <<detected, news, replies>>
      PROVE  Promise!Next
  <2>1. reply[p] \in DOMAIN replies[cur[p]] /\ draft[p] = replies[cur[p]][reply[p]].cites
    BY <1>5 DEF IInv, DraftHonest
  <2>2. Promise!Record(cur[p], reply[p])
    BY <1>5, <2>1 DEF Promise!Record
  <2> QED BY <1>5, <2>1, <2>2 DEF Promise!Next
<1>6. \/ UNCHANGED <<detected, news, replies>>
      \/ \E a \in Anomaly : Detect(a)
      \/ \E n \in Article, s \in Asset : IngestNews(n, s)
      \/ \E p \in Process, indices \in SUBSET Indices : GoodReply(p, indices)
  BY NextCases DEF vars, db, StartTick, EndBatch, Store, Commit, Restart, Skip, Ask,
     MalformedReply, DiscardReply, Unavailable, Raise, Crash
<1> QED BY <1>1, <1>2, <1>3, <1>4, <1>5, <1>6, RowsChange DEF IInv

\* Processes, transactions, races, failures and restarts: all of it amounts to
\* usable replies for detected anomalies, of which one is put on record, once, with
\* the evidence of that reply.
THEOREM Implementation == Spec => ImplementsExplanations
<1>1. Spec => Promise!Spec
  BY PromiseInit, PromiseNext, Invariance, PTL DEF Spec, Promise!Spec
<1> QED BY <1>1 DEF ImplementsExplanations
=============================================================================
