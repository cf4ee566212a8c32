------------------------------ MODULE ExplainJob ------------------------------
(***************************************************************************)
(* The explain job of the recommend domain: ingest/jobs.py (run_audited,   *)
(* explain_anomalies), ingest/explain.py (explain_anomaly),                *)
(* domain/explanation.py (parse_reply, assemble_explanation) and           *)
(* store/repositories.py (unexplained, recent_for_symbol, for_anomaly,     *)
(* upsert), over the news that ingest_news stores meanwhile.               *)
(*                                                                         *)
(* explain_anomaly checks that the anomaly has no explanation, reads the   *)
(* news, spends an LLM call, and inserts the answer: a check, a long await *)
(* and an act, with no lock in between.  Processes and transactions are    *)
(* those of NotifyJob; an anomaly is a number in (bar_ts, id) order, an    *)
(* article a number in published_at order, and a usable reply is known by  *)
(* its number: the first, the second ... accepted for its anomaly.  What   *)
(* is paid for is the call, whatever comes of it.  The audit row of        *)
(* run_audited is NotifyJob's subject and left out here.                   *)
(***************************************************************************)
EXTENDS Integers, Sequences, SequencesExt, FiniteSets

CONSTANTS
    Process,        \* the operating-system processes that run the job
    NoProcess,      \* "nobody has inserted the row"
    NAnomalies,     \* how many anomalies are ever detected
    Unparseable,    \* anomalies whose every reply breaks the JSON contract
    EXPLAIN_BATCH,  \* jobs.EXPLAIN_BATCH
    NArticles,      \* how many articles are ever published
    AssetOf,        \* AssetOf[a]: the asset whose bar tripped
    BarDay,         \* BarDay[a]: the day its bar opened
    About,          \* About[n]: the assets whose news feed carries article n
    Published,      \* Published[n]: the day n was published
    NEWS_WINDOW, BAR_SPAN, MAX_NEWS,    \* explain.NEWS_WINDOW, BAR_SPAN, MAX_NEWS
    NoAsset,        \* "not stored"
    MaxFaults       \* bound: failures of the provider, the database and processes

Anomaly == 1..NAnomalies
Article == 1..NArticles
Asset == {AssetOf[a] : a \in Anomaly} \cup UNION {About[n] : n \in Article}

ASSUME ExplainCountsAssumption ==
    NAnomalies \in Nat /\ EXPLAIN_BATCH \in Nat \ {0} /\ MaxFaults \in Nat
ASSUME ExplainNamesAssumption ==
    NoProcess \notin Process /\ Unparseable \subseteq Anomaly /\ NoAsset \notin Asset
ASSUME NewsAssumption ==
    /\ NArticles \in Nat /\ MAX_NEWS \in Nat /\ NEWS_WINDOW \in Nat /\ BAR_SPAN \in Nat
    /\ DOMAIN AssetOf = Anomaly /\ BarDay \in [Anomaly -> Int]
    /\ DOMAIN About = Article /\ Published \in [Article -> Int]
    /\ \A m, n \in Article : m <= n => Published[m] <= Published[n]

VARIABLES
    \* Postgres
    detected,       \* anomalies with a committed row
    news,           \* news[n]: the asset whose row article n is, or NoAsset
    explanation,    \* explanation[a]: the reply committed for a, 0 for no row
    evidence,       \* evidence[a]: the articles its row cites (and always a's own bar)
    inserting,      \* inserting[a]: whose open transaction has inserted a's row
    \* one tick of the job in a process
    pc, queue, cur,
    candidates,     \* candidates[p]: the articles shown to the model, newest first
    reply,          \* reply[p]: the reply p has parsed, 0 for none
    draft,          \* draft[p]: the articles p is to store as evidence
    \* what happened (history), and the bound
    replies,        \* replies[a]: what each usable reply for a was shown and what it cites
    calls,          \* LLM calls made, but for those about anomalies in Unparseable
    spent,          \* spent[p]: LLM calls p has made in its newest tick
    faults          \* failures so far

rows == <<explanation, evidence>>
db == <<detected, news, rows, inserting>>
work == <<candidates, reply, draft>>
tick == <<pc, queue, cur, work>>
spending == <<calls, spent>>
vars == <<db, tick, replies, spending, faults>>

NoAnomaly == 0

TypeOK ==
    /\ detected \subseteq Anomaly
    /\ news \in [Article -> Asset \cup {NoAsset}]
    /\ explanation \in [Anomaly -> Nat]
    /\ evidence \in [Anomaly -> SUBSET Article]
    /\ inserting \in [Anomaly -> Process \cup {NoProcess}]
    /\ pc \in [Process -> {"idle", "next", "call", "store", "commit", "down"}]
    /\ queue \in [Process -> {S \in SUBSET Anomaly : Cardinality(S) <= EXPLAIN_BATCH}]
    /\ cur \in [Process -> Anomaly \cup {NoAnomaly}]
    /\ candidates \in [Process -> {s \in Seq(Article) : Len(s) <= MAX_NEWS}]
    /\ reply \in [Process -> Nat]
    /\ draft \in [Process -> SUBSET Article]
    /\ replies \in [Anomaly -> Seq([shown : SUBSET Article, cites : SUBSET Article])]
    /\ calls \in Nat
    /\ spent \in [Process -> Nat]
    /\ faults \in 0..MaxFaults

Init ==
    /\ detected = {}
    /\ news = [n \in Article |-> NoAsset]
    /\ explanation = [a \in Anomaly |-> 0]
    /\ evidence = [a \in Anomaly |-> {}]
    /\ inserting = [a \in Anomaly |-> NoProcess]
    /\ pc = [p \in Process |-> "idle"]
    /\ queue = [p \in Process |-> {}]
    /\ cur = [p \in Process |-> NoAnomaly]
    /\ candidates = [p \in Process |-> <<>>]
    /\ reply = [p \in Process |-> 0]
    /\ draft = [p \in Process |-> {}]
    /\ replies = [a \in Anomaly |-> <<>>]
    /\ calls = 0
    /\ spent = [p \in Process |-> 0]
    /\ faults = 0

Goto(p, label) == pc' = [pc EXCEPT ![p] = label]

Fault == faults < MaxFaults /\ faults' = faults + 1

Explained == {a \in Anomaly : explanation[a] # 0}

\* How many elements of S are newer than x.
Above(S, x) == Cardinality({y \in S : y > x})

\* The n greatest elements of S: ORDER BY bar_ts DESC, id DESC LIMIT n.
Newest(S, n) == {x \in S : Above(S, x) < n}

\* S as a query with that ORDER BY returns it.
NewestFirst(S) == [k \in 1..Cardinality(S) |-> CHOOSE x \in S : Above(S, x) = k - 1]

\* AnomalyRepository.unexplained.
Backlog == Newest(detected \ Explained, EXPLAIN_BATCH)

\* A plausible slip: the window without its upper bound.
InWindow_Open(a, n) == BarDay[a] - NEWS_WINDOW <= Published[n]

\* "Later news can't explain an earlier move": the window ends at the bar's close.
InWindow(a, n) ==
    BarDay[a] - NEWS_WINDOW <= Published[n] /\ Published[n] < BarDay[a] + BAR_SPAN

Related(a) == {n \in Article : news[n] = AssetOf[a] /\ InWindow(a, n)}

\* A plausible slip: the query without its LIMIT.
Candidates_NoLimit(a) == NewestFirst(Related(a))

\* NewsRepository.recent_for_symbol, as explain_anomaly calls it.
Candidates(a) == NewestFirst(Newest(Related(a), MAX_NEWS))

\* Commit and rollback end p's uncommitted insert; p is done with the anomaly.
EndTransaction(p) ==
    /\ inserting' = [a \in Anomaly |-> IF inserting[a] = p THEN NoProcess ELSE inserting[a]]
    /\ cur' = [cur EXCEPT ![p] = NoAnomaly]
    /\ candidates' = [candidates EXCEPT ![p] = <<>>]
    /\ reply' = [reply EXCEPT ![p] = 0]
    /\ draft' = [draft EXCEPT ![p] = {}]

\* The detect job commits a new anomaly.
Detect(a) ==
    /\ a \notin detected
    /\ detected' = detected \cup {a}
    /\ UNCHANGED <<news, rows, inserting, tick, replies, spending, faults>>

\* ingest_news commits an article of asset s's feed.  The natural key (source,
\* external_id) names no asset: an article that two feeds carry is stored for
\* the one that brings it first, and DO NOTHING drops the other.
IngestNews(n, s) ==
    /\ s \in About[n]
    /\ news[n] = NoAsset
    /\ news' = [news EXCEPT ![n] = s]
    /\ UNCHANGED <<detected, rows, inserting, tick, replies, spending, faults>>

\* A tick starts: the work queue is read, once.
StartTick(p) ==
    /\ pc[p] = "idle"
    /\ queue' = [queue EXCEPT ![p] = Backlog]
    /\ spent' = [spent EXCEPT ![p] = 0]
    /\ Goto(p, "next")
    /\ UNCHANGED <<db, cur, work, replies, calls, faults>>

\* The loop takes the anomalies in the order the query returned them.
Take(p, a) ==
    /\ pc[p] = "next"
    /\ a \in queue[p]
    /\ \A b \in queue[p] : b <= a
    /\ queue' = [queue EXCEPT ![p] = @ \ {a}]

\* for_anomaly finds a committed row: nothing is spent or stored.
Skip(p, a) ==
    /\ Take(p, a)
    /\ a \in Explained
    /\ UNCHANGED <<db, pc, cur, work, replies, spending, faults>>

\* A call is paid for when it is made: its answer may break the contract, come too
\* late, or never.  No end of them is in sight for an anomaly in Unparseable, which
\* is asked about in every tick that its place in the backlog lets it into; there
\* only the tick's own count is kept.
Charge(p, a) ==
    /\ spent' = [spent EXCEPT ![p] = @ + 1]
    /\ calls' = IF a \in Unparseable THEN calls ELSE calls + 1

\* It finds none; the news are read and scored, and the call is made.
Ask(p, a) ==
    /\ Take(p, a)
    /\ a \notin Explained
    /\ cur' = [cur EXCEPT ![p] = a]
    /\ candidates' = [candidates EXCEPT ![p] = Candidates(a)]
    /\ Charge(p, a)
    /\ Goto(p, "call")
    /\ UNCHANGED <<db, reply, draft, replies, faults>>

\* A plausible slip: an index is checked against the end of the list only.
InRange_NoLowerBound(p, i) == i < Len(candidates[p])

\* parse_reply accepts an index into the numbered candidates.
InRange(p, i) == 0 <= i /\ i < Len(candidates[p])

\* Where an index of a Python list points: a negative one counts from its end.
Position(list, i) == {k \in DOMAIN list : k = i + 1 \/ k = Len(list) + i + 1}

\* assemble_explanation: the indices, expanded over the list the model was shown.
Assemble(p, indices) ==
    {candidates[p][k] : k \in UNION {Position(candidates[p], i) : i \in indices}}

\* build_prompt numbers the candidates from 0: the articles a reply means by these.
Meant(p, indices) ==
    {candidates[p][k] : k \in {j \in DOMAIN candidates[p] : j - 1 \in indices}}

\* A reply that parse_reply accepts.
GoodReply(p, indices) ==
    /\ pc[p] = "call"
    /\ cur[p] \notin Unparseable
    /\ \A i \in indices : InRange(p, i)
    /\ replies' = [replies EXCEPT ![cur[p]] =
                        Append(@, [shown |-> Range(candidates[p]), cites |-> Meant(p, indices)])]
    /\ reply' = [reply EXCEPT ![p] = Len(replies[cur[p]]) + 1]
    /\ draft' = [draft EXCEPT ![p] = Assemble(p, indices)]
    /\ Goto(p, "store")
    /\ UNCHANGED <<db, queue, cur, candidates, spending, faults>>

\* A plausible slip: one bad reply ends the batch.
OnMalformed_Break(p) ==
    /\ queue' = [queue EXCEPT ![p] = {}]
    /\ Goto(p, "idle")

\* A plausible slip: the anomaly is asked about again at once.
OnMalformed_Again(p) ==
    /\ queue' = [queue EXCEPT ![p] = @ \cup {cur[p]}]
    /\ Goto(p, "next")

\* MalformedReply: this anomaly is left for a later tick, the batch goes on.
OnMalformed(p) ==
    /\ Goto(p, "next")
    /\ UNCHANGED queue

DiscardReply(p) ==
    /\ pc[p] = "call"
    /\ EndTransaction(p)
    /\ OnMalformed(p)
    /\ UNCHANGED <<detected, news, rows, replies, spending>>

\* A reply that breaks the contract: JSON, fields, or an index out of range.  All
\* the replies for an anomaly may do so, tick after tick, or one by a fault.
MalformedReply(p) ==
    /\ DiscardReply(p)
    /\ IF cur[p] \in Unparseable THEN UNCHANGED faults ELSE Fault

\* LLMUnavailable: the batch ends, what was explained so far counts.
Unavailable(p) ==
    /\ pc[p] = "call"
    /\ Fault
    /\ EndTransaction(p)
    /\ queue' = [queue EXCEPT ![p] = {}]
    /\ Goto(p, "idle")
    /\ UNCHANGED <<detected, news, rows, replies, spending>>

\* A plausible slip: ON CONFLICT DO UPDATE.
Inserts_Overwrite(a) == TRUE

\* INSERT ... ON CONFLICT DO NOTHING adds a row only where none is committed.
Inserts(a) == explanation[a] = 0

\* ExplanationRepository.upsert waits for another transaction's open insert of
\* the same row; its answer, whether a row was inserted, is not looked at.
Store(p) ==
    /\ pc[p] = "store"
    /\ inserting[cur[p]] = NoProcess
    /\ inserting' = IF Inserts(cur[p]) THEN [inserting EXCEPT ![cur[p]] = p] ELSE inserting
    /\ Goto(p, "commit")
    /\ UNCHANGED <<detected, news, rows, queue, cur, work, replies, spending, faults>>

\* What the COMMIT at the end of explain_anomaly makes durable.
MakeDurable(p) ==
    /\ explanation' = [a \in Anomaly |-> IF inserting[a] = p THEN reply[p] ELSE explanation[a]]
    /\ evidence' = [a \in Anomaly |-> IF inserting[a] = p THEN draft[p] ELSE evidence[a]]

\* A plausible slip: the unit of work ends without its commit.
Commit_Forgotten(p) ==
    /\ pc[p] = "commit"
    /\ EndTransaction(p)
    /\ Goto(p, "next")
    /\ UNCHANGED <<detected, news, rows, queue, replies, spending, faults>>

Commit(p) ==
    /\ pc[p] = "commit"
    /\ MakeDurable(p)
    /\ EndTransaction(p)
    /\ Goto(p, "next")
    /\ UNCHANGED <<detected, news, queue, replies, spending, faults>>

EndBatch(p) ==
    /\ pc[p] = "next"
    /\ queue[p] = {}
    /\ Goto(p, "idle")
    /\ UNCHANGED <<db, queue, cur, work, replies, spending, faults>>

\* Any other exception (the database, the sentiment model): rolled back by
\* run_audited.  A commit that raises may have been carried out all the same.
Raise(p) ==
    /\ pc[p] \in {"next", "call", "store", "commit"}
    /\ Fault
    /\ \/ UNCHANGED rows
       \/ pc[p] = "commit" /\ MakeDurable(p)
    /\ EndTransaction(p)
    /\ queue' = [queue EXCEPT ![p] = {}]
    /\ Goto(p, "idle")
    /\ UNCHANGED <<detected, news, replies, spending>>

\* The process dies, or shutdown cancels its tick.
Crash(p) ==
    /\ pc[p] # "down"
    /\ Fault
    /\ EndTransaction(p)
    /\ queue' = [queue EXCEPT ![p] = {}]
    /\ Goto(p, "down")
    /\ UNCHANGED <<detected, news, rows, replies, spending>>

Restart(p) ==
    /\ pc[p] = "down"
    /\ Goto(p, "idle")
    /\ UNCHANGED <<db, queue, cur, work, replies, spending, faults>>

\* The indices a reply may hold: all those in the list, and one on either side.
Indices == -1..MAX_NEWS

\* What a process does by itself, and the provider's answer to its call.
Work(p) ==
    \/ StartTick(p) \/ EndBatch(p) \/ Store(p) \/ Commit(p)
    \/ \E a \in Anomaly : Skip(p, a) \/ Ask(p, a)
    \/ Restart(p) \/ MalformedReply(p)
    \/ \E indices \in SUBSET Indices : GoodReply(p, indices)

Failure(p) ==
    \/ Unavailable(p) \/ Raise(p) \/ Crash(p)

Next ==
    \/ \E a \in Anomaly : Detect(a)
    \/ \E n \in Article, s \in Asset : IngestNews(n, s)
    \/ \E p \in Process : Work(p) \/ Failure(p)

Spec == Init /\ [][Next]_vars

\* The scheduler keeps firing, a ready coroutine runs, a call is answered
\* (LLM_TIMEOUT_SECONDS), a process that died is restarted.
FairSpec == Spec /\ \A p \in Process : WF_vars(Work(p))

(***************************************************************************)
(* Properties.                                                             *)
(***************************************************************************)

\* "Re-explaining is a no-op, not an overwrite": the explanation the human was
\* sent is the one that stays, whoever else paid for another.
ExplanationsFinal ==
    [][\A a \in Anomaly : explanation[a] # 0 => explanation'[a] = explanation[a]]_vars

\* "The LLM cannot mint evidence": what a row cites is what the model meant by
\* its indices, though news were stored while it was thinking; and nothing
\* published after the bar closed explains it.
EvidenceHonest ==
    \A a \in Explained :
        /\ evidence[a] = replies[a][explanation[a]].cites
        /\ \A n \in evidence[a] : news[n] = AssetOf[a] /\ Published[n] < BarDay[a] + BAR_SPAN

\* What the job may waste where a reply can be used at all: overlapping processes
\* each pay for an anomaly at most once, and once more for each failure - of the
\* call, of the reply's form, or of what follows ("an explanation is one unit of
\* work").  An anomaly in Unparseable has no such bound: see TickSpendBounded.
SpendBounded ==
    calls <= Cardinality(Process) * Cardinality(detected \ Unparseable) + faults

\* "The explain batch caps LLM spend per tick", whatever comes of the calls.  It is
\* the only bound there is on what an anomaly whose replies never parse costs: it
\* is asked about again in every tick.
TickSpendBounded == \A p \in Process : spent[p] <= EXPLAIN_BATCH

\* explain_anomalies implements the abstract promise of explanations.
Promise == INSTANCE Explanations WITH
    stored <- {n \in Article : news[n] # NoAsset},
    Relevant <- [a \in Anomaly |-> {n \in Article :
        /\ AssetOf[a] \in About[n]
        /\ BarDay[a] - NEWS_WINDOW <= Published[n] /\ Published[n] < BarDay[a] + BAR_SPAN}]
ImplementsExplanations == Promise!Spec

\* "The backlog still drains across ticks" (repositories.py, unexplained).
BacklogDrains == \A a \in Anomaly \ Unparseable : a \in detected ~> a \in Explained
=============================================================================
