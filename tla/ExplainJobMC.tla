----------------------------- MODULE ExplainJobMC -----------------------------
(***************************************************************************)
(* ExplainJob on small instances.                                          *)
(***************************************************************************)
EXTENDS ExplainJob, TLC

\* Anomaly 2 is a day younger than anomaly 1, and of another asset.
TwoAssets == [a \in Anomaly |-> IF a = 1 THEN "btc" ELSE "eth"]
Days == [a \in Anomaly |-> 3 + a]

\* For anomaly 1 (day 4): two articles of the days before, and one published
\* when the bar had closed.  Two feeds carry the second.
Feeds == [n \in Article |-> IF n = 2 THEN {"btc", "eth"} ELSE {"btc"}]
NewsDays == [n \in Article |-> n + 2]

UnparseableNone == {}
UnparseableBatch == (NAnomalies - EXPLAIN_BATCH + 1)..NAnomalies

Symmetry == Permutations(Process)
=============================================================================
