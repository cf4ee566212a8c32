---------------------------- MODULE AlertPipelineMC ----------------------------
(***************************************************************************)
(* AlertPipeline on small instances, without news: what an explanation     *)
(* cites is ExplainJobMC's subject.                                        *)
(***************************************************************************)
EXTENDS AlertPipeline

OneAsset == [a \in 1..NAnomalies |-> "btc"]
Days == [a \in 1..NAnomalies |-> a]
NoNews == <<>>

Newest == {NAnomalies}
SecondNewest == {NAnomalies - 1}
=============================================================================
