----------------------------- MODULE MarketDataMC -----------------------------
(***************************************************************************)
(* MarketData on small instances: two assets, a baseline of two returns.   *)
(***************************************************************************)
EXTENDS MarketData, TLC

CONSTANTS stock, coin

InOrder == <<stock, coin>>

\* The coin trips on day 4, in the history that backfill fetches, and on day
\* 6, after days of live ticks; the stock never moves.
Prices == stock :> [d \in Day |-> 0] @@ coin :> [d \in Day |-> <<0, 1, 1, 6, 6, 18, 18, 18>>[d]]

\* Tabulates the detector's answers once.
ASSUME DetectionsAreDays == Detections \in [Asset -> [SUBSET Day -> SUBSET Day]]

None == {}
OnlyStock == {stock}
=============================================================================
