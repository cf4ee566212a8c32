--------------------------- MODULE AnomalyDetection ---------------------------
(***************************************************************************)
(* The detector of domain/anomaly.py, over the days on which one asset has *)
(* a bar.  Prices are logarithmic and integer, so the log return of a bar  *)
(* is the difference to the bar before it; the z-score                     *)
(*     (r - mean) / sigma,   sigma^2 the sample variance of the baseline,  *)
(* is compared in integers: with D = w*r - sum and V = w*squares - sum^2,  *)
(* z^2 = D^2 * (w-1) / (w*V), and a flat baseline has V = 0.               *)
(***************************************************************************)
EXTENDS Integers, FiniteSets, FiniteSetsExt

CONSTANTS
    Window,         \* AssetConfig.window
    ThresholdNum,   \* AssetConfig.threshold, as a fraction
    ThresholdDen

ASSUME DetectorAssumption ==
    /\ Window \in Nat \ {0, 1}
    /\ ThresholdNum \in Nat \ {0} /\ ThresholdDen \in Nat \ {0}

\* The k newest days of S: PriceBarRepository.recent.
Newest(S, k) == {d \in S : Cardinality({e \in S : e > d}) < k}

Previous(S, d) == Max({e \in S : e < d})

LogReturn(price, S, d) == price[d] - price[Previous(S, d)]

\* The Window days of S right before d, as _zscore slices them.
Baseline(S, d) == Newest({e \in S : e < d}, Window)

\* |_zscore| >= threshold, of a return r over the returns of its baseline.
Reaches(returns, r) ==
    LET sum == MapThenSumSet(LAMBDA e : returns[e], DOMAIN returns)
        squares == MapThenSumSet(LAMBDA e : returns[e] * returns[e], DOMAIN returns)
        D == Window * r - sum
        V == Window * squares - sum * sum
    IN  /\ V > 0
        /\ D * D * (Window - 1) * ThresholdDen * ThresholdDen
             >= ThresholdNum * ThresholdNum * Window * V

Unusual(price, S, d) ==
    Reaches([e \in Baseline(S, d) |-> LogReturn(price, S, e)], LogReturn(price, S, d))

\* The days of S that detect_series scores: those whose baseline is full.
\* The oldest bar has no return, so the baseline needs Window + 1 older bars.
Scored(S) == {d \in S : Cardinality({e \in S : e < d}) >= Window + 1}

DetectSeries(price, S) == {d \in Scored(S) : Unusual(price, S, d)}
=============================================================================
