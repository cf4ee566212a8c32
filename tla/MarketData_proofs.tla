-------------------------- MODULE MarketData_proofs --------------------------
(***************************************************************************)
(* Theorems about the store of bars and anomalies, for any assets, prices, *)
(* window, threshold, lookbacks and number of days and failures.           *)
(***************************************************************************)
EXTENDS MarketData, FiniteSetTheorems, TLAPS

(***************************************************************************)
(* The inductive invariant.                                                *)
(***************************************************************************)

Interval(S) == \A d, e \in S : \A x \in d..e : x \in S

Types ==
    /\ bars \in [Asset -> SUBSET Day] /\ anomalies \in [Asset -> SUBSET Day]
    /\ owner \in [Asset -> Job \cup {NoJob}]
    /\ new \in [Job -> [Asset -> SUBSET Day]] /\ found \in [Job -> [Asset -> SUBSET Day]]
    /\ pc \in [Job -> {"idle", "assets", "fetch", "detect", "commit"}]
    /\ todo \in [Job -> Seq(Asset)] /\ asof \in [Job -> Day]
    /\ up \in BOOLEAN /\ due \in BOOLEAN /\ scored \in BOOLEAN
    /\ today \in Day /\ skipped \subseteq Asset /\ faults \in 0..MaxFaults

\* What a job has still to do is the end of the list.
Suffix(s) ==
    \E k \in 0..Len(AssetOrder) : s = [i \in 1..(Len(AssetOrder) - k) |-> AssetOrder[i + k]]

Phases ==
    /\ \A j \in Job : (pc[j] \in {"idle", "commit"} <=> todo[j] = <<>>) /\ Suffix(todo[j])
    /\ pc["ingest_bars"] # "detect"
    /\ pc["detect_anomalies"] \notin {"assets", "fetch"}

\* Nobody fetches bars of an asset whose row it has not locked.
Locked ==
    /\ pc["ingest_bars"] = "assets" =>
          \A a \in Asset \ ToSet(todo["ingest_bars"]) : owner[a] = "ingest_bars"
    /\ pc["ingest_bars"] = "fetch" => \A a \in Asset : owner[a] = "ingest_bars"
    /\ pc["backfill"] = "fetch" => owner[Head(todo["backfill"])] = "backfill"

\* No tick is older than a day; the sources' bars are not of the future.
Times ==
    /\ today >= FirstDay
    /\ \A j \in Job : asof[j] <= today /\ (pc[j] # "idle" => asof[j] >= today - 1)
    /\ \A a \in Asset : \A d \in bars[a] : d <= today

\* What is stored is not older than the next lookback reaches, but by a day.
Reached ==
    \A a \in Asset : bars[a] # {} =>
        a \in Answers /\ \E d \in bars[a] : today - d <= BARS_LOOKBACK + 1

\* Uncommitted bars are those the span asks for and the store lacks, of an asset
\* whose row the job has locked.
Pending ==
    \A j \in Job : \A a \in Asset : new[j][a] # {} =>
        /\ owner[a] = j /\ a \in Answers
        /\ pc[j] # "idle" /\ (j = "ingest_bars" => pc[j] # "assets")
        /\ new[j][a] = Span(j) \ bars[a]

\* Recorded, and uncommitted, anomalies are those of the bars there will be.
FoundTripped ==
    \A j \in Job : \A a \in Asset : found[j][a] \subseteq Detections[a][bars[a] \cup new[j][a]]

MInv ==
    /\ Types /\ Phases /\ Locked /\ Times /\ Reached /\ Pending
    /\ NoHoles /\ RecordedTripped /\ FoundTripped

(***************************************************************************)
(* The detector over days without holes.                                   *)
(***************************************************************************)

LEMMA Numbers ==
    /\ Window \in Nat \ {0, 1} /\ LastDay \in Nat /\ Day = 1..LastDay /\ FirstDay \in Day
    /\ BARS_LOOKBACK \in Nat /\ DETECT_TAIL \in Nat /\ BackfillDays \in Nat /\ MaxFaults \in Nat
    /\ BARS_LOOKBACK <= BackfillDays
  BY DetectorAssumption, DaysAssumption, BackfillCoversLookback DEF Day

LEMMA DaysAreFinite ==
    ASSUME NEW S \in SUBSET Day
    PROVE  IsFiniteSet(S) /\ \A e \in S : e \in Int
<1>1. IsFiniteSet(Day)
  BY Numbers, FS_Interval
<1>2. \A e \in Day : e \in Int
  BY Numbers
<1>3. IsFiniteSet(S)
  BY <1>1, FS_Subset
<1> QED BY <1>2, <1>3

\* The days of S before d, and among them those after x, are a range.
LEMMA DaysBetween ==
    ASSUME NEW S \in SUBSET Day, Interval(S), NEW d \in S, NEW x \in S, x < d
    PROVE  {e \in {b \in S : b < d} : e > x} = (x + 1)..(d - 1)
<1>1. \A e \in S : e \in Int
  BY DaysAreFinite
<1>2. \A e \in (x + 1)..(d - 1) : e \in S
  BY <1>1 DEF Interval
<1>3. \A e : e \in {b \in S : b < d} /\ e > x <=> e \in (x + 1)..(d - 1)
  BY <1>1, <1>2
<1> QED BY <1>3

LEMMA RangeSize ==
    ASSUME NEW a \in Int, NEW b \in Int, a <= b + 1
    PROVE  IsFiniteSet(a..b) /\ Cardinality(a..b) = b - a + 1
<1>1. \A m, n \in Int : IsFiniteSet(m..n) /\ Cardinality(m..n) = IF m > n THEN 0 ELSE n - m + 1
  BY FS_Interval
<1> QED BY <1>1

\* A day is scored if and only if the day Window + 1 before it is there as well.
LEMMA ScoredFact ==
    ASSUME NEW S \in SUBSET Day, Interval(S), NEW d \in S
    PROVE  d \in Scored(S) <=> d - Window - 1 \in S
<1> DEFINE E == {e \in S : e < d}
           x == d - Window - 1
<1>1. (\A e \in S : e \in Int) /\ IsFiniteSet(E) /\ Window \in Nat /\ d \in Int /\ x \in Int
  <2>1. E \in SUBSET Day
    OBVIOUS
  <2> QED BY <2>1, DaysAreFinite, Numbers
<1>2. d \in Scored(S) <=> Cardinality(E) >= Window + 1
  BY DEF Scored
<1>3. ASSUME x \in S PROVE Cardinality(E) >= Window + 1
  <2>1. x..(d - 1) \subseteq E
    BY <1>1, <1>3 DEF Interval
  <2>2. IsFiniteSet(x..(d - 1)) /\ Cardinality(x..(d - 1)) = Window + 1
    BY <1>1, RangeSize
  <2>3. Cardinality(x..(d - 1)) <= Cardinality(E) /\ Cardinality(E) \in Nat
    BY <1>1, <2>1, FS_Subset, FS_CardinalityType
  <2> QED BY <1>1, <2>2, <2>3
<1>4. ASSUME x \notin S PROVE Cardinality(E) < Window + 1
  <2>1. E \subseteq (d - Window)..(d - 1)
    <3> SUFFICES ASSUME NEW e \in E, ~(e \in (d - Window)..(d - 1)) PROVE FALSE
      OBVIOUS
    <3>1. e \in S /\ e \in Int /\ x \in e..d
      BY <1>1
    <3> QED BY <1>4, <3>1 DEF Interval
  <2>2. IsFiniteSet((d - Window)..(d - 1)) /\ Cardinality((d - Window)..(d - 1)) = Window
    BY <1>1, RangeSize
  <2>3. Cardinality(E) <= Cardinality((d - Window)..(d - 1)) /\ Cardinality(E) \in Nat
    BY <1>1, <2>1, <2>2, FS_Subset, FS_CardinalityType
  <2> QED BY <1>1, <2>2, <2>3
<1>5. Cardinality(E) \in Nat
  BY <1>1, FS_CardinalityType
<1> QED BY <1>1, <1>2, <1>3, <1>4, <1>5

\* The baseline of a scored day is the Window days before it.
LEMMA BaselineFact ==
    ASSUME NEW S \in SUBSET Day, Interval(S), NEW d \in S, d - Window - 1 \in S
    PROVE  Baseline(S, d) = (d - Window)..(d - 1)
<1> DEFINE E == {e \in S : e < d}
<1>1. (\A e \in S : e \in Int) /\ Window \in Nat /\ d \in Int
  BY DaysAreFinite, Numbers
<1>2. ASSUME NEW x \in E PROVE Cardinality({e \in E : e > x}) < Window <=> x >= d - Window
  <2>1. x \in S /\ x \in Int /\ x < d
    BY <1>1
  <2>2. {e \in E : e > x} = (x + 1)..(d - 1)
    BY <2>1, DaysBetween
  <2>3. Cardinality((x + 1)..(d - 1)) = (d - 1) - (x + 1) + 1
    <3>1. x + 1 \in Int /\ d - 1 \in Int /\ x + 1 <= (d - 1) + 1
      BY <1>1, <2>1
    <3> QED BY <3>1, RangeSize
  <2>4. (d - 1) - (x + 1) + 1 = d - 1 - x
    BY <1>1, <2>1
  <2>5. Cardinality({e \in E : e > x}) = d - 1 - x
    BY <2>2, <2>3, <2>4
  <2> HIDE DEF E
  <2> QED BY <1>1, <2>1, <2>5
<1>3. Baseline(S, d) = {x \in E : x >= d - Window}
  BY <1>2 DEF Baseline, Newest
<1>4. \A x \in (d - Window)..(d - 1) : x \in S
  BY <1>1 DEF Interval
<1>5. ASSUME NEW x, x \in E, x >= d - Window PROVE x \in (d - Window)..(d - 1)
  BY <1>1, <1>5
<1>6. ASSUME NEW x \in (d - Window)..(d - 1) PROVE x \in E /\ x >= d - Window
  BY <1>1, <1>4
<1> QED BY <1>3, <1>5, <1>6

LEMMA PreviousFact ==
    ASSUME NEW S \in SUBSET Day, NEW d \in S, d - 1 \in S
    PROVE  Previous(S, d) = d - 1
<1> DEFINE E == {e \in S : e < d}
<1>1. \A e \in S : e \in Int
  BY DaysAreFinite
<1>2. d - 1 \in E /\ \A y \in E : d - 1 >= y
  BY <1>1
<1>3. \A x \in E : (\A y \in E : x >= y) => x = d - 1
  BY <1>1, <1>2
<1> QED BY <1>2, <1>3 DEF Previous, Max

\* What the detector says of a day depends on the Window + 1 days before it, not on
\* what else is stored.
LEMMA UnusualFact ==
    ASSUME NEW price, NEW S \in SUBSET Day, Interval(S), NEW d \in S, d - Window - 1 \in S
    PROVE  Unusual(price, S, d) <=>
             Reaches([e \in (d - Window)..(d - 1) |-> price[e] - price[e - 1]], price[d] - price[d - 1])
<1>1. (\A e \in S : e \in Int) /\ Window \in Nat \ {0, 1} /\ d \in Int
  BY DaysAreFinite, Numbers
<1>2. ASSUME NEW e \in (d - Window)..d PROVE LogReturn(price, S, e) = price[e] - price[e - 1]
  <2>1. e \in S /\ e - 1 \in S
    BY <1>1 DEF Interval
  <2> QED BY <2>1, PreviousFact DEF LogReturn
<1>3. Baseline(S, d) = (d - Window)..(d - 1)
  BY BaselineFact
<1>4. [e \in Baseline(S, d) |-> LogReturn(price, S, e)]
        = [e \in (d - Window)..(d - 1) |-> price[e] - price[e - 1]]
  BY <1>1, <1>2, <1>3
<1>5. LogReturn(price, S, d) = price[d] - price[d - 1]
  BY <1>1, <1>2
<1> QED BY <1>4, <1>5 DEF Unusual

\* So with more bars, older or newer, everything found is found again.
LEMMA MoreBars ==
    ASSUME NEW price, NEW S \in SUBSET Day, NEW T \in SUBSET Day, Interval(S), Interval(T), S \subseteq T
    PROVE  DetectSeries(price, S) \subseteq DetectSeries(price, T)
<1> SUFFICES ASSUME NEW d \in DetectSeries(price, S) PROVE d \in DetectSeries(price, T)
  OBVIOUS
<1>1. d \in S /\ d \in Scored(S) /\ Unusual(price, S, d)
  BY DEF DetectSeries, Scored
<1>2. d - Window - 1 \in S /\ d - Window - 1 \in T /\ d \in T
  BY <1>1, ScoredFact
<1>3. d \in Scored(T)
  BY <1>2, ScoredFact
<1>4. Unusual(price, T, d)
  BY <1>1, <1>2, UnusualFact
<1> QED BY <1>3, <1>4 DEF DetectSeries

\* The newest bars of a history without holes are one.
LEMMA TailFact ==
    ASSUME NEW S \in SUBSET Day, Interval(S), NEW k \in Nat
    PROVE  Newest(S, k) \subseteq S /\ Interval(Newest(S, k))
<1>1. \A e \in S : e \in Int
  BY DaysAreFinite
<1>2. Newest(S, k) \subseteq S
  BY DEF Newest
<1>3. ASSUME NEW d \in Newest(S, k), NEW e \in Newest(S, k), NEW x \in d..e PROVE x \in Newest(S, k)
  <2> DEFINE After(y) == {b \in S : b > y}
  <2>0. d \in S /\ e \in S
    BY <1>2
  <2>1. x \in S /\ d \in S /\ d \in Int /\ x \in Int /\ d <= x
    BY <1>1, <1>3, <2>0 DEF Interval
  <2>2. Cardinality(After(d)) < k
    BY DEF Newest
  <2>3. After(x) \subseteq After(d) /\ After(d) \in SUBSET Day
    <3>1. \A b \in S : b > x => b > d
      BY <1>1, <2>1
    <3> QED BY <3>1
  <2>4. IsFiniteSet(After(d))
    BY <2>3, DaysAreFinite
  <2>5. Cardinality(After(x)) <= Cardinality(After(d)) /\ IsFiniteSet(After(x))
    BY <2>3, <2>4, FS_Subset
  <2>6. Cardinality(After(x)) \in Nat /\ Cardinality(After(d)) \in Nat
    BY <2>4, <2>5, FS_CardinalityType
  <2>7. Cardinality(After(x)) < k
    BY <2>2, <2>5, <2>6
  <2> QED BY <2>1, <2>7 DEF Newest
<1> QED BY <1>2, <1>3 DEF Interval

(***************************************************************************)
(* The list of assets, and the days a job asks for.                        *)
(***************************************************************************)

LEMMA OrderFact ==
    /\ AssetOrder \in Seq(Asset) /\ Len(AssetOrder) \in Nat \ {0} /\ AssetOrder # <<>>
    /\ Suffix(AssetOrder) /\ Suffix(<<>>) /\ <<>> \in Seq(Asset)
    /\ ToSet(AssetOrder) = Asset
<1>1. AssetOrder \in Seq(Asset) /\ ToSet(AssetOrder) = Asset /\ Asset # {}
  BY AssetsAssumption
<1>2. AssetOrder # <<>> /\ Len(AssetOrder) \in Nat \ {0}
  BY <1>1 DEF ToSet
<1>3. Suffix(AssetOrder)
  <2>1. AssetOrder = [i \in 1..(Len(AssetOrder) - 0) |-> AssetOrder[i + 0]]
    BY <1>1
  <2> QED BY <1>2, <2>1 DEF Suffix
<1>4. Suffix(<<>>)
  <2>1. <<>> = [i \in 1..(Len(AssetOrder) - Len(AssetOrder)) |-> AssetOrder[i + Len(AssetOrder)]]
    BY <1>2
  <2> QED BY <1>2, <2>1 DEF Suffix
<1> QED BY <1>1, <1>2, <1>3, <1>4

\* One asset is handled.
LEMMA SuffixTail ==
    ASSUME NEW s \in Seq(Asset), Suffix(s), s # <<>>
    PROVE  /\ Head(s) \in Asset /\ Tail(s) \in Seq(Asset) /\ Suffix(Tail(s))
           /\ Len(s) = 1 <=> Tail(s) = <<>>
           /\ ToSet(s) = {Head(s)} \cup ToSet(Tail(s))
<1>1. /\ Len(s) \in Nat \ {0} /\ DOMAIN s = 1..Len(s) /\ Head(s) = s[1] /\ Head(s) \in Asset
      /\ Tail(s) \in Seq(Asset) /\ Len(Tail(s)) = Len(s) - 1
      /\ DOMAIN Tail(s) = 1..(Len(s) - 1)
      /\ \A i \in 1..(Len(s) - 1) : Tail(s)[i] = s[i + 1]
  OBVIOUS
<1>2. PICK k \in 0..Len(AssetOrder) : s = [i \in 1..(Len(AssetOrder) - k) |-> AssetOrder[i + k]]
  BY DEF Suffix
<1>3. Len(s) = Len(AssetOrder) - k /\ k + 1 \in 0..Len(AssetOrder) /\ Len(AssetOrder) \in Nat
  BY <1>1, <1>2, OrderFact
<1>4. Tail(s) = [i \in 1..(Len(AssetOrder) - (k + 1)) |-> AssetOrder[i + (k + 1)]]
  <2>1. ASSUME NEW i \in 1..(Len(s) - 1) PROVE s[i + 1] = AssetOrder[i + (k + 1)]
    <3>1. i + 1 \in 1..(Len(AssetOrder) - k) /\ (i + 1) + k = i + (k + 1)
      BY <1>1, <1>3
    <3>2. s[i + 1] = AssetOrder[(i + 1) + k]
      BY <1>2, <3>1
    <3> QED BY <3>1, <3>2
  <2>2. Len(AssetOrder) - (k + 1) = Len(s) - 1
    BY <1>1, <1>3
  <2>3. Tail(s) = [i \in 1..(Len(s) - 1) |-> Tail(s)[i]]
    <3>1. \A q \in Seq(Asset) : q = [i \in 1..Len(q) |-> q[i]]
      OBVIOUS
    <3> QED BY <1>1, <3>1
  <2> QED BY <1>1, <2>1, <2>2, <2>3
<1>5. Suffix(Tail(s))
  BY <1>3, <1>4 DEF Suffix
<1>6. Len(s) = 1 <=> Tail(s) = <<>>
  BY <1>1
<1>7. ToSet(s) = {Head(s)} \cup ToSet(Tail(s))
  <2>1. \A x : x \in ToSet(s) <=> \E i \in 1..Len(s) : s[i] = x
    BY <1>1 DEF ToSet
  <2>2. \A x : x \in ToSet(Tail(s)) <=> \E i \in 1..(Len(s) - 1) : Tail(s)[i] = x
    BY <1>1 DEF ToSet
  <2>3. \A i \in 1..Len(s) : i = 1 \/ (i - 1 \in 1..(Len(s) - 1) /\ Tail(s)[i - 1] = s[i])
    BY <1>1
  <2>4. \A i \in 1..(Len(s) - 1) : i + 1 \in 1..Len(s) /\ Tail(s)[i] = s[i + 1]
    BY <1>1
  <2>5. 1 \in 1..Len(s) /\ s[1] = Head(s)
    BY <1>1
  <2>6. ASSUME NEW x \in ToSet(s) PROVE x = Head(s) \/ x \in ToSet(Tail(s))
    BY <2>1, <2>2, <2>3, <2>5
  <2>7. ASSUME NEW x \in ToSet(Tail(s)) PROVE x \in ToSet(s)
    BY <2>1, <2>2, <2>4
  <2>8. Head(s) \in ToSet(s)
    BY <2>1, <2>5
  <2> QED BY <2>6, <2>7, <2>8
<1> QED BY <1>1, <1>5, <1>6, <1>7

\* The end of the list, as the type invariant of MarketData puts it.
LEMMA SuffixIsSuffix ==
    ASSUME NEW s \in Seq(Asset), Suffix(s)
    PROVE  IsSuffix(s, AssetOrder)
<1> DEFINE A == AssetOrder
           n == Len(AssetOrder)
<1>1. PICK k \in 0..n : s = [i \in 1..(n - k) |-> A[i + k]]
  BY DEF Suffix
<1>2. n \in Nat /\ Len(s) = n - k /\ Len(s) \in Nat
  BY <1>1, OrderFact
<1>3. /\ Reverse(s) = [i \in 1..Len(s) |-> s[(Len(s) - i) + 1]]
      /\ Reverse(A) = [i \in 1..n |-> A[(n - i) + 1]]
  BY DEF Reverse
<1>4. Len(Reverse(s)) = Len(s) /\ Len(Reverse(A)) = n
  BY <1>2, <1>3
<1>5. \A i \in 1..Len(s) : Reverse(s)[i] = Reverse(A)[i]
  <2> SUFFICES ASSUME NEW i \in 1..Len(s) PROVE Reverse(s)[i] = Reverse(A)[i]
    OBVIOUS
  <2>1. Reverse(s)[i] = A[(Len(s) - i) + 1 + k]
    BY <1>1, <1>2, <1>3
  <2>2. Reverse(A)[i] = A[(n - i) + 1]
    BY <1>2, <1>3
  <2> QED BY <1>2, <2>1, <2>2
<1>6. Reverse(s) \in Seq(Asset) /\ Reverse(A) \in Seq(Asset)
  <2>1. s \in Seq(Asset) /\ A \in Seq(Asset)
    BY OrderFact
  <2>2. \A q \in Seq(Asset) : Reverse(q) \in Seq(Asset)
    BY DEF Reverse
  <2> QED BY <2>1, <2>2
<1>7. /\ SubSeq(Reverse(s), 1, Len(s)) \in Seq(Asset) /\ Len(SubSeq(Reverse(s), 1, Len(s))) = Len(s)
      /\ SubSeq(Reverse(A), 1, Len(s)) \in Seq(Asset) /\ Len(SubSeq(Reverse(A), 1, Len(s))) = Len(s)
      /\ \A i \in 1..Len(s) : SubSeq(Reverse(s), 1, Len(s))[i] = Reverse(s)[i]
      /\ \A i \in 1..Len(s) : SubSeq(Reverse(A), 1, Len(s))[i] = Reverse(A)[i]
  BY <1>2, <1>4, <1>6
<1>8. SubSeq(Reverse(s), 1, Len(s)) = SubSeq(Reverse(A), 1, Len(s))
  BY <1>5, <1>7
<1> QED BY <1>2, <1>4, <1>8 DEF IsSuffix, IsPrefix

LEMMA SpanFact ==
    ASSUME Types, NEW j \in Job
    PROVE  /\ Lookback(j) \in Nat /\ Lookback(j) >= BARS_LOOKBACK
           /\ Span(j) \in SUBSET Day /\ asof[j] \in Span(j)
           /\ \A d \in Span(j) : d <= asof[j]
           /\ \A d \in Day : d \in Span(j) <=> asof[j] - Lookback(j) <= d /\ d <= asof[j]
<1>1. Lookback(j) \in Nat /\ Lookback(j) >= BARS_LOOKBACK
  BY Numbers DEF Lookback
<1>2. asof[j] \in Day /\ asof[j] \in Int
  BY Numbers DEF Types
<1> QED BY <1>1, <1>2 DEF Span

\* Bars and the days a tick asks for leave no hole between them: the store is no
\* older than the lookback, and the tick no older than a day.
LEMMA SpanJoins ==
    ASSUME MInv, NEW j \in Job, pc[j] # "idle", NEW a \in Asset
    PROVE  Interval(bars[a] \cup Span(j))
<1>0. Types /\ Times /\ Reached /\ NoHoles
  BY DEF MInv
<1>1. /\ asof[j] \in Int /\ today \in Int /\ asof[j] <= today /\ asof[j] >= today - 1
      /\ \A d \in bars[a] \cup Span(j) : d \in Day /\ d \in Int
  BY <1>0, SpanFact, Numbers DEF Types, Times
<1> SUFFICES ASSUME NEW d \in bars[a] \cup Span(j), NEW e \in bars[a] \cup Span(j), NEW x \in d..e,
                    x \notin bars[a], x \notin Span(j)
             PROVE  FALSE
  BY DEF Interval
<1>2. d \in Int /\ e \in Int /\ x \in Int /\ d <= x /\ x <= e /\ x \in Day
  BY <1>1, Numbers
<1>3. x < asof[j] - Lookback(j) \/ x > asof[j]
  BY <1>0, <1>1, <1>2, SpanFact
<1>4. CASE x > asof[j]
  <2>1. e \in bars[a] /\ e <= today
    BY <1>0, <1>1, <1>2, <1>4, SpanFact DEF Times
  <2>2. x = e
    BY <1>1, <1>2, <1>4, <2>1
  <2> QED BY <2>1, <2>2
<1>5. CASE x < asof[j] - Lookback(j)
  <2>1. d \in bars[a]
    BY <1>0, <1>1, <1>2, <1>5, SpanFact
  <2>2. PICK w \in bars[a] : today - w <= BARS_LOOKBACK + 1
    BY <1>0, <2>1 DEF Reached
  <2>3. x \in d..w
    BY <1>0, <1>1, <1>2, <1>5, <2>2, SpanFact, Numbers
  <2> QED BY <1>0, <2>1, <2>2, <2>3 DEF NoHoles
<1> QED BY <1>3, <1>4, <1>5

LEMMA Joined ==
    ASSUME MInv, NEW j \in Job, NEW a \in Asset
    PROVE  /\ Interval(bars[a]) /\ Interval(bars[a] \cup new[j][a])
           /\ bars[a] \in SUBSET Day /\ bars[a] \cup new[j][a] \in SUBSET Day
<1>1. bars[a] \in SUBSET Day /\ new[j][a] \in SUBSET Day
  BY DEF MInv, Types
<1>2. Interval(bars[a])
  BY DEF MInv, NoHoles, Interval
<1>3. CASE new[j][a] = {}
  <2>1. bars[a] \cup new[j][a] = bars[a]
    BY <1>3
  <2> QED BY <1>1, <1>2, <2>1
<1>4. CASE new[j][a] # {}
  <2>1. bars[a] \cup new[j][a] = bars[a] \cup Span(j) /\ pc[j] # "idle"
    BY <1>4 DEF MInv, Pending
  <2>2. Interval(bars[a] \cup Span(j))
    BY <2>1, SpanJoins
  <2> QED BY <1>1, <1>2, <2>1, <2>2
<1> QED BY <1>1, <1>2, <1>3, <1>4

\* What the detector says, day by day, as the model tabulates it.
LEMMA DetectionsFact ==
    ASSUME NEW a \in Asset, NEW S \in SUBSET Day
    PROVE  Detections[a][S] = DetectSeries(Price[a], S)
  BY DEF Detections

LEMMA MoreDetections ==
    ASSUME NEW a \in Asset, NEW S \in SUBSET Day, NEW T \in SUBSET Day, Interval(S), Interval(T), S \subseteq T
    PROVE  Detections[a][S] \subseteq Detections[a][T]
  BY DetectionsFact, MoreBars

(***************************************************************************)
(* The steps of one job, between commits.                                  *)
(***************************************************************************)

\* What only its own job changes.
Own(j) == <<pc[j], todo[j], asof[j], new[j], found[j]>>

\* What the invariant asks of one job.
JobOK(j) ==
    /\ (pc[j] \in {"idle", "commit"} <=> todo[j] = <<>>) /\ Suffix(todo[j])
    /\ j = "ingest_bars" => pc[j] # "detect"
    /\ j = "detect_anomalies" => pc[j] \notin {"assets", "fetch"}
    /\ asof[j] <= today /\ (pc[j] # "idle" => asof[j] >= today - 1)
    /\ \A a \in Asset : new[j][a] # {} =>
        /\ owner[a] = j /\ a \in Answers
        /\ pc[j] # "idle" /\ (j = "ingest_bars" => pc[j] # "assets")
        /\ new[j][a] = Span(j) \ bars[a]
    /\ \A a \in Asset : found[j][a] \subseteq Detections[a][bars[a] \cup new[j][a]]

LEMMA EveryJobOK ==
    ASSUME MInv, NEW j \in Job
    PROVE  JobOK(j)
  BY DEF MInv, JobOK, Phases, Times, Pending, FoundTripped

LEMMA JobStep ==
    ASSUME MInv, NEW j \in Job, Types', Locked', JobOK(j)',
           bars' = bars, anomalies' = anomalies, today' = today,
           \A i \in Job \ {j} : Own(i)' = Own(i),
           \A a \in Asset : \A i \in Job \ {j} : owner[a] = i => owner'[a] = i
    PROVE  MInv'
<1>1. ASSUME NEW i \in Job PROVE JobOK(i)'
  <2>1. CASE i = j
    BY <2>1
  <2>2. CASE i # j
    <3>1. /\ pc'[i] = pc[i] /\ todo'[i] = todo[i] /\ asof'[i] = asof[i]
          /\ new'[i] = new[i] /\ found'[i] = found[i]
      BY <2>2 DEF Own
    <3>2. Span(i)' = Span(i)
      BY <3>1 DEF Span
    <3>3. JobOK(i)
      BY EveryJobOK
    <3> QED BY <2>2, <3>1, <3>2, <3>3 DEF JobOK
  <2> QED BY <2>1, <2>2
<1>2. Phases' /\ Pending' /\ FoundTripped'
  <2>1. {"ingest_bars", "detect_anomalies"} \subseteq Job
    BY DEF Job
  <2> QED BY <1>1, <2>1 DEF JobOK, Phases, Pending, FoundTripped
<1>3. Times' /\ Reached' /\ NoHoles' /\ RecordedTripped'
  <2>1. Times /\ Reached /\ NoHoles /\ RecordedTripped
    BY DEF MInv
  <2>2. Times'
    BY <1>1, <2>1 DEF JobOK, Times
  <2>3. Reached' /\ NoHoles' /\ RecordedTripped'
    BY <2>1 DEF Reached, NoHoles, RecordedTripped
  <2> QED BY <2>2, <2>3
<1> QED BY <1>2, <1>3 DEF MInv

LEMMA NextAssetFact ==
    ASSUME MInv, NEW j \in Job, pc[j] \notin {"idle", "commit"},
           NEW label \in {"assets", "fetch", "detect"}, NextAsset(j, label)
    PROVE  /\ pc' \in [Job -> {"idle", "assets", "fetch", "detect", "commit"}]
           /\ todo' \in [Job -> Seq(Asset)]
           /\ Suffix(todo'[j]) /\ pc'[j] \in {"commit", label}
           /\ pc'[j] = "commit" <=> todo'[j] = <<>>
           /\ \A i \in Job \ {j} : pc'[i] = pc[i] /\ todo'[i] = todo[i]
<1>1. /\ pc \in [Job -> {"idle", "assets", "fetch", "detect", "commit"}]
      /\ todo \in [Job -> Seq(Asset)] /\ Suffix(todo[j]) /\ todo[j] # <<>>
  BY DEF MInv, Types, Phases
<1>2. Tail(todo[j]) \in Seq(Asset) /\ Suffix(Tail(todo[j])) /\ (Len(todo[j]) = 1 <=> Tail(todo[j]) = <<>>)
  BY <1>1, SuffixTail
<1>3. todo'[j] = Tail(todo[j]) /\ pc'[j] = IF Len(todo[j]) = 1 THEN "commit" ELSE label
  BY <1>1 DEF NextAsset
<1> QED BY <1>1, <1>2, <1>3 DEF NextAsset

LEMMA FaultFact ==
    ASSUME MInv, Fault \/ UNCHANGED faults
    PROVE  faults' \in 0..MaxFaults
  BY Numbers DEF MInv, Types, Fault

LEMMA StartKeeps ==
    ASSUME MInv, NEW j \in Job, NEW label \in {"assets", "detect"}, Start(j, label),
           label = IF j = "detect_anomalies" THEN "detect" ELSE "assets",
           due' \in BOOLEAN, skipped' \subseteq Asset
    PROVE  MInv'
<1>0. Types /\ JobOK(j) /\ Locked /\ Times
  BY EveryJobOK DEF MInv
<1>1. /\ pc'[j] = label /\ todo'[j] = AssetOrder /\ asof'[j] = today /\ new' = new /\ found' = found
      /\ owner' = owner /\ bars' = bars /\ anomalies' = anomalies /\ today' = today
      /\ \A i \in Job \ {j} : pc'[i] = pc[i] /\ todo'[i] = todo[i] /\ asof'[i] = asof[i]
  BY <1>0 DEF Start, Types, store, trans
<1>2. Types'
  BY <1>0, <1>1, OrderFact DEF Start, Types, store, trans
<1>3. JobOK(j)'
  <2>1. \A a \in Asset : new[j][a] = {}
    BY <1>0 DEF JobOK, Start
  <2>2. today \in Int
    BY <1>0, Numbers DEF Types
  <2> QED BY <1>0, <1>1, <2>1, <2>2, OrderFact DEF JobOK
<1>4. Locked'
  <2>1. pc'["backfill"] = "fetch" => pc["backfill"] = "fetch" /\ todo'["backfill"] = todo["backfill"]
    BY <1>1 DEF Job
  <2>2. pc'["ingest_bars"] = "fetch" => pc["ingest_bars"] = "fetch"
    BY <1>1 DEF Job
  <2>3. pc'["ingest_bars"] = "assets" =>
            \/ ToSet(todo'["ingest_bars"]) = Asset
            \/ pc["ingest_bars"] = "assets" /\ todo'["ingest_bars"] = todo["ingest_bars"]
    BY <1>1, OrderFact DEF Job
  <2> QED BY <1>0, <1>1, <2>1, <2>2, <2>3 DEF Locked
<1> QED BY <1>1, <1>2, <1>3, <1>4, JobStep DEF Own

LEMMA EnsureAssetsKeeps ==
    ASSUME MInv, NEW j \in Job, EnsureAssets(j)
    PROVE  MInv'
<1> DEFINE a == Head(todo[j])
<1>0. Types /\ Phases /\ JobOK(j) /\ Locked /\ Times
  BY EveryJobOK DEF MInv
<1>1. /\ j = "ingest_bars" /\ pc[j] = "assets" /\ owner[a] \in {NoJob, j}
      /\ owner' = [owner EXCEPT ![a] = j]
      /\ new' = new /\ found' = found /\ bars' = bars /\ anomalies' = anomalies /\ today' = today
      /\ todo[j] \in Seq(Asset) /\ todo[j] # <<>> /\ Suffix(todo[j])
  BY <1>0 DEF EnsureAssets, Upsert, Phases, Job, store, world, Types
<1>2. /\ a \in Asset /\ Tail(todo[j]) \in Seq(Asset) /\ Suffix(Tail(todo[j]))
      /\ Len(todo[j]) = 1 <=> Tail(todo[j]) = <<>>
      /\ ToSet(todo[j]) = {a} \cup ToSet(Tail(todo[j]))
  BY <1>1, SuffixTail
<1>3. /\ owner'[a] = j /\ \A b \in Asset \ {a} : owner'[b] = owner[b]
      /\ \A b \in Asset : \A i \in Job \ {j} : owner[b] = i => owner'[b] = i
  BY <1>0, <1>1, <1>2, AssetsAssumption DEF Types
<1>4. /\ \A i \in Job \ {j} : pc'[i] = pc[i] /\ todo'[i] = todo[i] /\ asof'[i] = asof[i]
      /\ \/ Len(todo[j]) = 1 /\ pc'[j] = "fetch" /\ todo'[j] = AssetOrder /\ asof'[j] = today
         \/ Len(todo[j]) # 1 /\ pc'[j] = "assets" /\ todo'[j] = Tail(todo[j]) /\ asof'[j] = asof[j]
  BY <1>0, <1>1 DEF EnsureAssets, Types
<1>5. Types'
  <2>1. /\ pc' \in [Job -> {"idle", "assets", "fetch", "detect", "commit"}]
        /\ todo' \in [Job -> Seq(Asset)] /\ asof' \in [Job -> Day]
    <3>1. CASE Len(todo[j]) = 1
      <4>1. /\ todo' = [todo EXCEPT ![j] = AssetOrder] /\ pc' = [pc EXCEPT ![j] = "fetch"]
            /\ asof' = [asof EXCEPT ![j] = today]
        BY <3>1 DEF EnsureAssets
      <4> QED BY <1>0, <4>1, OrderFact DEF Types
    <3>2. CASE Len(todo[j]) # 1
      <4>1. todo' = [todo EXCEPT ![j] = Tail(@)] /\ pc' = pc /\ asof' = asof
        BY <3>2 DEF EnsureAssets
      <4> QED BY <1>0, <1>2, <4>1 DEF Types
    <3> QED BY <3>1, <3>2
  <2> QED BY <1>0, <1>1, <2>1 DEF EnsureAssets, Upsert, Types, store, world
<1>6. JobOK(j)'
  <2>1. \A b \in Asset : new[j][b] = {}
    BY <1>0, <1>1 DEF JobOK
  <2>2. today \in Int
    BY <1>0, Numbers DEF Types
  <2>3. /\ (pc'[j] \in {"idle", "commit"} <=> todo'[j] = <<>>) /\ Suffix(todo'[j])
        /\ pc'[j] \in {"assets", "fetch"}
    BY <1>2, <1>4, OrderFact
  <2>4. asof'[j] <= today' /\ asof'[j] >= today' - 1
    BY <1>0, <1>1, <1>4, <2>2 DEF JobOK
  <2>5. \A b \in Asset : new'[j][b] = {} /\ found'[j][b] \subseteq Detections[b][bars'[b] \cup new'[j][b]]
    BY <1>0, <1>1, <2>1 DEF JobOK
  <2>6. \A b \in Asset : new'[j][b] # {} => FALSE
    BY <2>5
  <2>7. /\ j = "ingest_bars" => pc'[j] # "detect"
        /\ j = "detect_anomalies" => pc'[j] \notin {"assets", "fetch"}
    BY <1>1, <2>3
  <2> QED BY <2>3, <2>4, <2>5, <2>6, <2>7 DEF JobOK
<1>7. Locked'
  <2>1. ASSUME pc'[j] = "assets", NEW b \in Asset \ ToSet(todo'[j]) PROVE owner'[b] = j
    <3>1. b = a \/ b \in Asset \ ToSet(todo[j])
      BY <1>2, <1>4, <2>1
    <3> QED BY <1>0, <1>1, <1>3, <3>1 DEF Locked
  <2>2. ASSUME pc'[j] = "fetch", NEW b \in Asset PROVE owner'[b] = j
    <3>1. b = a \/ b \in Asset \ ToSet(todo[j])
      <4>1. ToSet(todo[j]) = {a}
        BY <1>2, <1>4, <2>2 DEF ToSet
      <4> QED BY <4>1
    <3> QED BY <1>0, <1>1, <1>3, <3>1 DEF Locked
  <2>3. "backfill" \in Job \ {j}
    BY <1>1 DEF Job
  <2>4. /\ pc'["backfill"] = pc["backfill"] /\ todo'["backfill"] = todo["backfill"]
        /\ pc["backfill"] = "fetch" => Head(todo["backfill"]) \in Asset
    <3>1. pc["backfill"] = "fetch" =>
             todo["backfill"] \in Seq(Asset) /\ todo["backfill"] # <<>> /\ Suffix(todo["backfill"])
      BY <1>0, <2>3 DEF Types, Phases
    <3> QED BY <1>4, <2>3, <3>1, SuffixTail
  <2>5. pc'["backfill"] = "fetch" => owner'[Head(todo'["backfill"])] = "backfill"
    BY <1>0, <1>3, <2>3, <2>4 DEF Locked
  <2> QED BY <1>1, <2>1, <2>2, <2>5 DEF Locked
<1> HIDE DEF a
<1> QED BY <1>1, <1>3, <1>4, <1>5, <1>6, <1>7, JobStep DEF Own

LEMMA BackfillAssetKeeps ==
    ASSUME MInv, BackfillAsset
    PROVE  MInv'
<1> DEFINE j == "backfill"
           a == Head(todo[j])
<1>0. Types /\ Phases /\ JobOK(j) /\ Locked /\ Times /\ j \in Job
  BY EveryJobOK DEF MInv, Job
<1>1. /\ pc[j] = "assets" /\ owner[a] \in {NoJob, j}
      /\ owner' = [owner EXCEPT ![a] = j]
      /\ new' = new /\ found' = found /\ bars' = bars /\ anomalies' = anomalies /\ today' = today
      /\ todo' = todo /\ asof' = asof /\ pc' = [pc EXCEPT ![j] = "fetch"]
      /\ todo[j] \in Seq(Asset) /\ todo[j] # <<>> /\ Suffix(todo[j])
  BY <1>0 DEF BackfillAsset, Upsert, Phases, store, world, Types
<1>2. a \in Asset
  BY <1>1, SuffixTail
<1>3. /\ owner'[a] = j /\ \A b \in Asset \ {a} : owner'[b] = owner[b]
      /\ \A b \in Asset : \A i \in Job : owner[b] = i => owner'[b] = i
      /\ pc'[j] = "fetch" /\ \A i \in Job \ {j} : pc'[i] = pc[i]
  BY <1>0, <1>1, <1>2, AssetsAssumption DEF Types
<1>4. Types'
  BY <1>0, <1>1 DEF BackfillAsset, Upsert, Types, store, world
<1>5. JobOK(j)'
  <2>1. Span(j)' = Span(j)
    BY <1>1 DEF Span
  <2> QED BY <1>0, <1>1, <1>2, <1>3, <2>1 DEF JobOK
<1>6. Locked'
  <2>1. "ingest_bars" \in Job \ {j}
    BY DEF Job
  <2>2. pc'["ingest_bars"] = pc["ingest_bars"]
    BY <1>3, <2>1
  <2> QED BY <1>0, <1>1, <1>3, <2>1, <2>2 DEF Locked
<1> QED BY <1>0, <1>1, <1>3, <1>4, <1>5, <1>6, JobStep DEF Own

LEMMA FetchKeeps ==
    ASSUME MInv, NEW j \in Job, Fetch(j)
    PROVE  MInv'
<1> DEFINE a == Head(todo[j])
           label == IF j = "backfill" THEN "detect" ELSE "fetch"
<1>0. Types /\ Phases /\ JobOK(j) /\ Locked /\ Times /\ Pending /\ FoundTripped
  BY EveryJobOK DEF MInv
<1>1. /\ j \in {"ingest_bars", "backfill"} /\ pc[j] = "fetch" /\ a \notin Unavailable \cup Garbled
      /\ new' = [new EXCEPT ![j][a] = Span(j) \ bars[a]]
      /\ owner' = owner /\ found' = found /\ bars' = bars /\ anomalies' = anomalies
      /\ today' = today /\ asof' = asof
      /\ todo[j] \in Seq(Asset) /\ todo[j] # <<>> /\ Suffix(todo[j])
  BY <1>0 DEF Fetch, Phases, Job, store, world, Types
<1>2. a \in Asset /\ owner[a] = j /\ a \in Answers
  BY <1>0, <1>1, SuffixTail DEF Locked, Answers
<1>3. /\ pc' \in [Job -> {"idle", "assets", "fetch", "detect", "commit"}]
      /\ todo' \in [Job -> Seq(Asset)] /\ Suffix(todo'[j]) /\ pc'[j] \in {"commit", label}
      /\ pc'[j] = "commit" <=> todo'[j] = <<>>
      /\ \A i \in Job \ {j} : pc'[i] = pc[i] /\ todo'[i] = todo[i]
      /\ j = "backfill" => todo'[j] = todo[j]
  <2>1. CASE j = "backfill"
    <3>1. todo' = todo /\ pc' = [pc EXCEPT ![j] = "detect"]
      BY <2>1 DEF Fetch, AfterFetch
    <3> QED BY <1>0, <1>1, <2>1, <3>1 DEF Types
  <2>2. CASE j # "backfill"
    <3>1. NextAsset(j, "fetch")
      BY <2>2 DEF Fetch, AfterFetch
    <3> QED BY <1>1, <2>2, <3>1, NextAssetFact
  <2> QED BY <2>1, <2>2
<1>4. /\ new'[j][a] = Span(j) \ bars[a] /\ \A b \in Asset \ {a} : new'[j][b] = new[j][b]
      /\ \A i \in Job \ {j} : new'[i] = new[i]
  BY <1>0, <1>1, <1>2 DEF Types
<1>5. Types'
  <2>1. new' \in [Job -> [Asset -> SUBSET Day]]
    <3>1. Span(j) \in SUBSET Day
      BY <1>0, SpanFact
    <3> QED BY <1>0, <1>1, <1>2, <3>1 DEF Types
  <2> QED BY <1>0, <1>1, <1>3, <2>1 DEF Fetch, Types, store, world
<1>6. JobOK(j)'
  <2>1. Span(j)' = Span(j)
    BY <1>1 DEF Span
  <2>2. ASSUME NEW b \in Asset PROVE found[j][b] \subseteq Detections[b][bars[b] \cup new'[j][b]]
    <3>1. CASE b # a
      BY <1>0, <1>4, <3>1 DEF FoundTripped
    <3>2. CASE b = a
      <4>1. bars[a] \cup new'[j][a] = bars[a] \cup Span(j)
        BY <1>4
      <4>2. bars[a] \cup new[j][a] \subseteq bars[a] \cup Span(j)
        BY <1>0, <1>2 DEF Pending
      <4>3. /\ Interval(bars[a] \cup new[j][a]) /\ Interval(bars[a] \cup Span(j))
            /\ bars[a] \cup new[j][a] \in SUBSET Day
        BY <1>1, <1>2, Joined, SpanJoins
      <4>4. bars[a] \cup Span(j) \in SUBSET Day
        BY <1>0, <1>2, SpanFact DEF Types
      <4>5. Detections[a][bars[a] \cup new[j][a]] \subseteq Detections[a][bars[a] \cup Span(j)]
        <5> DEFINE S == bars[a] \cup new[j][a]
                   T == bars[a] \cup Span(j)
        <5>1. S \in SUBSET Day /\ T \in SUBSET Day /\ Interval(S) /\ Interval(T) /\ S \subseteq T
          BY <4>2, <4>3, <4>4
        <5> HIDE DEF S, T, a
        <5>2. Detections[a][S] \subseteq Detections[a][T]
          BY <1>2, <5>1, MoreDetections
        <5> QED BY <5>2 DEF S, T, a
      <4>6. found[j][a] \subseteq Detections[a][bars[a] \cup new[j][a]]
        BY <1>0, <1>2 DEF FoundTripped
      <4> QED BY <3>2, <4>1, <4>5, <4>6
    <3> QED BY <3>1, <3>2
  <2>3. \A b \in Asset : new'[j][b] # {} =>
             owner[b] = j /\ b \in Answers /\ new'[j][b] = Span(j) \ bars[b]
    BY <1>0, <1>2, <1>4 DEF Pending
  <2> QED BY <1>0, <1>1, <1>3, <2>1, <2>2, <2>3 DEF JobOK
<1>7. Locked'
  <2>1. {"ingest_bars", "backfill"} \subseteq Job
    BY DEF Job
  <2>2. /\ pc'["ingest_bars"] = "assets" =>
              pc["ingest_bars"] = "assets" /\ todo'["ingest_bars"] = todo["ingest_bars"]
        /\ pc'["ingest_bars"] = "fetch" => pc["ingest_bars"] = "fetch"
        /\ pc'["backfill"] = "fetch" => pc["backfill"] = "fetch" /\ todo'["backfill"] = todo["backfill"]
    BY <1>1, <1>3, <2>1
  <2> QED BY <1>0, <1>1, <2>2 DEF Locked
<1>8. \A i \in Job \ {j} : Own(i)' = Own(i)
  BY <1>1, <1>3, <1>4 DEF Own
<1>9. \A b \in Asset : \A i \in Job \ {j} : owner[b] = i => owner'[b] = i
  BY <1>1
<1> QED BY <1>1, <1>5, <1>6, <1>7, <1>8, <1>9, JobStep

LEMMA SkipKeeps ==
    ASSUME MInv, NEW j \in Job, Skip(j)
    PROVE  MInv'
<1> DEFINE label == IF j = "backfill" THEN "assets" ELSE "fetch"
<1>0. Types /\ Phases /\ JobOK(j) /\ Locked /\ Times
  BY EveryJobOK DEF MInv
<1>1. /\ j \in {"ingest_bars", "backfill"} /\ pc[j] = "fetch" /\ NextAsset(j, label)
      /\ owner' = owner /\ new' = new /\ found' = found /\ bars' = bars /\ anomalies' = anomalies
      /\ today' = today /\ asof' = asof
  BY <1>0 DEF Skip, Phases, Job, store, trans, world
<1>2. label \in {"assets", "fetch", "detect"} /\ (j = "ingest_bars" => label = "fetch")
  OBVIOUS
<1>3. /\ pc' \in [Job -> {"idle", "assets", "fetch", "detect", "commit"}]
      /\ todo' \in [Job -> Seq(Asset)] /\ Suffix(todo'[j]) /\ pc'[j] \in {"commit", label}
      /\ pc'[j] = "commit" <=> todo'[j] = <<>>
      /\ \A i \in Job \ {j} : pc'[i] = pc[i] /\ todo'[i] = todo[i]
  <2> HIDE DEF label
  <2> QED BY <1>1, <1>2, NextAssetFact
<1>4. Types'
  <2>1. faults' \in 0..MaxFaults
    BY FaultFact DEF Skip
  <2>2. skipped' \subseteq Asset
    <3>1. todo[j] \in Seq(Asset) /\ todo[j] # <<>> /\ Suffix(todo[j])
      BY <1>0, <1>1 DEF Types, Phases
    <3> QED BY <1>0, <3>1, SuffixTail DEF Skip, Types
  <2> QED BY <1>0, <1>1, <1>3, <2>1, <2>2 DEF Skip, Types, world
<1>5. JobOK(j)'
  <2>1. Span(j)' = Span(j)
    BY <1>1 DEF Span
  <2> QED BY <1>0, <1>1, <1>3, <2>1 DEF JobOK
<1>6. Locked'
  <2>1. {"ingest_bars", "backfill"} \subseteq Job
    BY DEF Job
  <2>2. /\ pc'["ingest_bars"] = "assets" =>
              pc["ingest_bars"] = "assets" /\ todo'["ingest_bars"] = todo["ingest_bars"]
        /\ pc'["ingest_bars"] = "fetch" => pc["ingest_bars"] = "fetch"
        /\ pc'["backfill"] = "fetch" => pc["backfill"] = "fetch" /\ todo'["backfill"] = todo["backfill"]
    BY <1>1, <1>3, <2>1
  <2> QED BY <1>0, <1>1, <2>2 DEF Locked
<1> QED BY <1>1, <1>3, <1>4, <1>5, <1>6, JobStep DEF Own

LEMMA DetectKeeps ==
    ASSUME MInv, NEW j \in Job, Detect(j)
    PROVE  MInv'
<1> DEFINE a == Head(todo[j])
           label == IF j = "backfill" THEN "assets" ELSE "detect"
           fresh == Tripped(j, a) \ anomalies[a]
<1>0. Types /\ Phases /\ JobOK(j) /\ Locked /\ Times
  BY EveryJobOK DEF MInv
<1>1. /\ j \in {"detect_anomalies", "backfill"} /\ pc[j] = "detect" /\ NextAsset(j, label)
      /\ found' = [found EXCEPT ![j][a] = fresh]
      /\ owner' = owner /\ new' = new /\ bars' = bars /\ anomalies' = anomalies
      /\ today' = today /\ asof' = asof
      /\ todo[j] \in Seq(Asset) /\ todo[j] # <<>> /\ Suffix(todo[j])
  BY <1>0 DEF Detect, Phases, Job, store, world, Types
<1>2. a \in Asset /\ label \in {"assets", "fetch", "detect"}
  BY <1>1, SuffixTail
<1>3. /\ pc' \in [Job -> {"idle", "assets", "fetch", "detect", "commit"}]
      /\ todo' \in [Job -> Seq(Asset)] /\ Suffix(todo'[j]) /\ pc'[j] \in {"commit", label}
      /\ pc'[j] = "commit" <=> todo'[j] = <<>>
      /\ \A i \in Job \ {j} : pc'[i] = pc[i] /\ todo'[i] = todo[i]
  <2> HIDE DEF label
  <2> QED BY <1>1, <1>2, NextAssetFact
<1>4. fresh \subseteq Detections[a][bars[a] \cup new[j][a]] /\ fresh \in SUBSET Day
  <2> DEFINE S == bars[a] \cup new[j][a]
  <2>1. S \in SUBSET Day /\ Interval(S)
    BY <1>2, Joined
  <2>2. Limit(j) \in Nat
    <3>1. Span(j) \in SUBSET Day
      BY <1>0, SpanFact
    <3>2. Cardinality(Span(j)) \in Nat
      BY <3>1, DaysAreFinite, FS_CardinalityType
    <3> QED BY <3>2, Numbers DEF Limit
  <2>3. Newest(S, Limit(j)) \subseteq S /\ Interval(Newest(S, Limit(j)))
    BY <2>1, <2>2, TailFact
  <2>4. Detections[a][Newest(S, Limit(j))] \subseteq Detections[a][S]
    <3> HIDE DEF S, a
    <3> QED BY <1>2, <2>1, <2>3, MoreDetections
  <2>5. Detections[a][S] \subseteq S
    <3> HIDE DEF S
    <3> QED BY <1>2, <2>1, DetectionsFact DEF DetectSeries, Scored
  <2> QED BY <2>1, <2>4, <2>5 DEF Tripped
<1> HIDE DEF fresh
<1>5. /\ found'[j][a] = fresh /\ \A b \in Asset \ {a} : found'[j][b] = found[j][b]
      /\ \A i \in Job \ {j} : found'[i] = found[i]
  BY <1>0, <1>1, <1>2 DEF Types
<1>6. Types'
  <2>1. found' \in [Job -> [Asset -> SUBSET Day]]
    BY <1>0, <1>1, <1>2, <1>4 DEF Types
  <2> QED BY <1>0, <1>1, <1>3, <2>1 DEF Detect, Types, world
<1>7. JobOK(j)'
  <2>1. Span(j)' = Span(j)
    BY <1>1 DEF Span
  <2>2. \A b \in Asset : found'[j][b] \subseteq Detections[b][bars[b] \cup new[j][b]]
    BY <1>0, <1>4, <1>5 DEF JobOK
  <2> QED BY <1>0, <1>1, <1>3, <2>1, <2>2 DEF JobOK
<1>8. Locked'
  <2>1. {"ingest_bars", "backfill"} \subseteq Job
    BY DEF Job
  <2>2. /\ pc'["ingest_bars"] = pc["ingest_bars"] /\ todo'["ingest_bars"] = todo["ingest_bars"]
        /\ pc'["backfill"] = "fetch" => pc["backfill"] = "fetch" /\ todo'["backfill"] = todo["backfill"]
    BY <1>1, <1>3, <2>1
  <2> QED BY <1>0, <1>1, <2>2 DEF Locked
<1> QED BY <1>1, <1>3, <1>5, <1>6, <1>7, <1>8, JobStep DEF Own

(***************************************************************************)
(* The end of transactions, and the world.                                 *)
(***************************************************************************)

\* Each asset's rows stay as they are, or gain what one of the transactions wrote.
Written(J) ==
    \A a \in Asset :
        \/ bars'[a] = bars[a] /\ anomalies'[a] = anomalies[a]
        \/ \E j \in J : /\ bars'[a] = bars[a] \cup new[j][a]
                        /\ anomalies'[a] = anomalies[a] \cup found[j][a]

\* The row lock is why at most one transaction has bars of an asset to commit.
LEMMA EndKeeps ==
    ASSUME MInv, NEW J \in SUBSET Job, EndTransactions(J), Written(J), today' = today,
           bars' \in [Asset -> SUBSET Day], anomalies' \in [Asset -> SUBSET Day],
           up' \in BOOLEAN, due' \in BOOLEAN, scored' \in BOOLEAN,
           skipped' \subseteq Asset, faults' \in 0..MaxFaults
    PROVE  MInv'
<1>0. /\ Types /\ Phases /\ Locked /\ Times /\ Reached /\ Pending /\ NoHoles
      /\ RecordedTripped /\ FoundTripped /\ FirstDay \in Day /\ today \in Int
      /\ Nothing \in [Asset -> SUBSET Day] /\ \A a \in Asset : Nothing[a] = {}
  BY Numbers DEF MInv, Nothing, Types
<1>1. /\ \A a \in Asset : owner'[a] = IF owner[a] \in J THEN NoJob ELSE owner[a]
      /\ \A j \in J : /\ new'[j] = Nothing /\ found'[j] = Nothing /\ pc'[j] = "idle"
                      /\ todo'[j] = <<>> /\ asof'[j] = FirstDay
      /\ \A i \in Job \ J : /\ new'[i] = new[i] /\ found'[i] = found[i] /\ pc'[i] = pc[i]
                            /\ todo'[i] = todo[i] /\ asof'[i] = asof[i]
  BY DEF EndTransactions
<1>2. Types'
  <2>1. owner' \in [Asset -> Job \cup {NoJob}]
    BY <1>0 DEF EndTransactions, Types
  <2>2. new' \in [Job -> [Asset -> SUBSET Day]] /\ found' \in [Job -> [Asset -> SUBSET Day]]
    BY <1>0 DEF EndTransactions, Types
  <2>3. pc' \in [Job -> {"idle", "assets", "fetch", "detect", "commit"}]
    BY <1>0 DEF EndTransactions, Types
  <2>4. todo' \in [Job -> Seq(Asset)] /\ asof' \in [Job -> Day]
    BY <1>0, OrderFact DEF EndTransactions, Types
  <2> QED BY <1>0, <2>1, <2>2, <2>3, <2>4 DEF Types
<1>3. ASSUME NEW a \in Asset
      PROVE  /\ bars[a] \subseteq bars'[a] /\ Interval(bars[a]) /\ Interval(bars'[a])
             /\ bars[a] \in SUBSET Day /\ bars'[a] \in SUBSET Day
             /\ \A d \in bars'[a] : d <= today
             /\ \A i \in Job \ J : new[i][a] # {} => bars'[a] = bars[a]
  <2>1. CASE bars'[a] = bars[a]
    BY <1>0, <2>1, Joined DEF Times, Types, NoHoles, Interval
  <2>2. CASE \E j \in J : bars'[a] = bars[a] \cup new[j][a]
    <3>1. PICK j \in J : bars'[a] = bars[a] \cup new[j][a]
      BY <2>2
    <3>2. bars[a] \subseteq bars'[a] /\ bars[a] \in SUBSET Day /\ bars'[a] \in SUBSET Day
      BY <1>0, <3>1 DEF Types
    <3>3. Interval(bars[a]) /\ Interval(bars'[a])
      BY <3>1, Joined
    <3>4. ASSUME NEW d \in bars'[a] PROVE d <= today
      <4>1. CASE d \in bars[a]
        BY <1>0, <4>1 DEF Times
      <4>2. CASE d \notin bars[a]
        <5>1. d \in Span(j) /\ d \in Int /\ asof[j] \in Int
          <6>1. d \in new[j][a] /\ new[j][a] # {} /\ j \in Job /\ d \in Day
            BY <3>1, <3>2, <4>2
          <6>2. d \in Span(j)
            BY <1>0, <6>1 DEF Pending
          <6> QED BY <1>0, <6>1, <6>2, Numbers DEF Types
        <5>2. d <= asof[j] /\ asof[j] <= today
          BY <1>0, <5>1, SpanFact DEF Times
        <5> QED BY <1>0, <5>1, <5>2
      <4> QED BY <4>1, <4>2
    <3>5. ASSUME NEW i \in Job \ J, new[i][a] # {} PROVE bars'[a] = bars[a]
      <4>1. owner[a] = i /\ i # j
        BY <1>0, <3>5 DEF Pending
      <4>2. new[j][a] = {}
        BY <1>0, <4>1 DEF Pending
      <4> QED BY <3>1, <4>2
    <3> QED BY <3>2, <3>3, <3>4, <3>5
  <2> QED BY <2>1, <2>2 DEF Written
<1>4. ASSUME NEW i \in Job PROVE JobOK(i)'
  <2>1. CASE i \in J
    <3>1. FirstDay <= today
      BY <1>0 DEF Times
    <3> QED BY <1>0, <1>1, <2>1, <3>1, OrderFact DEF JobOK
  <2>2. CASE i \notin J
    <3>1. /\ pc'[i] = pc[i] /\ todo'[i] = todo[i] /\ asof'[i] = asof[i] /\ new'[i] = new[i]
          /\ found'[i] = found[i] /\ JobOK(i)
      BY <1>1, <2>2, EveryJobOK
    <3>2. Span(i)' = Span(i)
      BY <3>1 DEF Span
    <3>3. ASSUME NEW a \in Asset, new[i][a] # {}
          PROVE  /\ owner'[a] = i /\ a \in Answers /\ pc[i] # "idle"
                 /\ i = "ingest_bars" => pc[i] # "assets"
                 /\ new[i][a] = Span(i) \ bars'[a]
      <4>1. bars'[a] = bars[a]
        BY <1>3, <2>2, <3>3
      <4> QED BY <1>0, <1>1, <2>2, <3>3, <4>1 DEF Pending
    <3>4. ASSUME NEW a \in Asset PROVE found[i][a] \subseteq Detections[a][bars'[a] \cup new[i][a]]
      <4>1. found[i][a] \subseteq Detections[a][bars[a] \cup new[i][a]]
        BY <1>0 DEF FoundTripped
      <4>2. CASE new[i][a] # {}
        <5>1. bars'[a] = bars[a]
          BY <1>3, <2>2, <4>2
        <5> QED BY <4>1, <5>1
      <4>3. CASE new[i][a] = {}
        <5>1. bars[a] \cup new[i][a] = bars[a] /\ bars'[a] \cup new[i][a] = bars'[a]
          BY <4>3
        <5>2. Detections[a][bars[a]] \subseteq Detections[a][bars'[a]]
          BY <1>3, MoreDetections
        <5> QED BY <4>1, <5>1, <5>2
      <4> QED BY <4>2, <4>3
    <3> QED BY <3>1, <3>2, <3>3, <3>4 DEF JobOK
  <2> QED BY <2>1, <2>2
<1>5. Phases' /\ Pending' /\ FoundTripped'
  <2>1. {"ingest_bars", "detect_anomalies"} \subseteq Job
    BY DEF Job
  <2> QED BY <1>4, <2>1 DEF JobOK, Phases, Pending, FoundTripped
<1>6. Times'
  BY <1>0, <1>3, <1>4 DEF Times, JobOK
<1>7. Locked'
  <2>1. {"ingest_bars", "backfill"} \subseteq Job
    BY DEF Job
  <2>2. ASSUME NEW i \in Job, pc'[i] # "idle" PROVE i \notin J
    BY <1>1, <2>2
  <2>3. /\ pc'["ingest_bars"] \in {"assets", "fetch"} =>
             /\ pc'["ingest_bars"] = pc["ingest_bars"] /\ todo'["ingest_bars"] = todo["ingest_bars"]
             /\ \A a \in Asset : owner[a] = "ingest_bars" => owner'[a] = "ingest_bars"
        /\ pc'["backfill"] = "fetch" =>
             /\ pc'["backfill"] = pc["backfill"] /\ todo'["backfill"] = todo["backfill"]
             /\ \A a \in Asset : owner[a] = "backfill" => owner'[a] = "backfill"
    BY <1>1, <2>1, <2>2
  <2>4. pc["backfill"] = "fetch" => Head(todo["backfill"]) \in Asset
    <3>1. pc["backfill"] = "fetch" =>
             todo["backfill"] \in Seq(Asset) /\ todo["backfill"] # <<>> /\ Suffix(todo["backfill"])
      BY <1>0, <2>1 DEF Types, Phases
    <3> QED BY <3>1, SuffixTail
  <2> QED BY <1>0, <2>3, <2>4 DEF Locked
<1>8. Reached'
  <2> SUFFICES ASSUME NEW a \in Asset, bars'[a] # {}
               PROVE  a \in Answers /\ \E d \in bars'[a] : today - d <= BARS_LOOKBACK + 1
    BY DEF Reached
  <2>1. CASE bars[a] # {}
    BY <1>0, <1>3, <2>1 DEF Reached
  <2>2. CASE bars[a] = {}
    <3>1. PICK j \in J : bars'[a] = bars[a] \cup new[j][a]
      BY <2>2 DEF Written
    <3>2. new[j][a] # {}
      BY <2>2, <3>1
    <3>3. a \in Answers /\ bars'[a] = Span(j) /\ pc[j] # "idle"
      BY <1>0, <2>2, <3>1, <3>2 DEF Pending
    <3>4. asof[j] \in bars'[a] /\ asof[j] \in Int /\ asof[j] >= today - 1
      BY <1>0, <3>3, SpanFact, Numbers DEF Types, Times
    <3>5. today - asof[j] <= BARS_LOOKBACK + 1
      BY <1>0, <3>4, Numbers
    <3> QED BY <3>3, <3>4, <3>5
  <2> QED BY <2>1, <2>2
<1>9. NoHoles'
  BY <1>3 DEF NoHoles, Interval
<1>10. RecordedTripped'
  <2> SUFFICES ASSUME NEW a \in Asset PROVE anomalies'[a] \subseteq Detections[a][bars'[a]]
    BY DEF RecordedTripped, Detections
  <2>1. anomalies[a] \subseteq Detections[a][bars'[a]]
    <3>1. Detections[a][bars[a]] \subseteq Detections[a][bars'[a]]
      BY <1>3, MoreDetections
    <3> QED BY <1>0, <3>1 DEF RecordedTripped
  <2>2. CASE anomalies'[a] = anomalies[a]
    BY <2>1, <2>2
  <2>3. ASSUME NEW j \in J, bars'[a] = bars[a] \cup new[j][a], anomalies'[a] = anomalies[a] \cup found[j][a]
        PROVE  anomalies'[a] \subseteq Detections[a][bars'[a]]
    BY <1>0, <2>1, <2>3 DEF FoundTripped
  <2> QED BY <2>2, <2>3 DEF Written
<1> QED BY <1>2, <1>5, <1>6, <1>7, <1>8, <1>9, <1>10 DEF MInv

LEMMA CommitKeeps ==
    ASSUME MInv, NEW j \in Job, Commit(j)
    PROVE  MInv'
<1>1. Types
  BY DEF MInv
<1>2. bars' \in [Asset -> SUBSET Day] /\ anomalies' \in [Asset -> SUBSET Day]
  BY <1>1 DEF Commit, Types
<1>3. Written({j})
  BY <1>1 DEF Commit, Written, Types
<1>4. scored' \in BOOLEAN
  BY <1>1 DEF Commit, Types
<1>5. /\ EndTransactions({j}) /\ today' = today /\ up' \in BOOLEAN /\ due' \in BOOLEAN
      /\ skipped' \subseteq Asset /\ faults' \in 0..MaxFaults
  BY <1>1 DEF Commit, world, Types
<1> QED BY <1>2, <1>3, <1>4, <1>5, EndKeeps

LEMMA LossKeeps ==
    ASSUME MInv, NEW J \in SUBSET Job, EndTransactions(J), UNCHANGED <<store, today, scored, skipped>>,
           up' \in BOOLEAN, due' \in BOOLEAN, Fault \/ UNCHANGED faults
    PROVE  MInv'
<1>1. Types
  BY DEF MInv
<1>2. Written(J)
  BY DEF Written, store
<1>3. faults' \in 0..MaxFaults
  BY FaultFact
<1> QED BY <1>1, <1>2, <1>3, EndKeeps DEF store, Types

LEMMA RestartKeeps ==
    ASSUME MInv, Restart
    PROVE  MInv'
<1>1. Types /\ Phases /\ Locked /\ Times /\ Reached /\ Pending /\ NoHoles /\ RecordedTripped /\ FoundTripped
  BY DEF MInv
<1>2. /\ bars' = bars /\ anomalies' = anomalies /\ owner' = owner /\ new' = new /\ found' = found
      /\ pc' = pc /\ todo' = todo /\ asof' = asof /\ today' = today /\ scored' = scored
      /\ skipped' = skipped /\ faults' = faults /\ up' \in BOOLEAN /\ due' \in BOOLEAN
  BY DEF Restart, store, trans, tick
<1>3. Types'
  BY <1>1, <1>2 DEF Types
<1>4. Phases' /\ Locked' /\ Times' /\ Reached'
  BY <1>1, <1>2 DEF Phases, Locked, Times, Reached
<1>5. Pending' /\ NoHoles' /\ RecordedTripped' /\ FoundTripped'
  <2>1. \A j \in Job : Span(j)' = Span(j)
    BY <1>2 DEF Span
  <2> QED BY <1>1, <1>2, <2>1 DEF Pending, NoHoles, RecordedTripped, FoundTripped
<1> QED BY <1>3, <1>4, <1>5 DEF MInv

\* What the environment grants: no tick outlasts a day, no outage the lookback.
LEMMA NewDayKeeps ==
    ASSUME MInv, NewDay
    PROVE  MInv'
<1>1. Types /\ Phases /\ Locked /\ Times /\ Reached /\ Pending /\ NoHoles /\ RecordedTripped /\ FoundTripped
  BY DEF MInv
<1>2. /\ bars' = bars /\ anomalies' = anomalies /\ owner' = owner /\ new' = new /\ found' = found
      /\ pc' = pc /\ todo' = todo /\ asof' = asof /\ today' = today + 1 /\ scored' \in BOOLEAN
      /\ skipped' = skipped /\ faults' = faults /\ up' = up /\ due' = due /\ today < LastDay
      /\ \A j \in Job : pc[j] # "idle" => asof[j] = today
      /\ \A a \in Answers : bars[a] # {} => \E d \in bars[a] : today - d <= BARS_LOOKBACK
  BY DEF NewDay, store, trans, tick
<1>3. /\ today \in Int /\ FirstDay \in Int /\ today + 1 \in Day /\ \A j \in Job : asof[j] \in Int
      /\ \A a \in Asset : \A d \in bars[a] : d \in Int
  BY <1>1, <1>2, Numbers DEF Types
<1>4. Types'
  BY <1>1, <1>2, <1>3 DEF Types
<1>5. Phases' /\ Locked'
  BY <1>1, <1>2 DEF Phases, Locked
<1>6. Times'
  <2>1. today + 1 >= FirstDay
    BY <1>1, <1>3 DEF Times
  <2>2. \A j \in Job : asof[j] <= today + 1 /\ (pc[j] # "idle" => asof[j] >= (today + 1) - 1)
    BY <1>1, <1>2, <1>3 DEF Times
  <2>3. \A a \in Asset : \A d \in bars[a] : d <= today + 1
    BY <1>1, <1>3 DEF Times
  <2> QED BY <1>2, <2>1, <2>2, <2>3 DEF Times
<1>7. Reached'
  <2> SUFFICES ASSUME NEW a \in Asset, bars[a] # {}
               PROVE  a \in Answers /\ \E d \in bars[a] : (today + 1) - d <= BARS_LOOKBACK + 1
    BY <1>2 DEF Reached
  <2>1. a \in Answers
    BY <1>1 DEF Reached
  <2>2. PICK d \in bars[a] : today - d <= BARS_LOOKBACK
    BY <1>2, <2>1
  <2>3. (today + 1) - d <= BARS_LOOKBACK + 1
    BY <1>3, <2>2, Numbers
  <2> QED BY <2>1, <2>3
<1>8. Pending' /\ NoHoles' /\ RecordedTripped' /\ FoundTripped'
  <2>1. \A j \in Job : Span(j)' = Span(j)
    BY <1>2 DEF Span
  <2> QED BY <1>1, <1>2, <2>1 DEF Pending, NoHoles, RecordedTripped, FoundTripped
<1> QED BY <1>4, <1>5, <1>6, <1>7, <1>8 DEF MInv

LEMMA StutterKeeps ==
    ASSUME MInv, UNCHANGED vars
    PROVE  MInv'
<1>1. Types /\ Phases /\ Locked /\ Times /\ Reached /\ Pending /\ NoHoles /\ RecordedTripped /\ FoundTripped
  BY DEF MInv
<1>2. /\ bars' = bars /\ anomalies' = anomalies /\ owner' = owner /\ new' = new /\ found' = found
      /\ pc' = pc /\ todo' = todo /\ asof' = asof /\ today' = today /\ scored' = scored
      /\ skipped' = skipped /\ faults' = faults /\ up' = up /\ due' = due
  BY DEF vars, store, trans, tick, world
<1>3. Types' /\ Phases' /\ Locked' /\ Times' /\ Reached'
  BY <1>1, <1>2 DEF Types, Phases, Locked, Times, Reached
<1>4. Pending' /\ NoHoles' /\ RecordedTripped' /\ FoundTripped'
  <2>1. \A j \in Job : Span(j)' = Span(j)
    BY <1>2 DEF Span
  <2> QED BY <1>1, <1>2, <2>1 DEF Pending, NoHoles, RecordedTripped, FoundTripped
<1> QED BY <1>3, <1>4 DEF MInv

(***************************************************************************)
(* The invariant, and the theorems.                                        *)
(***************************************************************************)

LEMMA MInvInit ==
    ASSUME Init
    PROVE  MInv
<1>1. /\ \A a \in Asset : bars[a] = {} /\ anomalies[a] = {}
      /\ \A j \in Job : /\ pc[j] = "idle" /\ todo[j] = <<>> /\ asof[j] = FirstDay
                        /\ \A a \in Asset : new[j][a] = {} /\ found[j][a] = {}
      /\ today = FirstDay
  BY DEF Init, Nothing
<1>2. Types
  <2>1. Nothing \in [Asset -> SUBSET Day]
    BY DEF Nothing
  <2>2. /\ owner \in [Asset -> Job \cup {NoJob}] /\ todo \in [Job -> Seq(Asset)]
        /\ pc \in [Job -> {"idle", "assets", "fetch", "detect", "commit"}]
    BY OrderFact DEF Init
  <2>3. /\ bars \in [Asset -> SUBSET Day] /\ anomalies \in [Asset -> SUBSET Day]
        /\ new \in [Job -> [Asset -> SUBSET Day]] /\ found \in [Job -> [Asset -> SUBSET Day]]
    BY <2>1 DEF Init
  <2>4. asof \in [Job -> Day] /\ today \in Day /\ faults \in 0..MaxFaults
    BY Numbers DEF Init
  <2>5. up \in BOOLEAN /\ due \in BOOLEAN /\ scored \in BOOLEAN /\ skipped \subseteq Asset
    BY DEF Init
  <2> QED BY <2>2, <2>3, <2>4, <2>5 DEF Types
<1>3. {"ingest_bars", "backfill", "detect_anomalies"} \subseteq Job
  BY DEF Job
<1>4. Phases /\ Locked /\ Pending
  BY <1>1, <1>3, OrderFact DEF Phases, Locked, Pending
<1>5. Times /\ Reached /\ NoHoles
  BY <1>1, Numbers DEF Times, Reached, NoHoles
<1>6. RecordedTripped /\ FoundTripped
  BY <1>1 DEF RecordedTripped, FoundTripped
<1> QED BY <1>2, <1>4, <1>5, <1>6 DEF MInv

LEMMA MInvNext ==
    ASSUME MInv, [Next]_vars
    PROVE  MInv'
<1>0. Types /\ {"ingest_bars", "backfill", "detect_anomalies"} \subseteq Job /\ {} \subseteq Asset
  BY DEF MInv, Job
<1>1. CASE StartIngest
  BY <1>0, <1>1, StartKeeps DEF StartIngest, Types
<1>2. CASE StartDetect
  BY <1>0, <1>2, StartKeeps DEF StartDetect, Types
<1>3. CASE StartBackfill
  BY <1>0, <1>3, StartKeeps DEF StartBackfill, Types
<1>4. ASSUME NEW j \in Job, EnsureAssets(j) PROVE MInv'
  BY <1>4, EnsureAssetsKeeps
<1>5. CASE BackfillAsset
  BY <1>5, BackfillAssetKeeps
<1>6. ASSUME NEW j \in Job, Fetch(j) PROVE MInv'
  BY <1>6, FetchKeeps
<1>7. ASSUME NEW j \in Job, Skip(j) PROVE MInv'
  BY <1>7, SkipKeeps
<1>8. ASSUME NEW j \in Job, Detect(j) PROVE MInv'
  BY <1>8, DetectKeeps
<1>9. ASSUME NEW j \in Job, Commit(j) PROVE MInv'
  BY <1>9, CommitKeeps
<1>10. ASSUME NEW j \in Job, Raise(j) PROVE MInv'
  <2>1. /\ EndTransactions({j}) /\ UNCHANGED <<store, today, scored, skipped>>
        /\ up' \in BOOLEAN /\ due' \in BOOLEAN /\ (Fault \/ UNCHANGED faults)
    BY <1>0, <1>10 DEF Raise, Rollback, world, Types
  <2> QED BY <2>1, LossKeeps
<1>11. CASE Crash
  <2>1. /\ EndTransactions(Job) /\ UNCHANGED <<store, today, scored, skipped>>
        /\ up' \in BOOLEAN /\ due' \in BOOLEAN /\ (Fault \/ UNCHANGED faults)
    BY <1>0, <1>11 DEF Crash, Types
  <2> QED BY <2>1, LossKeeps
<1>12. CASE Restart
  BY <1>12, RestartKeeps
<1>13. CASE NewDay
  BY <1>13, NewDayKeeps
<1>14. CASE UNCHANGED vars
  BY <1>14, StutterKeeps
<1> QED BY <1>1, <1>2, <1>3, <1>4, <1>5, <1>6, <1>7, <1>8, <1>9, <1>10, <1>11, <1>12, <1>13, <1>14 DEF Next

LEMMA Invariance == Spec => []MInv
<1>1. Init => MInv
  BY MInvInit
<1>2. MInv /\ [Next]_vars => MInv'
  BY MInvNext
<1> QED BY <1>1, <1>2, PTL DEF Spec

\* The types, every list of assets the end of the given order, and no bar written
\* by two open transactions: the row locks of AssetRepository.upsert.
THEOREM TypeCorrect == Spec => []TypeOK
<1>1. ASSUME MInv PROVE TypeOK
  <2>1. Types /\ Phases /\ Pending
    BY <1>1 DEF MInv
  <2>2. \A j \in Job : IsSuffix(todo[j], AssetOrder)
    BY <2>1, SuffixIsSuffix DEF Types, Phases
  <2>3. \A a \in Asset : \A i \in Job : \A j \in Job \ {i} : new[i][a] \cap new[j][a] = {}
    BY <2>1 DEF Pending
  <2>4. \A j \in Job : pc[j] \in {"idle", "commit"} <=> todo[j] = <<>>
    BY <2>1 DEF Phases
  <2> QED BY <2>1, <2>2, <2>3, <2>4 DEF TypeOK, Types
<1> QED BY <1>1, Invariance, PTL

\* Whatever order backfill, ingest ticks, outages, exceptions and restarts come in,
\* the stored history of an asset has no hole.
THEOREM HistoryHasNoHoles == Spec => []NoHoles
<1>1. MInv => NoHoles
  BY DEF MInv
<1> QED BY <1>1, Invariance, PTL

\* Whatever a job read when it scored an asset, what it recorded is what a full
\* pass over the stored history finds.
THEOREM RecordedAreConfirmed == Spec => []RecordedTripped
<1>1. MInv => RecordedTripped
  BY DEF MInv
<1> QED BY <1>1, Invariance, PTL
==============================================================================
