----------------------------- MODULE ReportProofs -----------------------------
(***************************************************************************)
(* Proofs about what a report rests on: the filing its analysts see        *)
(* (Grounding, Chunking), the figures they get (MarketData), the score     *)
(* that sums them up (Scoring) and the model that writes them (Canary).    *)
(*                                                                         *)
(* GroundingInv is inductive as it stands: Settling gives a reason for     *)
(* each thing that AgentsSeeFiling and OnlyRacesKill promise.  Chunks and  *)
(* figures are functions of their input, which no step of MCFigures        *)
(* changes: each property of them is a fact about every input, proved by   *)
(* induction over what a sum, a maximum, a minimum or a flattened sequence *)
(* ranges over.                                                            *)
(***************************************************************************)
EXTENDS Grounding, MCFigures, FiniteSetTheorems, SequenceTheorems, NaturalsInduction,
        WellFoundedInduction, TLAPS

-----------------------------------------------------------------------------
(* Sums, by induction over how many numbers are added                      *)

\* Induction, over a set of numbers rather than a predicate of them.
LEMMA Induction ==
    ASSUME NEW S, 0 \in S, \A n \in Nat : n \in S => n + 1 \in S
    PROVE  \A n \in Nat : n \in S
<1> SUFFICES ASSUME Nat \ S # {} PROVE FALSE
  OBVIOUS
<1>1. PICK m \in Nat \ S : \A n \in Nat \ S : ~(<<n, m>> \in OpToRel(<, Nat))
  BY NatLessThanWellFounded, WFMin, Zenon
<1>2. \A n \in Nat \ S : ~(n < m)
  BY <1>1 DEF OpToRel
<1>3. m - 1 \in Nat /\ m - 1 \in S
  BY <1>2
<1> QED
  BY <1>3

\* f holds the partial sums of g up to n.
Sums(f, g, n) == f[0] = 0 /\ \A k \in 1 .. n : f[k] = f[k - 1] + g[k]

\* There are such partial sums for every n, though not by the definition of SumTo ...
LEMMA SumExists ==
  ASSUME NEW g
  PROVE  \A n \in Nat : \E f : f = [k \in 0 .. n |-> f[k]] /\ Sums(f, g, n)
<1> DEFINE N == {n \in Nat : \E f : f = [k \in 0 .. n |-> f[k]] /\ Sums(f, g, n)}
<1>1. 0 \in N
  <2> DEFINE f == [k \in 0 .. 0 |-> 0]
  <2>1. f = [k \in 0 .. 0 |-> f[k]] /\ Sums(f, g, 0)
    BY DEF Sums
  <2> QED
    BY <2>1
<1>2. ASSUME NEW n \in Nat, n \in N PROVE n + 1 \in N
  <2>1. PICK f : f = [k \in 0 .. n |-> f[k]] /\ Sums(f, g, n)
    BY <1>2
  <2> DEFINE h == [k \in 0 .. n + 1 |-> IF k = n + 1 THEN f[n] + g[n + 1] ELSE f[k]]
  <2>2. /\ h[n + 1] = f[n] + g[n + 1]
        /\ \A k \in 0 .. n : h[k] = f[k]
        /\ h = [k \in 0 .. n + 1 |-> h[k]]
    OBVIOUS
  <2> HIDE DEF h
  <2>3. ASSUME NEW k \in 1 .. n + 1 PROVE h[k] = h[k - 1] + g[k]
    <3>1. CASE k = n + 1
      <4>1. k - 1 = n /\ n \in 0 .. n
        BY <3>1
      <4> QED
        BY <2>2, <3>1, <4>1
    <3>2. CASE k # n + 1
      <4>1. k \in 1 .. n /\ k \in 0 .. n /\ k - 1 \in 0 .. n
        BY <3>2
      <4> QED
        BY <4>1, <2>1, <2>2 DEF Sums
    <3> QED
      BY <3>1, <3>2
  <2>4. Sums(h, g, n + 1)
    <3>0. f[0] = 0 /\ 0 \in 0 .. n
      BY <2>1 DEF Sums
    <3>1. h[0] = 0
      BY <2>2, <3>0
    <3> QED
      BY <2>3, <3>1 DEF Sums
  <2> QED
    BY <2>2, <2>4
<1>3. \A n \in Nat : n \in N
  <2> HIDE DEF N
  <2> QED
    BY <1>1, <1>2, Induction
<1> QED
  BY <1>3

\* ... and SumTo is the last of them.
LEMMA SumIs ==
  ASSUME NEW g, NEW n \in Nat
  PROVE  \E f : Sums(f, g, n) /\ SumTo(g, n) = f[n]
<1> DEFINE Rec(f, k) == IF k = 0 THEN 0 ELSE f[k - 1] + g[k]
<1>1. \E f : f = [k \in 0 .. n |-> Rec(f, k)]
  <2>1. PICK f : f = [k \in 0 .. n |-> f[k]] /\ Sums(f, g, n)
    BY SumExists
  <2>2. \A k \in 0 .. n : f[k] = Rec(f, k)
    <3>1. \A k \in 0 .. n : k = 0 \/ k \in 1 .. n
      OBVIOUS
    <3> QED
      BY <2>1, <3>1 DEF Sums
  <2>3. [k \in 0 .. n |-> f[k]] = [k \in 0 .. n |-> Rec(f, k)]
    BY <2>2
  <2> QED
    BY <2>1, <2>3
<1> DEFINE u == CHOOSE f : f = [k \in 0 .. n |-> Rec(f, k)]
<1>2. u = [k \in 0 .. n |-> Rec(u, k)]
  BY <1>1
<1>3. SumTo(g, n) = u[n]
  BY DEF SumTo
<1> HIDE DEF u
<1>4. Sums(u, g, n)
  <2>1. \A k \in 0 .. n : u[k] = Rec(u, k)
    BY <1>2
  <2> QED
    BY <2>1 DEF Sums
<1> QED
  BY <1>3, <1>4

\* Partial sums of integers are integers.
LEMMA SumTyped ==
  ASSUME NEW f, NEW g, NEW n \in Nat, Sums(f, g, n), \A k \in 1 .. n : g[k] \in Int
  PROVE  \A k \in 0 .. n : f[k] \in Int
<1> DEFINE N == {k \in Nat : k <= n => f[k] \in Int}
<1>1. 0 \in N
  BY DEF Sums
<1>2. ASSUME NEW k \in Nat, k \in N PROVE k + 1 \in N
  BY <1>2 DEF Sums
<1>3. \A k \in Nat : k \in N
  <2> HIDE DEF N
  <2> QED
    BY <1>1, <1>2, Induction
<1> QED
  BY <1>3

\* What is true of all parts of two sums is true of the sums, and strictly if of one part.
Ordered(p, g, m, c, n) ==
    /\ SumTo(g, n) \in Int /\ SumTo(c, n) \in Int
    /\ p * SumTo(g, n) <= m * SumTo(c, n)
    /\ (\E k \in 1 .. n : p * g[k] < m * c[k]) => p * SumTo(g, n) < m * SumTo(c, n)

\* The sums are ordered as Ordered says.
LEMMA SumsCompare ==
  ASSUME NEW g, NEW c, NEW n \in Nat, NEW p \in Int, NEW m \in Int,
         \A k \in 1 .. n : g[k] \in Int /\ c[k] \in Int /\ p * g[k] <= m * c[k]
  PROVE  Ordered(p, g, m, c, n)
<1>1. PICK f : Sums(f, g, n) /\ SumTo(g, n) = f[n]
  BY SumIs
<1>2. PICK d : Sums(d, c, n) /\ SumTo(c, n) = d[n]
  BY SumIs
<1>3. \A k \in 0 .. n : f[k] \in Int /\ d[k] \in Int
  BY <1>1, <1>2, SumTyped
<1> DEFINE Less(k) == \E j \in 1 .. k : p * g[j] < m * c[j]
           Ok(k) == p * f[k] <= m * d[k] /\ (Less(k) => p * f[k] < m * d[k])
           N == {k \in Nat : k <= n => Ok(k)}
<1>4. 0 \in N
  BY <1>1, <1>2 DEF Sums
<1>5. ASSUME NEW k \in Nat, k \in N PROVE k + 1 \in N
  <2> SUFFICES ASSUME k + 1 <= n PROVE Ok(k + 1)
    OBVIOUS
  <2>1. f[k + 1] = f[k] + g[k + 1] /\ d[k + 1] = d[k] + c[k + 1]
    BY <1>1, <1>2 DEF Sums
  <2>2. f[k] \in Int /\ d[k] \in Int /\ Ok(k)
    BY <1>3, <1>5
  <2>3. g[k + 1] \in Int /\ c[k + 1] \in Int /\ p * g[k + 1] <= m * c[k + 1]
    OBVIOUS
  <2>4. Less(k + 1) => Less(k) \/ p * g[k + 1] < m * c[k + 1]
    OBVIOUS
  <2>5. /\ m * (d[k] + c[k + 1]) = m * d[k] + m * c[k + 1] /\ m * d[k] \in Int /\ m * c[k + 1] \in Int
        /\ p * (f[k] + g[k + 1]) = p * f[k] + p * g[k + 1] /\ p * f[k] \in Int /\ p * g[k + 1] \in Int
    BY <2>2, <2>3
  <2> HIDE DEF Less
  <2> QED
    BY <2>1, <2>2, <2>3, <2>4, <2>5
<1>6. \A k \in Nat : k \in N
  <2> HIDE DEF N
  <2> QED
    BY <1>4, <1>5, Induction
<1>7. Ok(n)
  BY <1>6
<1> QED
  BY <1>1, <1>2, <1>3, <1>7 DEF Ordered

SumsTyped(g, n) == \A k \in 1 .. n : g[k] \in Int

\* A sum of integers is an integer.
LEMMA SumTypes ==
  ASSUME NEW g, NEW n \in Nat, SumsTyped(g, n)
  PROVE  SumTo(g, n) \in Int
<1>1. PICK f : Sums(f, g, n) /\ SumTo(g, n) = f[n]
  BY SumIs
<1> QED
  BY <1>1, SumTyped DEF SumsTyped

-----------------------------------------------------------------------------
(* Scoring: the overall score of any pillars                               *)

\* The weighted sum, in numbers.
LEMMA WeightedIs ==
  ASSUME NEW score \in [Pillars -> Scores]
  PROVE  \E f, r, s, t \in Scores :
            /\ score["fundamentals"] = f /\ score["risk"] = r
            /\ score["sentiment"] = s /\ score["technicals"] = t
            /\ Weighted(score) = 35 * f + 30 * r + 20 * s + 15 * t
  BY DEF Weighted, Part, PILLAR_WEIGHTS, Pillars

\* One point more for a pillar raises the sum by that pillar's weight.
LEMMA Rising ==
  ASSUME NEW score \in [Pillars -> Scores], NEW p \in Pillars, score[p] < 100
  PROVE  /\ [score EXCEPT ![p] = @ + 1] \in [Pillars -> Scores]
         /\ Weighted([score EXCEPT ![p] = @ + 1]) \in Int
         /\ Weighted([score EXCEPT ![p] = @ + 1]) - Weighted(score) \in 15 .. 35
<1> DEFINE up == [score EXCEPT ![p] = @ + 1]
<1>1. score[p] + 1 \in Scores
  BY DEF Scores
<1>2. up \in [Pillars -> Scores]
  BY <1>1
<1>3. \A q \in Pillars : up[q] = IF q = p THEN score[q] + 1 ELSE score[q]
  OBVIOUS
<1> HIDE DEF up
<1>4. PICK f, r, s, t \in Scores :
            /\ score["fundamentals"] = f /\ score["risk"] = r
            /\ score["sentiment"] = s /\ score["technicals"] = t
            /\ Weighted(score) = 35 * f + 30 * r + 20 * s + 15 * t
  BY WeightedIs
<1>5. PICK f1, r1, s1, t1 \in Scores :
            /\ up["fundamentals"] = f1 /\ up["risk"] = r1
            /\ up["sentiment"] = s1 /\ up["technicals"] = t1
            /\ Weighted(up) = 35 * f1 + 30 * r1 + 20 * s1 + 15 * t1
  BY <1>2, WeightedIs
<1>6. Weighted(up) - Weighted(score) \in {15, 20, 30, 35}
  <2>1. CASE p = "fundamentals"
    <3>1. f1 = f + 1 /\ r1 = r /\ s1 = s /\ t1 = t
      BY <1>3, <1>4, <1>5, <2>1 DEF Pillars
    <3> QED BY <1>4, <1>5, <3>1 DEF Scores
  <2>2. CASE p = "risk"
    <3>1. f1 = f /\ r1 = r + 1 /\ s1 = s /\ t1 = t
      BY <1>3, <1>4, <1>5, <2>2 DEF Pillars
    <3> QED BY <1>4, <1>5, <3>1 DEF Scores
  <2>3. CASE p = "sentiment"
    <3>1. f1 = f /\ r1 = r /\ s1 = s + 1 /\ t1 = t
      BY <1>3, <1>4, <1>5, <2>3 DEF Pillars
    <3> QED BY <1>4, <1>5, <3>1 DEF Scores
  <2>4. CASE p = "technicals"
    <3>1. f1 = f /\ r1 = r /\ s1 = s /\ t1 = t + 1
      BY <1>3, <1>4, <1>5, <2>4 DEF Pillars
    <3> QED BY <1>4, <1>5, <3>1 DEF Scores
  <2> QED BY <2>1, <2>2, <2>3, <2>4 DEF Pillars
<1>7. up \in [Pillars -> Scores] /\ Weighted(up) \in Int /\ Weighted(up) - Weighted(score) \in 15 .. 35
  BY <1>2, <1>5, <1>6 DEF Scores
<1> QED BY <1>7 DEF up

\* The ranks of the verdicts a score allows.
LEMMA RanksOf ==
  ASSUME NEW y \in Scores
  PROVE  Ranks(y) = IF y >= 80 THEN {4, 5} ELSE IF y >= 65 THEN {3, 4} ELSE IF y >= 45 THEN {2, 3, 4}
                    ELSE IF y >= 30 THEN {1, 2, 3} ELSE {1, 2}
<1>1. DOMAIN Verdicts = 1 .. 5 
  BY DEF Verdicts
<1>2. /\ Verdicts[1] = "STRONG_SELL" /\ Verdicts[2] = "SELL" /\ Verdicts[3] = "HOLD"
      /\ Verdicts[4] = "BUY" /\ Verdicts[5] = "STRONG_BUY"
  BY DEF Verdicts
<1>3. \A k \in 1 .. 5 : k \in {1, 2, 3, 4, 5}
  OBVIOUS
<1>4. VerdictBand(y) = IF y >= 80 THEN {"STRONG_BUY", "BUY"} ELSE IF y >= 65 THEN {"BUY", "HOLD"}
        ELSE IF y >= 45 THEN {"HOLD", "SELL", "BUY"}
                    ELSE IF y >= 30 THEN {"SELL", "HOLD", "STRONG_SELL"} ELSE {"STRONG_SELL", "SELL"}
  BY DEF VerdictBand, Scores
<1> QED BY <1>1, <1>2, <1>3, <1>4 DEF Ranks

\* What Max and Min choose.
LEMMA MaxIs == ASSUME NEW S, NEW m \in S, S \subseteq Int, \A x \in S : x <= m PROVE Max(S) = m
<1>1. \A x \in S : (\A y \in S : x >= y) => x = m
  OBVIOUS
<1>2. \A y \in S : m >= y
  OBVIOUS
<1> QED BY <1>1, <1>2 DEF Max

\* The same for the least.
LEMMA MinIs == ASSUME NEW S, NEW m \in S, S \subseteq Int, \A x \in S : m <= x PROVE Min(S) = m
<1>1. \A x \in S : (\A y \in S : x <= y) => x = m
  OBVIOUS
<1> QED BY <1>1 DEF Min

Top(y) == IF y >= 80 THEN 5 ELSE IF y >= 45 THEN 4 ELSE IF y >= 30 THEN 3 ELSE 2
Low(y) == IF y >= 80 THEN 4 ELSE IF y >= 65 THEN 3 ELSE IF y >= 45 THEN 2 ELSE 1

\* The best and the worst verdict of a score.
LEMMA RankBounds ==
  ASSUME NEW y \in Scores
  PROVE  Max(Ranks(y)) = Top(y) /\ Min(Ranks(y)) = Low(y)
<1>1. /\ Top(y) \in Ranks(y) /\ Low(y) \in Ranks(y) /\ Ranks(y) \subseteq Int
      /\ \A x \in Ranks(y) : x <= Top(y) /\ Low(y) <= x
  BY RanksOf DEF Top, Low, Scores
<1> QED BY <1>1, MaxIs, MinIs

\* The overall score of any pillars is sound.
LEMMA ScoreIsSound ==
  ASSUME NEW score \in [Pillars -> Scores]
  PROVE  SoundScore(score)
<1> DEFINE w == Weighted(score)
<1>0. PICK f, r, s, t \in Scores :
            /\ score["fundamentals"] = f /\ score["risk"] = r
            /\ score["sentiment"] = s /\ score["technicals"] = t
            /\ w = 35 * f + 30 * r + 20 * s + 15 * t
  BY WeightedIs
<1> HIDE DEF w
<1>1. w \in 0 .. 10000
  BY <1>0 DEF Scores
<1>2. OverallScores(score) # {}
  <2>0. (w + 50) \div 100 \in Int /\ 100 * ((w + 50) \div 100) <= w + 50 /\ w + 50 < 100 * ((w + 50) \div 100) + 100
    BY <1>1
  <2>1. PICK y \in Int : 100 * y <= w + 50 /\ w + 50 < 100 * y + 100
    BY <2>0
  <2>2. y \in Scores /\ 100 * y - w \in -50 .. 50
    BY <1>1, <2>1 DEF Scores
  <2> QED BY <2>2 DEF OverallScores, w
<1>3. ASSUME NEW y \in OverallScores(score)
      PROVE  (\E p \in Pillars : score[p] <= y) /\ (\E p \in Pillars : y <= score[p])
  <2>1. y \in Int /\ 100 * y - w <= 50 /\ -50 <= 100 * y - w
    BY <1>1 DEF OverallScores, w, Scores
  <2>2. f <= y \/ r <= y \/ s <= y \/ t <= y
    BY <1>0, <2>1 DEF Scores
  <2>3. y <= f \/ y <= r \/ y <= s \/ y <= t
    BY <1>0, <2>1 DEF Scores
  <2> QED BY <1>0, <2>2, <2>3 DEF Pillars
<1>4. ASSUME NEW y \in OverallScores(score), NEW p \in Pillars, score[p] < 100,
             NEW z \in OverallScores([score EXCEPT ![p] = @ + 1])
      PROVE  /\ y <= z
             /\ VerdictBand(y) \cap VerdictBand(z) # {}
             /\ Max(Ranks(y)) <= Max(Ranks(z)) /\ Min(Ranks(y)) <= Min(Ranks(z))
  <2>1. y \in Scores /\ z \in Scores /\ z \in {y, y + 1}
    <3> DEFINE v == Weighted([score EXCEPT ![p] = @ + 1])
    <3>1. v - w \in 15 .. 35
      BY <1>4, Rising DEF w
    <3>2. y \in Scores /\ z \in Scores /\ 100 * y - w \in -50 .. 50 /\ 100 * z - v \in -50 .. 50
      BY <1>4 DEF OverallScores, w
    <3>3. v \in Int
      BY <1>4, Rising
    <3> HIDE DEF v
    <3> QED BY <1>1, <3>1, <3>2, <3>3 DEF Scores
  <2>2. VerdictBand(y) \cap VerdictBand(z) # {}
    BY <2>1 DEF VerdictBand, Scores
  <2> QED BY <2>1, <2>2, RankBounds DEF Top, Low, Scores
<1> QED BY <1>2, <1>3, <1>4 DEF SoundScore

-----------------------------------------------------------------------------
(* Canary: any percentages, any sample of judged reports                   *)

\* The slice of a percentage is its first buckets, if there is a candidate.
LEMMA SliceIs ==
  ASSUME NEW p \in 0 .. Buckets
  PROVE  {b \in 0 .. Buckets - 1 : RunModel("inline", b, p, "pro") = Candidate} =
            IF Candidate = Unset THEN {} ELSE 0 .. p - 1
<1>1. \A b \in 0 .. Buckets - 1 :
         RunModel("inline", b, p, "pro") = Candidate <=> Candidate # Unset /\ RouteToCanary(b, p)
  BY CanaryConstants DEF RunModel, ApplyCanary, OnStableRouting, PlanModel
<1>2. \A b \in 0 .. Buckets - 1 : RouteToCanary(b, p) <=> b < p
  BY CanaryConstants DEF RouteToCanary
<1> QED
  BY <1>1, <1>2, CanaryConstants

\* A larger percentage keeps every bucket of a smaller one.
LEMMA SliceIsSticky ==
  ASSUME NEW percents \in [1 .. 2 -> 0 .. Buckets]
  PROVE  StickySlice(percents)
<1> DEFINE In(p) == {b \in 0 .. Buckets - 1 : RunModel("inline", b, p, "pro") = Candidate}
<1>1. \A p \in 0 .. Buckets : In(p) = IF Candidate = Unset THEN {} ELSE 0 .. p - 1
  BY SliceIs
<1>2. /\ \A p \in 0 .. Buckets : Cardinality(0 .. p - 1) = p
      /\ Cardinality({}) = 0
  BY FS_Interval, FS_EmptySet, CanaryConstants
<1>5. \A p \in 0 .. Buckets, b \in 0 .. Buckets - 1 :
         RunModel("inline", b, p, "free") = IF FreeModel = Stable /\ b \in In(p) THEN Candidate ELSE FreeModel
  BY CanaryConstants DEF RunModel, ApplyCanary, OnStableRouting, PlanModel
<1> HIDE DEF In
<1>3. percents[1] <= percents[2] => In(percents[1]) \subseteq In(percents[2])
  BY <1>1, CanaryConstants
<1>4. \A p \in Range(percents) : p \in 0 .. Buckets
  BY DEF Range
<1>6. \A p \in Range(percents) : Cardinality(In(p)) = IF Candidate = Unset THEN 0 ELSE p
  BY <1>1, <1>2, <1>4
<1> QED
  BY <1>3, <1>4, <1>5, <1>6 DEF StickySlice, In

\* 1 if the row is there.
Count(rows, k) == IF k \in rows THEN 1 ELSE 0

\* A finite set of rows is as large as the sum of the counts of its rows.
LEMMA RowsCounted ==
  ASSUME NEW n \in Nat, NEW rows \in SUBSET (1 .. n)
  PROVE  /\ IsFiniteSet(rows)
         /\ SumTo([k \in 1 .. n |-> Count(rows, k)], n) = Cardinality(rows)
<1> DEFINE cnt == [k \in 1 .. n |-> Count(rows, k)]
           UpTo(k) == {q \in rows : q <= k}
<1>1. IsFiniteSet(rows)
  <2>1. IsFiniteSet(1 .. n)
    BY FS_Interval
  <2> QED
    BY <2>1, FS_Subset
<1>2. \A k : IsFiniteSet(UpTo(k)) /\ Cardinality(UpTo(k)) \in Nat
  <2>1. \A k : IsFiniteSet(UpTo(k))
    BY <1>1, FS_Subset
  <2> QED
    BY <2>1, FS_CardinalityType
<1>3. \A q \in rows : q \in Nat /\ 1 <= q /\ q <= n
  OBVIOUS
<1>4. UpTo(0) = {} /\ UpTo(n) = rows
  <2>1. \A q \in rows : ~(q <= 0) /\ q <= n
    BY <1>3
  <2> QED
    BY <2>1
<1>5. \A k \in Nat : /\ UpTo(k + 1) = IF k + 1 \in rows THEN UpTo(k) \cup {k + 1} ELSE UpTo(k)
                     /\ k + 1 \notin UpTo(k)
  <2> TAKE k \in Nat
  <2>1. \A q \in rows : q <= k + 1 <=> q <= k \/ q = k + 1
    BY <1>3
  <2>2. ~(k + 1 <= k) /\ k + 1 <= k + 1
    OBVIOUS
  <2> QED
    BY <2>1, <2>2
<1> HIDE DEF UpTo
<1>6. PICK f : Sums(f, cnt, n) /\ SumTo(cnt, n) = f[n]
  BY SumIs
<1> DEFINE N == {k \in Nat : k <= n => f[k] = Cardinality(UpTo(k))}
<1>7. 0 \in N
  BY <1>4, <1>6, FS_EmptySet DEF Sums
<1>8. ASSUME NEW k \in Nat, k \in N PROVE k + 1 \in N
  <2> SUFFICES ASSUME k + 1 <= n PROVE f[k + 1] = Cardinality(UpTo(k + 1))
    OBVIOUS
  <2>1. f[k + 1] = f[k] + Count(rows, k + 1)
    BY <1>6 DEF Sums
  <2>2. Cardinality(UpTo(k) \cup {k + 1}) = Cardinality(UpTo(k)) + 1
    BY <1>2, <1>5, FS_AddElement
  <2> QED
    BY <1>2, <1>5, <1>8, <2>1, <2>2 DEF Count
<1>9. \A k \in Nat : k \in N
  <2> HIDE DEF N
  <2> QED
    BY <1>7, <1>8, Induction
<1> QED
  BY <1>1, <1>4, <1>6, <1>9

\* The values of a function on a finite set are finitely many.
LEMMA FiniteImage ==
  ASSUME NEW S, IsFiniteSet(S), NEW f
  PROVE  IsFiniteSet({f[x] : x \in S})
<1> DEFINE T == {f[x] : x \in S}
           g == [x \in S |-> f[x]]
<1>1. g \in Surjection(S, T)
  BY DEF Surjection
<1> HIDE DEF T, g
<1> QED
  BY <1>1, FS_Surjection DEF T

\* Rows of which each report has at most m are at most m times as many as their reports.
LEMMA ReportsBehindRows ==
  ASSUME NEW n \in Nat, NEW rows \in SUBSET (1 .. n), NEW of \in [1 .. n -> Reports],
         NEW m \in Nat \ {0}, \A k \in rows : Cardinality({o \in 1 .. n : of[o] = of[k]}) <= m
  PROVE  Cardinality(rows) <= m * Cardinality({of[k] : k \in rows})
<1> DEFINE Of(r) == {k \in 1 .. n : of[k] = r}
           Upto(k) == {o \in Of(of[k]) : o <= k}
           R == {of[k] : k \in rows}
           place == [k \in rows |-> <<of[k], Cardinality(Upto(k))>>]
<1>1. IsFiniteSet(1 .. n)
  BY FS_Interval
<1>2. \A r : IsFiniteSet(Of(r))
  BY <1>1, FS_Subset
<1>3. \A k \in 1 .. n : /\ IsFiniteSet(Upto(k)) /\ Cardinality(Upto(k)) \in Nat
                        /\ Cardinality(Upto(k)) <= Cardinality(Of(of[k]))
  <2> TAKE k \in 1 .. n
  <2>1. IsFiniteSet(Of(of[k])) /\ Upto(k) \in SUBSET Of(of[k])
    BY <1>2
  <2> HIDE DEF Of, Upto
  <2> QED
    BY <2>1, FS_Subset, FS_CardinalityType
<1>4. \A k \in rows : Cardinality(Upto(k)) \in 1 .. m
  <2> TAKE k \in rows
  <2>0. k \in 1 .. n
    OBVIOUS
  <2>1. Upto(k) # {}
    OBVIOUS
  <2>2. Cardinality(Upto(k)) # 0
    <3>1. IsFiniteSet(Upto(k))
      BY <1>3, <2>0
    <3> HIDE DEF Upto
    <3> QED
      BY <2>1, <3>1, FS_EmptySet
  <2>3. Cardinality(Of(of[k])) <= m
    OBVIOUS
  <2>4. Cardinality(Of(of[k])) \in Nat
    <3>1. IsFiniteSet(Of(of[k]))
      BY <1>2
    <3> HIDE DEF Of
    <3> QED
      BY <3>1, FS_CardinalityType
  <2>5. Cardinality(Upto(k)) \in Nat /\ Cardinality(Upto(k)) <= Cardinality(Of(of[k]))
    BY <1>3, <2>0
  <2> HIDE DEF Upto, Of
  <2> QED
    BY <2>2, <2>3, <2>4, <2>5
<1>5. \A j, k \in 1 .. n : of[j] = of[k] /\ j < k => Cardinality(Upto(j)) # Cardinality(Upto(k))
  <2> SUFFICES ASSUME NEW j \in 1 .. n, NEW k \in 1 .. n, of[j] = of[k], j < k
               PROVE  Cardinality(Upto(j)) # Cardinality(Upto(k))
    OBVIOUS
  <2>1. Upto(j) \in SUBSET Upto(k) /\ k \in Upto(k) /\ k \notin Upto(j)
    OBVIOUS
  <2>2. IsFiniteSet(Upto(k))
    BY <1>3
  <2> HIDE DEF Upto
  <2> QED
    BY <2>1, <2>2, FS_Subset
<1>6. IsFiniteSet(rows) /\ IsFiniteSet(R) /\ Cardinality(R) \in Nat
  <2>1. IsFiniteSet(rows)
    BY <1>1, FS_Subset
  <2>2. IsFiniteSet(R)
    BY <2>1, FiniteImage
  <2> HIDE DEF R
  <2> QED
    BY <2>1, <2>2, FS_CardinalityType
<1>7. IsFiniteSet(1 .. m) /\ Cardinality(1 .. m) = m
  BY FS_Interval
<1>8. IsFiniteSet(R \X (1 .. m)) /\ Cardinality(R \X (1 .. m)) = Cardinality(R) * m
  <2> HIDE DEF R
  <2> QED
    BY <1>6, <1>7, FS_Product
<1>9. place \in Injection(rows, R \X (1 .. m))
  <2>1. place \in [rows -> R \X (1 .. m)]
    <3>1. \A k \in rows : of[k] \in R /\ Cardinality(Upto(k)) \in 1 .. m
      BY <1>4
    <3> HIDE DEF Upto, R
    <3> QED
      BY <3>1
  <2>2. \A j, k \in rows : place[j] = place[k] => j = k
    <3> SUFFICES ASSUME NEW j \in rows, NEW k \in rows, place[j] = place[k] PROVE j = k
      OBVIOUS
    <3>1. of[j] = of[k] /\ Cardinality(Upto(j)) = Cardinality(Upto(k))
      <4> HIDE DEF Upto
      <4> QED
        OBVIOUS
    <3>2. j \in 1 .. n /\ k \in 1 .. n
      OBVIOUS
    <3>3. j < k \/ k < j \/ j = k
      BY <3>2
    <3> HIDE DEF Upto
    <3> QED
      BY <1>5, <3>1, <3>2, <3>3
  <2> HIDE DEF place, R
  <2> QED
    BY <2>1, <2>2 DEF Injection, IsInjective
<1>10. Cardinality(rows) <= Cardinality(R \X (1 .. m))
  <2> HIDE DEF place, R
  <2> QED
    BY <1>8, <1>9, FS_Injection
<1> DEFINE cr == Cardinality(R)
<1>11. cr * m = m * cr
  <2> HIDE DEF cr
  <2> QED
    BY <1>6 DEF cr
<1> QED
  BY <1>8, <1>10, <1>11

\* A promotion has recent written reports, and the canary cannot be worse everywhere.
LEMMA PromotionIsSound ==
  ASSUME NEW sample \in AnySample, PossibleSample(sample)
  PROVE  SoundPromotion(sample)
<1> DEFINE traces == sample.traces
           score(k) == traces[k].score
           n == Len(traces)
           C == Judged(sample, Candidate)
           S == Judged(sample, Stable)
           evidence == {traces[k].report : k \in C}
<1>1. /\ n \in Nat /\ DOMAIN traces = 1 .. n
      /\ \A k \in 1 .. n : score(k) \in Int /\ traces[k].report \in Reports
      /\ sample.since \in Nat
  <2>1. traces \in Seq([report : Reports, score : Nat]) /\ sample.since \in Nat
    BY DEF AnySample
  <2>2. n \in Nat /\ DOMAIN traces = 1 .. n /\ \A k \in 1 .. n : traces[k] \in [report : Reports, score : Nat]
    <3> HIDE DEF traces
    <3> QED
      BY <2>1, LenProperties
  <2> HIDE DEF traces
  <2> QED
    BY <2>1, <2>2
<1>2. \A model : \A k \in Judged(sample, model) :
         /\ k \in 1 .. n /\ k <= sample.since
         /\ sample.reports[traces[k].report].model = model
         /\ sample.reports[traces[k].report].status = "written"
  BY <1>1 DEF Judged, RowsOf, ReportOf
<1>3. C \in SUBSET (1 .. n) /\ S \in SUBSET (1 .. n)
  BY <1>2
<1> SUFFICES ASSUME Promote(sample)
             PROVE  /\ (1 + MaxRevisions) * Cardinality(evidence) >= MinSample
                    /\ \A report \in evidence : \E k \in 1 .. sample.since : traces[k].report = report
                    /\ \A report \in evidence : sample.reports[report] = [model |-> Candidate, status |-> "written"]
                    /\ S # {} => \E c \in C, s \in S : score(c) + Tolerance >= score(s)
  BY DEF SoundPromotion
<1> DEFINE nc == Cardinality(C)
           ns == Cardinality(S)
           tc == Total(sample, C)
           ts == Total(sample, S)
<1>4. nc >= MinSample /\ (tc + Tolerance * nc) * ns >= ts * nc
  BY DEF Promote, MayPromote
<1>5. (1 + MaxRevisions) * Cardinality(evidence) >= MinSample
  <2> DEFINE of == [k \in 1 .. n |-> traces[k].report]
             m == 1 + MaxRevisions
  <2>1. of \in [1 .. n -> Reports] /\ m \in Nat \ {0}
    BY <1>1, CanaryConstants
  <2>2. \A k \in C : Cardinality({o \in 1 .. n : of[o] = of[k]}) <= m
    <3>1. \A k \in 1 .. n : {o \in 1 .. n : of[o] = of[k]} = TracesOf(sample, of[k])
      BY <1>1 DEF TracesOf
    <3>2. \A k \in C : k \in 1 .. n /\ of[k] \in Reports /\ sample.reports[of[k]].model = Candidate
      BY <1>1, <1>2
    <3> HIDE DEF of, C
    <3> QED
      BY <3>1, <3>2 DEF PossibleSample
  <2>3. {of[k] : k \in C} = evidence
    BY <1>3
  <2> HIDE DEF of, m, C, n, evidence
  <2>4. nc <= m * Cardinality(evidence)
    BY <1>1, <1>3, <2>1, <2>2, <2>3, ReportsBehindRows
  <2>5. IsFiniteSet(C) /\ IsFiniteSet(evidence)
    <3>1. IsFiniteSet(C)
      BY <1>1, <1>3, RowsCounted
    <3> QED
      <4>1. IsFiniteSet({of[k] : k \in C})
        BY <3>1, FiniteImage
      <4> QED
        BY <2>3, <3>1, <4>1
  <2>6. nc \in Nat /\ Cardinality(evidence) \in Nat
    BY <2>5, FS_CardinalityType
  <2> HIDE DEF nc
  <2>7. m * Cardinality(evidence) \in Nat
    BY <2>1, <2>6
  <2> QED
    BY <1>4, <2>4, <2>6, <2>7, CanaryConstants DEF m
<1>6. /\ \A report \in evidence : \E k \in 1 .. sample.since : traces[k].report = report
      /\ \A report \in evidence : sample.reports[report] = [model |-> Candidate, status |-> "written"]
  <2> SUFFICES ASSUME NEW k \in C
               PROVE  /\ k \in 1 .. sample.since
                      /\ sample.reports[traces[k].report] = [model |-> Candidate, status |-> "written"]
    OBVIOUS
  <2>1. /\ k \in 1 .. n /\ k <= sample.since
        /\ sample.reports[traces[k].report].model = Candidate
        /\ sample.reports[traces[k].report].status = "written"
    BY <1>2
  <2>2. sample.reports[traces[k].report] \in [model : {Candidate, Stable}, status : {"written", "empty", "unfinished"}]
    BY <1>1, <2>1 DEF AnySample
  <2> HIDE DEF traces, n
  <2> QED
    BY <1>1, <2>1, <2>2
<1>7. ASSUME S # {}, \A c \in C, s \in S : score(c) + Tolerance < score(s)
      PROVE  FALSE
  <2> DEFINE A == tc + Tolerance * nc
             cc == [k \in 1 .. n |-> Count(C, k)]
             cs == [k \in 1 .. n |-> Count(S, k)]
             gc == [k \in 1 .. n |-> IF k \in C THEN score(k) ELSE 0]
             gs == [k \in 1 .. n |-> IF k \in S THEN score(k) ELSE 0]
  <2>1. SumTo(cc, n) = nc /\ nc \in Nat /\ SumTo(cs, n) = ns /\ ns \in Nat
    <3> HIDE DEF C, S, n
    <3>1. SumTo(cc, n) = nc /\ IsFiniteSet(C) /\ SumTo(cs, n) = ns /\ IsFiniteSet(S)
      BY <1>1, <1>3, RowsCounted
    <3> QED
      BY <3>1, FS_CardinalityType
  <2>2. tc = SumTo(gc, n) /\ ts = SumTo(gs, n)
    BY DEF Total
  <2>3. C # {}
    <3>1. Cardinality({}) = 0
      BY FS_EmptySet
    <3>2. nc > 0
      <4>1. nc \in Nat /\ nc >= MinSample
        BY <1>4, <2>1
      <4> HIDE DEF nc
      <4> QED
        BY <4>1, CanaryConstants
    <3> HIDE DEF C
    <3> QED
      BY <3>1, <3>2
  <2>4. PICK best \in C : TRUE
    BY <2>3
  <2>5. PICK worst \in S : TRUE
    BY <1>7
  <2> HIDE DEF C, S, nc, ns, tc, ts, n, traces
  <2>6. ASSUME NEW s \in S PROVE tc \in Int /\ A < score(s) * nc
    <3> DEFINE m == score(s) - Tolerance
               x == score(s)
    <3>1. m \in Int /\ x \in Int /\ Tolerance \in Int
      BY <1>1, <1>3, CanaryConstants
    <3>2. ASSUME NEW k \in C PROVE score(k) \in Int /\ score(k) < m
      <4>1. score(k) \in Int /\ score(k) + Tolerance < score(s)
        BY <1>1, <1>3, <1>7
      <4> DEFINE y == score(k)
      <4> HIDE DEF x, y
      <4> QED
        BY <3>1, <4>1 DEF x, y
    <3> HIDE DEF m, score
    <3>3. \A k \in 1 .. n :
             /\ gc[k] = (IF k \in C THEN score(k) ELSE 0) /\ cc[k] = IF k \in C THEN 1 ELSE 0
      BY DEF Count
    <3> HIDE DEF gc, cc
    <3>4. \A k \in 1 .. n : gc[k] \in Int /\ cc[k] \in Int /\ 1 * gc[k] <= m * cc[k]
      BY <3>1, <3>2, <3>3
    <3>5. 1 * gc[best] < m * cc[best] /\ best \in 1 .. n
      BY <1>3, <3>1, <3>2, <3>3
    <3>6. Ordered(1, gc, m, cc, n)
      <4>1. n \in Nat
        BY <1>1
      <4> QED
        BY <3>1, <3>4, <4>1, SumsCompare
    <3>7. 1 * SumTo(gc, n) < m * SumTo(cc, n) /\ SumTo(gc, n) \in Int
      BY <3>4, <3>5, <3>6 DEF Ordered
    <3>8. tc \in Int /\ tc < m * nc
      BY <2>1, <2>2, <3>7
    <3> HIDE DEF x
    <3>9. m * nc = x * nc - Tolerance * nc /\ x * nc \in Int /\ Tolerance * nc \in Int
      BY <2>1, <3>1 DEF m, x
    <3> QED
      BY <3>8, <3>9 DEF x
  <2>7. A \in Int
    BY <2>1, <2>6, <2>5, CanaryConstants
  <2> HIDE DEF A
  <2>8. ASSUME NEW k \in S PROVE score(k) \in Int /\ A * 1 < nc * score(k)
    <3>1. score(k) \in Int /\ A < score(k) * nc
      BY <1>1, <1>3, <2>6
    <3> DEFINE x == score(k)
    <3> HIDE DEF x
    <3>2. x * nc = nc * x
      BY <2>1, <3>1 DEF x
    <3> QED
      BY <2>7, <3>1, <3>2 DEF x
  <2> HIDE DEF score
  <2>9. \A k \in 1 .. n : gs[k] = (IF k \in S THEN score(k) ELSE 0) /\ cs[k] = IF k \in S THEN 1 ELSE 0
    BY DEF Count
  <2> HIDE DEF gs, cs
  <2>10. \A k \in 1 .. n : gs[k] \in Int /\ cs[k] \in Int /\ A * cs[k] <= nc * gs[k]
    <3> TAKE k \in 1 .. n
    <3>1. CASE k \in S
      <4> DEFINE z == nc * score(k)
      <4>1. z \in Int
        BY <2>1, <2>8, <3>1
      <4> HIDE DEF z
      <4> QED
        BY <2>7, <2>8, <2>9, <3>1, <4>1 DEF z
    <3>2. CASE k \notin S
      BY <2>1, <2>7, <2>9, <3>2
    <3> QED
      BY <3>1, <3>2
  <2>11. A * cs[worst] < nc * gs[worst] /\ worst \in 1 .. n
    BY <1>3, <2>8, <2>9
  <2>12. Ordered(A, cs, nc, gs, n)
    <3>1. n \in Nat /\ A \in Int /\ nc \in Int
      BY <1>1, <2>1, <2>7
    <3> QED
      BY <2>10, <3>1, SumsCompare
  <2>13. A * SumTo(cs, n) < nc * SumTo(gs, n) /\ SumTo(gs, n) \in Int
    BY <2>10, <2>11, <2>12 DEF Ordered
  <2>14. A * ns < nc * ts /\ ts \in Int
    BY <2>1, <2>2, <2>13
  <2>15. A * ns >= ts * nc
    BY <1>4 DEF A
  <2>16. ts * nc = nc * ts /\ nc * ts \in Int /\ A * ns \in Int
    BY <2>1, <2>7, <2>14
  <2> QED
    BY <2>14, <2>15, <2>16
<1>8. S # {} => \E c \in C, s \in S : score(c) + Tolerance >= score(s)
  <2>1. \A c \in C, s \in S : score(c) \in Int /\ score(s) \in Int
    BY <1>1, <1>3
  <2>2. \A c \in C, s \in S : ~(score(c) + Tolerance < score(s)) => score(c) + Tolerance >= score(s)
    <3> HIDE DEF score
    <3> QED
      BY <2>1, CanaryConstants
  <2> QED
    BY <1>7, <2>2
<1> QED
  BY <1>5, <1>6, <1>8

-----------------------------------------------------------------------------
(* MarketData: any history of closes above 0, any fields                   *)

Closes == Seq(Nat \ {0})

\* A history of closes.
LEMMA CloseTypes ==
  ASSUME NEW close \in Closes
  PROVE  /\ Len(close) \in Nat /\ DOMAIN close = 1 .. Len(close)
         /\ \A i \in 1 .. Len(close) : close[i] \in Nat /\ close[i] > 0
<1>1. \A i \in 1 .. Len(close) : close[i] \in Nat \ {0}
  BY LenProperties DEF Closes
<1> QED
  BY <1>1, LenProperties DEF Closes

\* A figure is the nearest whole number, one of two at a tie.
LEMMA RoundedIs ==
  ASSUME NEW n \in Int, NEW d \in Nat \ {0}
  PROVE  LET v == Rounded(n, d) IN v \in Int /\ 2 * (v * d - n) <= d /\ -d <= 2 * (v * d - n)
<1> DEFINE q == n \div d
           r == n % d
           Near(v) == v \in q .. q + 1 /\ 2 * (v * d - n) \in -d .. d
<1>1. q \in Int /\ r \in Int /\ n = d * q + r /\ 0 <= r /\ r < d
  OBVIOUS
<1>2. Rounded(n, d) = CHOOSE v \in q .. q + 1 : 2 * (v * d - n) \in -d .. d
  BY DEF Rounded
<1> HIDE DEF q, r
<1> DEFINE w == d * q
<1>3. w \in Int /\ q * d = w /\ (q + 1) * d = w + d
  BY <1>1
<1>4. n = w + r
  BY <1>1
<1> HIDE DEF w
<1>5. Near(q) \/ Near(q + 1)
  <2>1. q \in q .. q + 1 /\ q + 1 \in q .. q + 1
    BY <1>1
  <2>2. q * d - n = -r /\ (q + 1) * d - n = d - r
    BY <1>1, <1>3, <1>4
  <2>3. 2 * r <= d \/ d < 2 * r
    BY <1>1
  <2>4. 2 * r <= d => 2 * (q * d - n) \in -d .. d
    BY <1>1, <2>2
  <2>5. d < 2 * r => 2 * ((q + 1) * d - n) \in -d .. d
    BY <1>1, <2>2
  <2> QED
    BY <2>1, <2>3, <2>4, <2>5
<1>6. Near(Rounded(n, d))
  BY <1>2, <1>5
<1> DEFINE v == Rounded(n, d)
<1>7. v \in q .. q + 1 /\ 2 * (v * d - n) \in -d .. d
  BY <1>6
<1> HIDE DEF v
<1>8. v \in Int /\ v * d \in Int
  BY <1>1, <1>7
<1> QED
  BY <1>7, <1>8 DEF v

\* Rounding does not cross a whole number.
LEMMA RoundedWithin ==
  ASSUME NEW n \in Int, NEW d \in Nat \ {0}, NEW k \in Int
  PROVE  /\ Rounded(n, d) \in Int
         /\ k * d <= n => k <= Rounded(n, d)
         /\ n <= k * d => Rounded(n, d) <= k
<1> DEFINE v == Rounded(n, d)
<1>1. v \in Int /\ 2 * (v * d - n) <= d /\ -d <= 2 * (v * d - n)
  BY RoundedIs
<1> HIDE DEF v
<1>2. v * d \in Int /\ k * d \in Int /\ (v - k) * d = v * d - k * d /\ (k - v) * d = k * d - v * d
  BY <1>1
<1>3. v < k => (k - v) * d >= d
  <2> DEFINE e == k - v
  <2>1. e \in Int /\ (v < k => e >= 1)
    BY <1>1
  <2> HIDE DEF e
  <2>2. e >= 1 => e * d >= d
    BY <2>1
  <2> QED
    BY <2>1, <2>2 DEF e
<1>4. k < v => (v - k) * d >= d
  <2> DEFINE e == v - k
  <2>1. e \in Int /\ (k < v => e >= 1)
    BY <1>1
  <2> HIDE DEF e
  <2>2. e >= 1 => e * d >= d
    BY <2>1
  <2> QED
    BY <2>1, <2>2 DEF e
<1>5. k * d <= n => ~(v < k)
  BY <1>1, <1>2, <1>3
<1>6. n <= k * d => ~(k < v)
  BY <1>1, <1>2, <1>4
<1> QED
  BY <1>1, <1>5, <1>6 DEF v

\* A figure that is there is not null.
LEMMA QuotientNotNull ==
  ASSUME NEW a \in Int, NEW b \in Int
  PROVE  Quotient(a, b) # Null /\ Quotient(a, b).num = a /\ Quotient(a, b).den = b
  BY MarketConstants DEF Quotient

\* Fractions with positive denominators are ordered.
LEMMA AtMostOrder ==
  ASSUME NEW a \in Int, NEW b \in Nat \ {0}, NEW c \in Int, NEW d \in Nat \ {0},
         NEW e \in Int, NEW f \in Nat \ {0},
         AtMost(Quotient(a, b), Quotient(c, d)), AtMost(Quotient(c, d), Quotient(e, f))
  PROVE  AtMost(Quotient(a, b), Quotient(e, f))
<1>1. a * d <= c * b /\ c * f <= e * d
  BY DEF AtMost, Quotient
<1>2. (a * d) * f <= (c * b) * f
  BY <1>1
<1>3. (c * f) * b <= (e * d) * b
  BY <1>1
<1>4. (a * f) * d <= (e * b) * d
  <2>1. (a * d) * f = (a * f) * d /\ (c * b) * f = (c * f) * b /\ (e * d) * b = (e * b) * d
    OBVIOUS
  <2>2. (a * d) * f \in Int /\ (c * b) * f \in Int /\ (e * d) * b \in Int
    OBVIOUS
  <2> QED
    BY <1>2, <1>3, <2>1, <2>2
<1>5. a * f <= e * b
  <2> DEFINE x == a * f
             y == e * b
  <2>1. x \in Int /\ y \in Int /\ x * d <= y * d
    BY <1>4
  <2> HIDE DEF x, y
  <2>2. ASSUME x > y PROVE FALSE
    <3>1. x - y \in Nat /\ x - y >= 1 /\ d \in Nat /\ d >= 1
      BY <2>1, <2>2
    <3>2. (x - y) * d >= 1
      BY <3>1
    <3>3. (x - y) * d = x * d - y * d /\ x * d \in Int /\ y * d \in Int
      BY <2>1
    <3> QED
      BY <2>1, <3>2, <3>3
  <2>3. x <= y
    BY <2>1, <2>2
  <2> QED
    BY <2>3 DEF x, y
<1> QED
  BY <1>5 DEF AtMost, Quotient

\* The running maximum is a close so far, and none so far is higher.
LEMMA RunningMaxIs ==
  ASSUME NEW close \in Closes, NEW i \in 1 .. Len(close)
  PROVE  /\ \E j \in 1 .. i : RunningMax(close, i) = close[j]
         /\ \A j \in 1 .. i : close[j] <= RunningMax(close, i)
         /\ RunningMax(close, i) \in Nat \ {0}
<1> DEFINE S == {close[j] : j \in 1 .. i}
<1>1. \A j \in 1 .. Len(close) : close[j] \in Nat /\ close[j] > 0
  BY CloseTypes
<1>2. Len(close) \in Nat
  BY CloseTypes
<1>3. Range(SubSeq(close, 1, i)) = S
  <2> DEFINE front == SubSeq(close, 1, i)
  <2>1. front \in Closes /\ Len(front) = i /\ \A j \in 1 .. i : front[j] = close[j]
    <3>1. \A j \in 1 .. i : close[j] \in Nat \ {0}
      BY <1>1, <1>2
    <3>2. front = SubSeq(close, 1, i)
      OBVIOUS
    <3> HIDE DEF front
    <3> QED
      BY <1>2, <3>1, <3>2, SubSeqProperties DEF Closes
  <2>2. DOMAIN front = 1 .. i
    <3> HIDE DEF front
    <3> QED
      BY <2>1, CloseTypes
  <2> HIDE DEF front
  <2>3. Range(front) = S
    BY <2>1, <2>2 DEF Range
  <2> QED
    BY <2>3 DEF front
<1> DEFINE N == {k \in Nat : k + 1 <= i => \E j \in 1 .. k + 1 : \A m \in 1 .. k + 1 : close[m] <= close[j]}
<1>4. 0 \in N
  BY <1>1, <1>2
<1>5. ASSUME NEW k \in Nat, k \in N PROVE k + 1 \in N
  <2> SUFFICES ASSUME k + 2 <= i
               PROVE  \E j \in 1 .. k + 2 : \A m \in 1 .. k + 2 : close[m] <= close[j]
    OBVIOUS
  <2>1. PICK j \in 1 .. k + 1 : \A m \in 1 .. k + 1 : close[m] <= close[j]
    BY <1>5
  <2>2. close[j] \in Nat /\ close[k + 2] \in Nat /\ \A m \in 1 .. k + 2 : close[m] \in Nat
    BY <1>1, <1>2
  <2>3. /\ \A m \in 1 .. k + 2 : m \in 1 .. k + 1 \/ m = k + 2
        /\ j \in 1 .. k + 2 /\ k + 2 \in 1 .. k + 2
    OBVIOUS
  <2>4. CASE close[k + 2] <= close[j]
    <3>1. \A m \in 1 .. k + 2 : close[m] <= close[j]
      BY <2>1, <2>3, <2>4
    <3> QED
      BY <2>3, <3>1
  <2>5. CASE close[j] < close[k + 2]
    <3>1. \A m \in 1 .. k + 1 : close[m] <= close[k + 2]
      BY <2>1, <2>2, <2>5
    <3>2. \A m \in 1 .. k + 2 : close[m] <= close[k + 2]
      BY <2>2, <2>3, <3>1
    <3> QED
      BY <2>3, <3>2
  <2>6. close[k + 2] <= close[j] \/ close[j] < close[k + 2]
    BY <2>2
  <2> QED
    BY <2>4, <2>5, <2>6
<1>6. \A k \in Nat : k \in N
  <2> HIDE DEF N
  <2> QED
    BY <1>4, <1>5, Induction
<1>7. PICK j \in 1 .. i : \A m \in 1 .. i : close[m] <= close[j]
  <2>1. i - 1 \in Nat /\ (i - 1) + 1 = i
    BY <1>2
  <2>2. i - 1 \in N
    <3> HIDE DEF N
    <3> QED
      BY <1>6, <2>1
  <2> QED
    BY <2>1, <2>2
<1>8. RunningMax(close, i) = close[j]
  <2>1. close[j] \in S /\ \A y \in S : close[j] >= y
    BY <1>1, <1>2, <1>7
  <2>2. \A x \in S : x \in Int
    BY <1>1, <1>2
  <2> HIDE DEF S
  <2>3. \A x \in S : (\A y \in S : x >= y) => x = close[j]
    BY <2>1, <2>2
  <2>4. Max(S) = close[j]
    BY <2>1, <2>3 DEF Max
  <2> QED
    BY <1>3, <2>4 DEF RunningMax
<1> QED
  BY <1>1, <1>2, <1>7, <1>8

\* The figures a history is long enough for.
LEMMA LookBack ==
  ASSUME NEW close \in Closes, NEW d \in Nat \ {0}
  PROVE  /\ PctReturn(close, d) = Null <=> Len(close) <= d
         /\ d < Len(close) =>
               LET c == close[Len(close)]  b == close[Len(close) - d]
               IN  PctReturn(close, d) = Quotient(c - b, b) /\ c \in Nat \ {0} /\ b \in Nat \ {0}
<1>1. Len(close) \in Nat /\ \A i \in 1 .. Len(close) : close[i] \in Nat /\ close[i] > 0
  BY CloseTypes
<1>2. CASE d < Len(close)
  <2> DEFINE c == close[Len(close)]
             b == close[Len(close) - d]
  <2>1. c \in Nat \ {0} /\ b \in Nat \ {0}
    BY <1>1, <1>2
  <2>2. PctReturn(close, d) = Quotient(c - b, b)
    BY <1>1, <1>2 DEF PctReturn
  <2>3. Quotient(c - b, b) # Null
    <3> HIDE DEF c, b
    <3> QED
      BY <2>1, QuotientNotNull
  <2> QED
    BY <1>1, <1>2, <2>1, <2>2, <2>3
<1>3. CASE ~(d < Len(close))
  BY <1>1, <1>3 DEF PctReturn
<1> QED
  BY <1>2, <1>3

\* n ones.
LEMMA SumOfOnes == ASSUME NEW n \in Nat PROVE SumTo([k \in 1 .. n |-> 1], n) = n
<1> DEFINE g == [k \in 1 .. n |-> 1]
<1>1. PICK f : Sums(f, g, n) /\ SumTo(g, n) = f[n]
  BY SumIs
<1> DEFINE N == {k \in Nat : k <= n => f[k] = k}
<1>2. 0 \in N
  BY <1>1 DEF Sums
<1>3. ASSUME NEW k \in Nat, k \in N PROVE k + 1 \in N
  BY <1>1, <1>3 DEF Sums
<1>4. \A k \in Nat : k \in N
  <2> HIDE DEF N
  <2> QED
    BY <1>2, <1>3, Induction
<1> QED
  BY <1>1, <1>4

\* Gains and losses are not negative.
LEMMA MaxOfTwo ==
  ASSUME NEW a \in Int
  PROVE  Max({a, 0}) = IF a > 0 THEN a ELSE 0
  BY DEF Max

\* A sum of numbers none of which is negative is not, and is 0 only if all are.
LEMMA SumOfNaturals ==
  ASSUME NEW g, NEW n \in Nat, \A k \in 1 .. n : g[k] \in Nat
  PROVE  SumTo(g, n) \in Nat /\ (SumTo(g, n) = 0 <=> \A k \in 1 .. n : g[k] = 0)
<1>1. Ordered(0, g, 1, g, n)
  <2>1. \A k \in 1 .. n : g[k] \in Int /\ 0 * g[k] <= 1 * g[k]
    OBVIOUS
  <2> QED
    BY <2>1, SumsCompare
<1>2. Ordered(1, g, 0, g, n) \/ \E k \in 1 .. n : g[k] # 0
  <2>1. (\A k \in 1 .. n : g[k] = 0) => \A k \in 1 .. n : g[k] \in Int /\ 1 * g[k] <= 0 * g[k]
    OBVIOUS
  <2>2. (\A k \in 1 .. n : g[k] = 0) => Ordered(1, g, 0, g, n)
    BY <2>1, SumsCompare
  <2> QED
    BY <2>2
<1>3. SumTo(g, n) \in Int /\ 0 <= SumTo(g, n)
  BY <1>1 DEF Ordered
<1>4. (\E k \in 1 .. n : g[k] # 0) => 0 < SumTo(g, n)
  <2>1. \A k \in 1 .. n : g[k] # 0 => 0 * g[k] < 1 * g[k]
    OBVIOUS
  <2> QED
    BY <1>1, <1>3, <2>1 DEF Ordered
<1>5. (\A k \in 1 .. n : g[k] = 0) => SumTo(g, n) <= 0
  BY <1>2, <1>3 DEF Ordered
<1> QED
  BY <1>3, <1>4, <1>5

\* The last closes, and their sum: as many times a number as there are closes bounds it if
\* the number bounds each, and so for a multiple of them.
LEMMA AverageIs ==
  ASSUME NEW close \in Closes, NEW d \in Nat \ {0}, d <= Len(close)
  PROVE  LET s == SumOfLast(close, d)
             c == close[Len(close)]
             window == Len(close) - d + 1 .. Len(close)
         IN  /\ s \in Nat \ {0} /\ c \in Nat \ {0}
             /\ Sma(close, d) = Quotient(s, d)
             /\ VsSma(close, d) = Quotient(c * d - s, s)
             /\ \A m \in Int, x \in Int : (\A i \in window : m * close[i] <= x) => m * s <= x * d
<1> DEFINE n == Len(close)
           c == close[n]
           g == [k \in 1 .. d |-> close[n - d + k]]
           one == [k \in 1 .. d |-> 1]
           s == SumTo(g, d)
<1>1. n \in Nat /\ \A i \in 1 .. n : close[i] \in Nat /\ close[i] > 0
  BY CloseTypes
<1>2. c \in Nat \ {0}
  BY <1>1
<1>3. \A k \in 1 .. d : /\ g[k] \in Nat /\ g[k] > 0 /\ g[k] = close[n - d + k]
                        /\ one[k] = 1 /\ n - d + k \in n - d + 1 .. n
  <2>1. \A k \in 1 .. d : n - d + k \in 1 .. n /\ n - d + k \in n - d + 1 .. n
    BY <1>1
  <2> QED
    BY <1>1, <2>1
<1>4. s \in Nat \ {0}
  <2> HIDE DEF g
  <2>1. s \in Nat /\ (s = 0 <=> \A k \in 1 .. d : g[k] = 0)
    BY <1>3, SumOfNaturals
  <2>2. 1 \in 1 .. d
    OBVIOUS
  <2> HIDE DEF s
  <2> QED
    BY <1>3, <2>1, <2>2
<1>5. Sma(close, d) = Quotient(s, d)
  BY <1>1 DEF Sma, SumOfLast
<1>6. Last(close) = c
  BY DEF Last
<1>7. Sma(close, d) # Null /\ Sma(close, d).num = s /\ Sma(close, d).den = d
  <2> HIDE DEF s
  <2> QED
    BY <1>4, <1>5, QuotientNotNull
<1>8. VsSma(close, d) = Quotient(c * d - s, s)
  <2> HIDE DEF s, c
  <2> QED
    BY <1>6, <1>7 DEF VsSma
<1>9. ASSUME NEW m \in Int, NEW x \in Int, \A i \in n - d + 1 .. n : m * close[i] <= x
      PROVE  m * s <= x * d
  <2>1. \A k \in 1 .. d : g[k] \in Int /\ one[k] \in Int /\ m * g[k] <= x * one[k]
    <3>1. ASSUME NEW k \in 1 .. d PROVE m * g[k] <= x /\ g[k] \in Int /\ one[k] = 1
      <4> HIDE DEF g, one
      <4>1. /\ g[k] \in Nat /\ g[k] = close[n - d + k] /\ one[k] = 1
            /\ n - d + k \in n - d + 1 .. n
        BY <1>3
      <4>2. m * close[n - d + k] <= x
        BY <1>9, <4>1
      <4> QED
        BY <4>1, <4>2
    <3> HIDE DEF g, one
    <3> QED
      BY <3>1
  <2>2. Ordered(m, g, x, one, d)
    <3> HIDE DEF g, one
    <3> QED
      BY <2>1, SumsCompare
  <2>3. m * SumTo(g, d) <= x * SumTo(one, d)
    <3> HIDE DEF g, one
    <3> QED
      BY <2>2 DEF Ordered
  <2>4. SumTo(one, d) = d
    BY SumOfOnes
  <2> QED
    BY <2>3, <2>4
<1> QED
  BY <1>2, <1>4, <1>5, <1>8, <1>9 DEF SumOfLast

\* An average and the distance from it agree with the window, after rounding.
LEMMA AverageCoheres ==
  ASSUME NEW close \in Closes, NEW d \in Nat \ {0}, d <= Len(close)
  PROVE  /\ Shown(Sma(close, d), 1, Cent) \in Int
         /\ Shown(VsSma(close, d), 10000, 1) \in Int
         /\ CoherentAverage(close, d, Shown(Sma(close, d), 1, Cent), Shown(VsSma(close, d), 10000, 1))
<1> DEFINE n == Len(close)
           s == SumOfLast(close, d)
           c == close[n]
           w == n - d + 1 .. n
           dc == Cent * d
           sma == Rounded(s, dc)
           z == c * d - s
           vs == Rounded(10000 * z, s)
<1>1. /\ s \in Nat \ {0} /\ c \in Nat \ {0}
      /\ Sma(close, d) = Quotient(s, d) /\ VsSma(close, d) = Quotient(c * d - s, s)
  BY AverageIs
<1>2. \A m \in Int, x \in Int : (\A i \in w : m * close[i] <= x) => m * s <= x * d
  BY AverageIs
<1>3. n \in Nat /\ \A i \in w : close[i] \in Nat /\ close[i] > 0
  <2>1. n \in Nat /\ \A i \in 1 .. n : close[i] \in Nat /\ close[i] > 0
    BY CloseTypes
  <2>2. \A i \in w : i \in 1 .. n
    BY <2>1
  <2> QED
    BY <2>1, <2>2
<1> HIDE DEF s, c
<1>4. Cent \in Nat \ {0} /\ dc \in Nat \ {0} /\ z \in Int
  BY <1>1, MarketConstants
<1>5. Shown(Sma(close, d), 1, Cent) = sma
  <2>1. Quotient(s, d) # Null /\ Quotient(s, d).num = s /\ Quotient(s, d).den = d
    BY <1>1, QuotientNotNull
  <2>2. 1 * s = s /\ d * Cent = Cent * d /\ Cent * d = dc
    BY <1>1, <1>4
  <2> QED
    BY <1>1, <2>1, <2>2, Zenon DEF Shown
<1> HIDE DEF z
<1>6. Shown(VsSma(close, d), 10000, 1) = vs
  <2>1. VsSma(close, d) = Quotient(z, s)
    BY <1>1 DEF z
  <2>2. Quotient(z, s) # Null /\ Quotient(z, s).num = z /\ Quotient(z, s).den = s
    BY <1>1, <1>4, QuotientNotNull
  <2>3. 1 * s = s
    BY <1>1
  <2>4. Shown(Quotient(z, s), 10000, 1) = Rounded(10000 * z, 1 * s)
    <3> DEFINE k == 10000
    <3> HIDE DEF k
    <3>1. Shown(Quotient(z, s), k, 1) = Rounded(k * z, 1 * s)
      BY <2>2, Zenon DEF Shown
    <3> QED
      BY <3>1 DEF k
  <2> QED
    BY <2>1, <2>3, <2>4
<1> HIDE DEF sma, vs, w, n, dc
<1>7. sma \in Int /\ 2 * (sma * dc - s) <= dc /\ -dc <= 2 * (sma * dc - s)
  <2>1. s \in Int /\ dc \in Nat \ {0}
    BY <1>1, <1>4
  <2> QED
    BY <2>1, RoundedIs, Zenon DEF sma
<1> DEFINE t == 2 * Cent * sma
<1>8. /\ t \in Int /\ t * d = 2 * (sma * dc) /\ Cent * d = dc
      /\ \A x \in Int : x * d \in Int /\ (t - x) * d = t * d - x * d /\ (x - t) * d = x * d - t * d
  <2>1. t * d = 2 * (sma * (Cent * d)) /\ t \in Int
    BY <1>4, <1>7
  <2> HIDE DEF t
  <2> QED
    BY <2>1 DEF dc
<1> HIDE DEF t
<1>9. \E i \in w : 2 * close[i] - Cent <= t
  <2> SUFFICES ASSUME \A i \in w : ~(2 * close[i] - Cent <= t) PROVE FALSE
    OBVIOUS
  <2> DEFINE x == -(t + Cent + 1)
  <2>1. \A i \in w : (-2) * close[i] <= x
    <3> TAKE i \in w
    <3>1. close[i] \in Int /\ 2 * close[i] > t + Cent
      BY <1>3, <1>4, <1>8
    <3> QED
      BY <1>4, <1>8, <3>1
  <2>2. x \in Int
    BY <1>4, <1>8
  <2>3. (-2) * s <= x * d
    BY <1>2, <2>1, <2>2
  <2>4. x * d = -(t * d + dc + d)
    <3>1. (t + Cent + 1) * d = t * d + Cent * d + d
      BY <1>4, <1>8
    <3>2. x * d = -((t + Cent + 1) * d)
      BY <1>4, <1>8
    <3> QED
      BY <1>4, <1>8, <3>1, <3>2
  <2> HIDE DEF x
  <2> QED
    <3> DEFINE y == sma * dc
    <3>1. y \in Int
      BY <1>4, <1>7
    <3> HIDE DEF y
    <3>2. t * d = 2 * y /\ 2 * (y - s) <= dc /\ -dc <= 2 * (y - s)
      BY <1>7, <1>8 DEF y
    <3> QED
      BY <1>1, <1>4, <2>3, <2>4, <3>1, <3>2
<1>10. \E i \in w : t <= 2 * close[i] + Cent
  <2> SUFFICES ASSUME \A i \in w : ~(t <= 2 * close[i] + Cent) PROVE FALSE
    OBVIOUS
  <2> DEFINE x == t - Cent - 1
  <2>1. \A i \in w : 2 * close[i] <= x
    <3> TAKE i \in w
    <3>1. close[i] \in Int /\ t > 2 * close[i] + Cent
      BY <1>3, <1>4, <1>8
    <3> QED
      BY <1>4, <1>8, <3>1
  <2>2. x \in Int
    BY <1>4, <1>8
  <2>3. 2 * s <= x * d
    BY <1>2, <2>1, <2>2
  <2>4. x * d = t * d - dc - d
    BY <1>4, <1>8
  <2> HIDE DEF x
  <2> QED
    <3> DEFINE y == sma * dc
    <3>1. y \in Int
      BY <1>4, <1>7
    <3> HIDE DEF y
    <3>2. t * d = 2 * y /\ 2 * (y - s) <= dc /\ -dc <= 2 * (y - s)
      BY <1>7, <1>8 DEF y
    <3> QED
      BY <1>1, <1>4, <2>3, <2>4, <3>1, <3>2
<1>11. vs \in Int /\ (10000 * z <= 0 => vs <= 0) /\ (0 <= 10000 * z => 0 <= vs)
  <2> DEFINE y == 10000 * z
  <2>1. y \in Int /\ 0 * s = 0 /\ 0 \in Int
    BY <1>1, <1>4
  <2> HIDE DEF y
  <2>2. Rounded(y, s) \in Int /\ (0 * s <= y => 0 <= Rounded(y, s)) /\ (y <= 0 * s => Rounded(y, s) <= 0)
    BY <1>1, <2>1, RoundedWithin, Zenon
  <2> QED
    BY <2>1, <2>2 DEF vs, y
<1>12. c * d \in Int /\ c \in Int
  BY <1>1
<1>13. vs > 0 => \E i \in w : close[i] < c
  <2> SUFFICES ASSUME vs > 0, \A i \in w : ~(close[i] < c) PROVE FALSE
    OBVIOUS
  <2>1. \A i \in w : (-1) * close[i] <= -c
    BY <1>3, <1>12
  <2>2. (-1) * s <= (-c) * d
    BY <1>2, <1>12, <2>1
  <2>3. (-c) * d = -(c * d)
    BY <1>12
  <2>4. z <= 0
    BY <1>1, <1>12, <2>2, <2>3 DEF z
  <2> QED
    BY <1>4, <1>11, <2>4
<1>14. vs < 0 => \E i \in w : c < close[i]
  <2> SUFFICES ASSUME vs < 0, \A i \in w : ~(c < close[i]) PROVE FALSE
    OBVIOUS
  <2>1. \A i \in w : 1 * close[i] <= c
    BY <1>3, <1>12
  <2>2. 1 * s <= c * d
    BY <1>2, <1>12, <2>1
  <2>3. z >= 0
    BY <1>1, <1>12, <2>2 DEF z
  <2> QED
    BY <1>4, <1>11, <2>3
<1> QED
  BY <1>5, <1>6, <1>7, <1>9, <1>10, <1>11, <1>13, <1>14 DEF CoherentAverage, c, n, w, t

Fell(close, from) == \E i, j \in from .. Len(close) : i < j /\ close[j] < close[i]

\* How far below the highest close before it a close fell.
Fall(close, i) == Quotient(close[i] - RunningMax(close, i), RunningMax(close, i))

\* A fall is a quotient.
LEMMA FallIs ==
  ASSUME NEW close \in Closes, NEW i \in 1 .. Len(close)
  PROVE  \E a \in Int, b \in Nat \ {0} :
            /\ Fall(close, i) = Quotient(a, b) /\ a = close[i] - RunningMax(close, i)
            /\ b = RunningMax(close, i) /\ Fall(close, i).num = a /\ Fall(close, i).den = b
<1> DEFINE b == RunningMax(close, i)
           a == close[i] - b
<1>1. b \in Nat \ {0} /\ close[i] \in Nat
  BY RunningMaxIs, CloseTypes
<1> HIDE DEF b
<1>2. a \in Int
  BY <1>1
<1>3. Fall(close, i) = Quotient(a, b)
  BY DEF Fall, b
<1> HIDE DEF a
<1>4. Fall(close, i).num = a /\ Fall(close, i).den = b
  BY <1>1, <1>2, <1>3, QuotientNotNull
<1> QED
  BY <1>1, <1>2, <1>3, <1>4 DEF a, b

\* The deepest fall is one of the falls, and no fall is deeper.
LEMMA DrawdownIs ==
  ASSUME NEW close \in Closes, Len(close) > 0
  PROVE  /\ \E i \in 1 .. Len(close) : MaxDrawdown(close) = Fall(close, i)
         /\ \A i \in 1 .. Len(close) : AtMost(MaxDrawdown(close), Fall(close, i))
<1> DEFINE n == Len(close)
           F(i) == Fall(close, i)
           N == {k \in Nat : k + 1 <= n => \E i \in 1 .. k + 1 : \A j \in 1 .. k + 1 : AtMost(F(i), F(j))}
<1>1. n \in Nat /\ DOMAIN close = 1 .. n
  BY CloseTypes
<1>2. \A i, j \in 1 .. n : AtMost(F(i), F(j)) \/ AtMost(F(j), F(i))
  <2> TAKE i, j \in 1 .. n
  <2>1. PICK a \in Int, b \in Nat \ {0} : F(i).num = a /\ F(i).den = b
    BY FallIs
  <2>2. PICK c \in Int, d \in Nat \ {0} : F(j).num = c /\ F(j).den = d
    BY FallIs
  <2>3. a * d \in Int /\ c * b \in Int
    OBVIOUS
  <2>4. a * d <= c * b \/ c * b <= a * d
    BY <2>3
  <2> HIDE DEF F
  <2> QED
    BY <2>1, <2>2, <2>4 DEF AtMost
<1>3. \A i, j, k \in 1 .. n : AtMost(F(i), F(j)) /\ AtMost(F(j), F(k)) => AtMost(F(i), F(k))
  <2> TAKE i, j, k \in 1 .. n
  <2>1. PICK a \in Int, b \in Nat \ {0} : F(i) = Quotient(a, b)
    BY FallIs
  <2>2. PICK c \in Int, d \in Nat \ {0} : F(j) = Quotient(c, d)
    BY FallIs
  <2>3. PICK e \in Int, f \in Nat \ {0} : F(k) = Quotient(e, f)
    BY FallIs
  <2> HIDE DEF F
  <2> QED
    BY <2>1, <2>2, <2>3, AtMostOrder
<1> HIDE DEF F
<1>4. 0 \in N
  <2> SUFFICES ASSUME 1 <= n PROVE \A j \in 1 .. 0 + 1 : AtMost(F(1), F(j))
    OBVIOUS
  <2>1. 1 \in 1 .. n /\ \A j \in 1 .. 0 + 1 : j = 1
    BY <1>1
  <2>2. AtMost(F(1), F(1))
    BY <1>2, <2>1
  <2> QED
    BY <2>1, <2>2
<1>5. ASSUME NEW k \in Nat, k \in N PROVE k + 1 \in N
  <2> SUFFICES ASSUME k + 2 <= n
               PROVE  \E i \in 1 .. k + 2 : \A j \in 1 .. k + 2 : AtMost(F(i), F(j))
    OBVIOUS
  <2>1. PICK i \in 1 .. k + 1 : \A j \in 1 .. k + 1 : AtMost(F(i), F(j))
    BY <1>5
  <2>2. /\ \A j \in 1 .. k + 2 : j \in 1 .. k + 1 \/ j = k + 2
        /\ \A j \in 1 .. k + 2 : j \in 1 .. n
        /\ i \in 1 .. k + 2 /\ k + 2 \in 1 .. k + 2
    BY <1>1
  <2>3. CASE AtMost(F(i), F(k + 2))
    <3>1. \A j \in 1 .. k + 2 : AtMost(F(i), F(j))
      BY <2>1, <2>2, <2>3
    <3> QED
      BY <2>2, <3>1
  <2>4. CASE AtMost(F(k + 2), F(i))
    <3>0. \A j \in 1 .. k + 1 : j \in 1 .. k + 2
      OBVIOUS
    <3>1. \A j \in 1 .. k + 1 : AtMost(F(k + 2), F(j))
      BY <1>3, <2>1, <2>2, <2>4, <3>0
    <3>2. AtMost(F(k + 2), F(k + 2))
      BY <1>2, <2>2
    <3>3. \A j \in 1 .. k + 2 : AtMost(F(k + 2), F(j))
      BY <2>2, <3>1, <3>2
    <3> QED
      BY <2>2, <3>3
  <2>5. AtMost(F(i), F(k + 2)) \/ AtMost(F(k + 2), F(i))
    BY <1>2, <2>2
  <2> QED
    BY <2>3, <2>4, <2>5
<1>6. PICK i \in 1 .. n : \A j \in 1 .. n : AtMost(F(i), F(j))
  <2>1. n - 1 \in Nat /\ (n - 1) + 1 = n
    BY <1>1
  <2>2. n - 1 \in N
    <3> HIDE DEF N
    <3> QED
      BY <1>4, <1>5, <2>1, Induction
  <2> QED
    BY <2>1, <2>2
<1> DEFINE falls == {F(j) : j \in 1 .. n}
<1>7. MaxDrawdown(close) = CHOOSE q \in falls : \A r \in falls : AtMost(q, r)
  BY <1>1 DEF MaxDrawdown, Fall, F
<1>8. F(i) \in falls /\ \A r \in falls : AtMost(F(i), r)
  BY <1>6
<1>9. MaxDrawdown(close) \in falls /\ \A r \in falls : AtMost(MaxDrawdown(close), r)
  <2> HIDE DEF falls
  <2> QED
    BY <1>7, <1>8
<1> QED
  BY <1>9 DEF F

\* Nothing fell exactly if the deepest fall is none.
LEMMA NoDrawdown ==
  ASSUME NEW close \in Closes, Len(close) > 0
  PROVE  MaxDrawdown(close).num = 0 <=> ~Fell(close, 1)
<1> DEFINE n == Len(close)
<1>1. n \in Nat /\ \A i \in 1 .. n : close[i] \in Nat
  BY CloseTypes
<1>2. PICK i \in 1 .. n : MaxDrawdown(close) = Fall(close, i)
  BY DrawdownIs
<1>3. /\ Fall(close, i).num = close[i] - RunningMax(close, i)
      /\ Fall(close, i).den \in Nat \ {0}
  BY FallIs
<1>4. ASSUME ~Fell(close, 1) PROVE MaxDrawdown(close).num = 0
  <2>1. PICK j \in 1 .. i : RunningMax(close, i) = close[j]
    BY RunningMaxIs
  <2>2. close[i] <= RunningMax(close, i)
    BY <1>1, RunningMaxIs
  <2>3. j \in 1 .. n /\ (j = i \/ j < i)
    BY <1>1
  <2>4. close[j] <= close[i]
    BY <1>1, <1>4, <2>3 DEF Fell
  <2> QED
    BY <1>1, <1>2, <1>3, <2>1, <2>2, <2>3, <2>4
<1>5. ASSUME MaxDrawdown(close).num = 0, NEW j \in 1 .. n, NEW k \in 1 .. n, j < k PROVE ~(close[k] < close[j])
  <2>1. AtMost(MaxDrawdown(close), Fall(close, k))
    BY DrawdownIs
  <2>2. PICK a \in Int, b \in Nat \ {0} : Fall(close, k).num = a /\ Fall(close, k).den = b /\ a = close[k] - RunningMax(close, k)
    BY FallIs
  <2>3. 0 * b <= a * MaxDrawdown(close).den
    BY <1>5, <2>1, <2>2 DEF AtMost
  <2>4. MaxDrawdown(close).den \in Nat \ {0}
    BY <1>2, <1>3
  <2> DEFINE d == MaxDrawdown(close).den
  <2>5. a >= 0
    <3> HIDE DEF d
    <3>1. d \in Nat \ {0} /\ 0 <= a * d
      BY <2>3, <2>4 DEF d
    <3>2. a < 0 => a * d < 0
      BY <3>1
    <3> QED
      BY <3>1, <3>2
  <2>6. close[j] <= RunningMax(close, k) /\ RunningMax(close, k) \in Nat
    BY <1>5, RunningMaxIs
  <2> QED
    BY <1>1, <2>2, <2>5, <2>6
<1> QED
  BY <1>4, <1>5 DEF Fell

\* The return of any span is at least the deepest fall.
LEMMA ReturnsAboveDrawdown ==
  ASSUME NEW close \in Closes, NEW d \in Nat \ {0}, d < Len(close)
  PROVE  AtMost(MaxDrawdown(close), PctReturn(close, d))
<1> DEFINE n == Len(close)
           c == close[n]
           b == close[n - d]
           m == RunningMax(close, n)
<1>1. n \in Nat /\ n \in 1 .. n /\ n - d \in 1 .. n
  BY CloseTypes
<1>2. PctReturn(close, d) = Quotient(c - b, b) /\ c \in Nat \ {0} /\ b \in Nat \ {0}
  BY LookBack
<1>3. m \in Nat \ {0} /\ b <= m /\ c <= m
  BY <1>1, RunningMaxIs
<1>4. AtMost(Quotient(c - m, m), Quotient(c - b, b))
  <2> HIDE DEF c, b, m
  <2>1. c * b <= c * m
    BY <1>2, <1>3
  <2>2. (c - m) * b = c * b - m * b /\ (c - b) * m = c * m - m * b
    BY <1>2, <1>3
  <2>3. c * b \in Int /\ c * m \in Int /\ m * b \in Int
    BY <1>2, <1>3
  <2> QED
    BY <2>1, <2>2, <2>3 DEF AtMost, Quotient
<1>5. PICK i \in 1 .. n : MaxDrawdown(close) = Fall(close, i)
  BY <1>1, DrawdownIs
<1>6. PICK e \in Int, f \in Nat \ {0} : MaxDrawdown(close) = Quotient(e, f)
  BY <1>5, FallIs
<1>7. AtMost(Quotient(e, f), Quotient(c - m, m))
  BY <1>1, <1>6, DrawdownIs DEF Fall
<1>8. c - m \in Int /\ c - b \in Int
  BY <1>2, <1>3
<1> HIDE DEF c, b, m
<1> QED
  BY <1>2, <1>3, <1>4, <1>6, <1>7, <1>8, AtMostOrder

\* The quotient of the deepest fall.
LEMMA DrawdownQuotient ==
  ASSUME NEW close \in Closes, Len(close) > 0
  PROVE  \E e \in Int, f \in Nat \ {0} :
            /\ MaxDrawdown(close) = Quotient(e, f) /\ -f < e /\ e <= 0
            /\ Shown(MaxDrawdown(close), 1000, 1) = Rounded(1000 * e, f)
<1>1. PICK i \in 1 .. Len(close) : MaxDrawdown(close) = Fall(close, i)
  BY DrawdownIs
<1>2. PICK e \in Int, f \in Nat \ {0} :
         Fall(close, i) = Quotient(e, f) /\ e = close[i] - RunningMax(close, i) /\ f = RunningMax(close, i)
  BY FallIs
<1>3. Len(close) \in Nat /\ close[i] \in Nat /\ close[i] > 0
  BY CloseTypes
<1>4. close[i] <= RunningMax(close, i)
  BY <1>3, RunningMaxIs
<1>5. -f < e /\ e <= 0
  BY <1>2, <1>3, <1>4
<1>6. Quotient(e, f) # Null /\ Quotient(e, f).num = e /\ Quotient(e, f).den = f
  BY QuotientNotNull
<1>7. Shown(Quotient(e, f), 1000, 1) = Rounded(1000 * e, f)
  <2> DEFINE k == 1000
  <2> HIDE DEF k
  <2>1. Shown(Quotient(e, f), k, 1) = Rounded(k * e, 1 * f)
    BY <1>6, Zenon DEF Shown
  <2>2. 1 * f = f
    OBVIOUS
  <2> QED
    BY <2>1, <2>2 DEF k
<1> QED
  BY <1>1, <1>2, <1>5, <1>7

\* The drawdown that is shown agrees with the closes.
LEMMA DrawdownCoheres ==
  ASSUME NEW close \in Closes, Len(close) > 0
  PROVE  LET dd == Shown(MaxDrawdown(close), 1000, 1)
         IN  /\ dd \in -1000 .. 0
             /\ ~Fell(close, 1) => dd = 0
             /\ dd = 0 => \A i, j \in 1 .. Len(close) : i < j => 2000 * (close[i] - close[j]) <= close[i]
<1> DEFINE n == Len(close)
           dd == Shown(MaxDrawdown(close), 1000, 1)
<1>1. PICK e \in Int, f \in Nat \ {0} :
         MaxDrawdown(close) = Quotient(e, f) /\ -f < e /\ e <= 0 /\ dd = Rounded(1000 * e, f)
  BY DrawdownQuotient
<1> DEFINE m == 1000 * e
<1>2. m \in Int /\ (-1000) * f <= m /\ m <= 0 * f
  BY <1>1
<1> HIDE DEF m, dd
<1>3. dd = Rounded(m, f)
  BY <1>1 DEF m
<1>4. dd \in -1000 .. 0
  <2> DEFINE k == -1000
  <2>1. k \in Int /\ 0 \in Int /\ k * f <= m
    BY <1>2
  <2> HIDE DEF k
  <2>2. k <= dd /\ dd <= 0 /\ dd \in Int
    BY <1>2, <1>3, <2>1, RoundedWithin, Zenon
  <2>3. dd \in k .. 0
    BY <2>1, <2>2
  <2> QED
    BY <2>3 DEF k
<1>5. ~Fell(close, 1) => dd = 0
  <2> SUFFICES ASSUME ~Fell(close, 1) PROVE dd >= 0
    BY <1>4
  <2>1. e = 0
    BY <1>1, NoDrawdown DEF Quotient
  <2>2. 0 * f <= m /\ 0 \in Int
    BY <2>1 DEF m
  <2> QED
    BY <1>2, <1>3, <2>2, RoundedWithin
<1>6. ASSUME dd = 0, NEW i \in 1 .. n, NEW j \in 1 .. n, i < j
      PROVE  2000 * (close[i] - close[j]) <= close[i]
  <2> DEFINE h == RunningMax(close, j)
             ci == close[i]
             cj == close[j]
  <2>1. n \in Nat /\ ci \in Nat /\ cj \in Nat
    BY CloseTypes
  <2>2. h \in Nat \ {0} /\ ci <= h
    BY <1>6, <2>1, RunningMaxIs
  <2>3. AtMost(Quotient(e, f), Quotient(cj - h, h))
    BY <1>1, DrawdownIs DEF Fall
  <2> HIDE DEF h, ci, cj
  <2>4. e * h <= (cj - h) * f
    BY <2>3 DEF AtMost, Quotient
  <2>5. 2 * (dd * f - m) <= f
    BY <1>2, <1>3, RoundedIs, Zenon
  <2>6. -f <= 2000 * e
    <3>1. dd * f = 0
      BY <1>6
    <3> QED
      BY <1>1, <2>5, <3>1 DEF m
  <2>7. (-1) * (f * h) <= 2000 * (e * h)
    <3>1. (-f) * h <= (2000 * e) * h
      <4> DEFINE k == 2000 * e
      <4>1. k \in Int /\ -f <= k
        BY <2>6
      <4> HIDE DEF k
      <4>2. (k + f) * h >= 0
        BY <2>2, <4>1
      <4>3. (k + f) * h = k * h - (-f) * h /\ k * h \in Int /\ (-f) * h \in Int
        BY <2>2, <4>1
      <4> QED
        BY <4>2, <4>3 DEF k
    <3>2. (-f) * h = (-1) * (f * h) /\ (2000 * e) * h = 2000 * (e * h)
      BY <2>2
    <3> QED
      BY <3>1, <3>2
  <2>8. (-1) * (f * h) <= 2000 * ((cj - h) * f)
    <3>1. e * h \in Int /\ (cj - h) * f \in Int /\ f * h \in Int
      BY <2>1, <2>2
    <3> QED
      BY <2>4, <2>7, <3>1
  <2>9. 0 <= (2000 * cj - 1999 * h) * f
    <3>1. (2000 * cj - 1999 * h) * f = 2000 * ((cj - h) * f) + f * h
      BY <2>1, <2>2
    <3>2. (cj - h) * f \in Int /\ f * h \in Int
      BY <2>1, <2>2
    <3> QED
      BY <2>8, <3>1, <3>2
  <2>10. 0 <= 2000 * cj - 1999 * h
    <3> DEFINE k == 2000 * cj - 1999 * h
    <3>1. k \in Int /\ 0 <= k * f
      BY <2>1, <2>2, <2>9
    <3> HIDE DEF k
    <3>2. k < 0 => k * f < 0
      BY <3>1
    <3>3. 0 <= k
      BY <3>1, <3>2
    <3> QED
      BY <3>3 DEF k
  <2>11. 2000 * (ci - cj) <= ci
    BY <2>1, <2>2, <2>10
  <2> QED
    BY <2>11 DEF ci, cj
<1> QED
  BY <1>4, <1>5, <1>6 DEF dd

\* A return that is shown is no worse than the drawdown that is, half a tenth aside.
LEMMA ReturnCoheres ==
  ASSUME NEW close \in Closes, NEW d \in Nat \ {0}, d < Len(close)
  PROVE  /\ Shown(PctReturn(close, d), 10000, 1) \in Int
         /\ 10 * Shown(MaxDrawdown(close), 1000, 1) <= Shown(PctReturn(close, d), 10000, 1) + 5
<1> DEFINE c == close[Len(close)]
           b == close[Len(close) - d]
           x == c - b
           dd == Shown(MaxDrawdown(close), 1000, 1)
           ret == Shown(PctReturn(close, d), 10000, 1)
<1>0. Len(close) \in Nat /\ Len(close) > 0
  BY CloseTypes
<1>1. PctReturn(close, d) = Quotient(x, b) /\ c \in Nat \ {0} /\ b \in Nat \ {0}
  BY LookBack
<1> HIDE DEF c, b
<1>2. x \in Int
  BY <1>1
<1> HIDE DEF x
<1>3. PICK e \in Int, f \in Nat \ {0} : MaxDrawdown(close) = Quotient(e, f) /\ dd = Rounded(1000 * e, f)
  BY <1>0, DrawdownQuotient
<1>4. ret = Rounded(10000 * x, b)
  <2>1. Quotient(x, b) # Null /\ Quotient(x, b).num = x /\ Quotient(x, b).den = b
    BY <1>1, <1>2, QuotientNotNull
  <2>2. 1 * b = b
    BY <1>1
  <2> DEFINE k == 10000
  <2> HIDE DEF k
  <2>3. Shown(Quotient(x, b), k, 1) = Rounded(k * x, 1 * b)
    BY <2>1, Zenon DEF Shown
  <2> QED
    BY <1>1, <2>2, <2>3 DEF k
<1>5. e * b <= x * f
  <2>1. AtMost(Quotient(e, f), Quotient(x, b))
    BY <1>1, <1>3, ReturnsAboveDrawdown
  <2> QED
    BY <2>1 DEF AtMost, Quotient
<1> HIDE DEF dd, ret
<1> DEFINE m == 1000 * e
           p == 10000 * x
<1>6. m \in Int /\ p \in Int
  BY <1>2
<1> HIDE DEF m, p
<1>7. dd \in Int /\ 2 * (dd * f - m) <= f
  <2>1. dd = Rounded(m, f)
    BY <1>3 DEF m
  <2> QED
    BY <1>6, <2>1, RoundedIs, Zenon
<1>8. ret \in Int /\ -b <= 2 * (ret * b - p)
  <2>1. ret = Rounded(p, b)
    BY <1>4 DEF p
  <2> QED
    BY <1>1, <1>6, <2>1, RoundedIs, Zenon
<1> DEFINE fb == f * b
<1>9. 20 * (dd * fb) <= 20000 * (e * b) + 10 * fb
  <2> DEFINE k == f - 2 * (dd * f - m)
  <2>1. k \in Int /\ k >= 0
    BY <1>6, <1>7
  <2> HIDE DEF k
  <2>2. k * b >= 0
    BY <1>1, <2>1
  <2>3. k * b = fb - 2 * (dd * fb) + 2000 * (e * b)
    <3>1. k = f - 2 * (dd * f) + 2000 * e
      BY <1>6, <1>7 DEF k, m
    <3>2. (f - 2 * (dd * f) + 2000 * e) * b = fb - 2 * (dd * fb) + 2000 * (e * b)
      BY <1>1, <1>7
    <3> QED
      BY <3>1, <3>2
  <2>4. fb \in Int /\ dd * fb \in Int /\ e * b \in Int
    BY <1>1, <1>7
  <2> HIDE DEF fb
  <2> QED
    BY <2>2, <2>3, <2>4
<1>10. 20000 * (x * f) <= 2 * (ret * fb) + fb
  <2> DEFINE k == b + 2 * (ret * b - p)
  <2>1. k \in Int /\ k >= 0
    BY <1>1, <1>6, <1>8
  <2> HIDE DEF k
  <2>2. k * f >= 0
    BY <2>1
  <2>3. k * f = fb + 2 * (ret * fb) - 20000 * (x * f)
    <3>1. k = b + 2 * (ret * b) - 20000 * x
      BY <1>1, <1>2, <1>6, <1>8 DEF k, p
    <3>2. (b + 2 * (ret * b) - 20000 * x) * f = fb + 2 * (ret * fb) - 20000 * (x * f)
      BY <1>1, <1>2, <1>8
    <3> QED
      BY <3>1, <3>2
  <2>4. fb \in Int /\ ret * fb \in Int /\ x * f \in Int
    BY <1>1, <1>2, <1>8
  <2> HIDE DEF fb
  <2> QED
    BY <2>2, <2>3, <2>4
<1>11. (2 * ret + 11 - 20 * dd) * fb >= 0
  <2>1. fb \in Int /\ dd * fb \in Int /\ ret * fb \in Int /\ e * b \in Int /\ x * f \in Int
    BY <1>1, <1>2, <1>7, <1>8
  <2> DEFINE u == ret * fb
             v == dd * fb
             y == e * b
             z == x * f
  <2>2. (2 * ret + 11 - 20 * dd) * fb = 2 * u + 11 * fb - 20 * v
    <3> HIDE DEF fb
    <3> QED
      BY <1>7, <1>8, <2>1
  <2> HIDE DEF fb
  <2>3. /\ fb \in Int /\ u \in Int /\ v \in Int /\ y \in Int /\ z \in Int
        /\ y <= z /\ 20 * v <= 20000 * y + 10 * fb /\ 20000 * z <= 2 * u + fb
    BY <1>5, <1>9, <1>10, <2>1
  <2> HIDE DEF u, v, y, z
  <2> QED
    BY <2>2, <2>3
<1>12. 2 * ret + 11 - 20 * dd >= 0
  <2> DEFINE k == 2 * ret + 11 - 20 * dd
  <2>1. k \in Int /\ fb \in Nat /\ fb >= 1
    BY <1>1, <1>7, <1>8
  <2> HIDE DEF k, fb
  <2>2. k < 0 => k * fb < 0
    BY <2>1
  <2>3. k * fb >= 0
    BY <1>11 DEF k
  <2>4. k >= 0
    BY <2>1, <2>2, <2>3
  <2> QED
    BY <2>4 DEF k
<1>13. 10 * dd <= ret + 5
  BY <1>7, <1>8, <1>12
<1> QED
  BY <1>8, <1>13 DEF dd, ret

\* The strength lies between 0 and 1, is 1 only if no recent day lost, and 0 if none gained
\* and some lost.
LEMMA RsiIs ==
  ASSUME NEW close \in Closes, RsiDays < Len(close)
  PROVE  LET q == Rsi(close)
         IN  /\ q # Null
             /\ q.num \in Nat /\ q.den \in Nat \ {0} /\ q.num <= q.den
             /\ q.num = q.den <=> ~\E i \in Len(close) - RsiDays + 1 .. Len(close) : close[i] < close[i - 1]
             /\ (\E i \in Len(close) - RsiDays + 1 .. Len(close) : close[i] < close[i - 1])
                /\ ~(\E i \in Len(close) - RsiDays + 1 .. Len(close) : close[i] > close[i - 1]) => q.num = 0
<1> DEFINE n == Len(close)
           Change(k) == close[n - k + 1] - close[n - k]
           gains == [k \in 1 .. RsiDays |-> Max({Change(k), 0})]
           losses == [k \in 1 .. RsiDays |-> Max({-Change(k), 0})]
           gain == SumTo(gains, RsiDays)
           loss == SumTo(losses, RsiDays)
           q == Rsi(close)
<1>1. n \in Nat /\ RsiDays \in Nat /\ \A i \in 1 .. n : close[i] \in Nat
  BY CloseTypes, MarketConstants
<1>2. \A k \in 1 .. RsiDays : n - k + 1 \in 1 .. n /\ n - k \in 1 .. n
  BY <1>1
<1>3. \A k \in 1 .. RsiDays : Change(k) \in Int
  <2>1. \A k \in 1 .. RsiDays : close[n - k + 1] \in Nat /\ close[n - k] \in Nat
    BY <1>1, <1>2
  <2> QED
    BY <2>1
<1>4. \A k \in 1 .. RsiDays :
         /\ gains[k] = IF Change(k) > 0 THEN Change(k) ELSE 0
         /\ losses[k] = IF -Change(k) > 0 THEN -Change(k) ELSE 0
  <2> HIDE DEF Change
  <2>1. \A k \in 1 .. RsiDays : gains[k] = Max({Change(k), 0}) /\ losses[k] = Max({-Change(k), 0})
    OBVIOUS
  <2>2. \A k \in 1 .. RsiDays : -Change(k) \in Int
    BY <1>3
  <2> QED
    BY <1>3, <2>1, <2>2, MaxOfTwo
<1>5. \A k \in 1 .. RsiDays : gains[k] \in Nat /\ losses[k] \in Nat
  <2> HIDE DEF Change, gains, losses
  <2> QED
    BY <1>3, <1>4
<1>6. /\ gain \in Nat /\ loss \in Nat /\ (loss = 0 <=> \A k \in 1 .. RsiDays : losses[k] = 0)
      /\ (\A k \in 1 .. RsiDays : gains[k] = 0) => gain = 0
  <2> HIDE DEF gains, losses
  <2> QED
    BY <1>1, <1>5, SumOfNaturals
<1>7. q = IF loss = 0 THEN Quotient(1, 1) ELSE Quotient(gain, gain + loss)
  BY DEF Rsi
<1>8. (\A k \in 1 .. RsiDays : losses[k] = 0) <=> ~\E i \in n - RsiDays + 1 .. n : close[i] < close[i - 1]
  <2>1. \A k \in 1 .. RsiDays : losses[k] = 0 <=> ~(close[n - k + 1] < close[n - k])
    <3> HIDE DEF losses
    <3>1. \A k \in 1 .. RsiDays : (losses[k] = 0) <=> (Change(k) >= 0)
      <4> TAKE k \in 1 .. RsiDays
      <4> DEFINE c == Change(k)
                 l == losses[k]
      <4>1. c \in Int /\ l = IF -c > 0 THEN -c ELSE 0
        BY <1>3, <1>4
      <4> HIDE DEF c, l
      <4>2. l = 0 <=> c >= 0
        BY <4>1
      <4> QED
        BY <4>2 DEF c, l
    <3>2. \A k \in 1 .. RsiDays : close[n - k + 1] \in Nat /\ close[n - k] \in Nat
      BY <1>1, <1>2
    <3> QED
      BY <3>1, <3>2
  <2>2. ASSUME NEW i \in n - RsiDays + 1 .. n
        PROVE  n - i + 1 \in 1 .. RsiDays /\ n - (n - i + 1) + 1 = i /\ n - (n - i + 1) = i - 1
    BY <1>1
  <2>3. ASSUME NEW k \in 1 .. RsiDays
        PROVE  n - k + 1 \in n - RsiDays + 1 .. n /\ (n - k + 1) - 1 = n - k
    BY <1>1
  <2> HIDE DEF losses
  <2>4. ASSUME \A k \in 1 .. RsiDays : losses[k] = 0, NEW i \in n - RsiDays + 1 .. n
        PROVE  ~(close[i] < close[i - 1])
    <3> DEFINE k == n - i + 1
    <3>1. k \in 1 .. RsiDays /\ n - k + 1 = i /\ n - k = i - 1
      BY <2>2
    <3> HIDE DEF k
    <3> QED
      BY <2>1, <2>4, <3>1
  <2>5. ASSUME \A i \in n - RsiDays + 1 .. n : ~(close[i] < close[i - 1]), NEW k \in 1 .. RsiDays
        PROVE  losses[k] = 0
    <3> DEFINE i == n - k + 1
    <3>1. i \in n - RsiDays + 1 .. n /\ i - 1 = n - k
      BY <2>3
    <3>2. ~(close[i] < close[i - 1])
      <4> HIDE DEF i
      <4> QED
        BY <2>5, <3>1
    <3> QED
      BY <2>1, <3>1, <3>2
  <2> QED
    BY <2>4, <2>5
<1>11. ~(\E i \in n - RsiDays + 1 .. n : close[i] > close[i - 1]) => gain = 0
  <2> SUFFICES ASSUME ~(\E i \in n - RsiDays + 1 .. n : close[i] > close[i - 1]), NEW k \in 1 .. RsiDays
               PROVE  gains[k] = 0
    BY <1>6
  <2>1. n - k + 1 \in n - RsiDays + 1 .. n /\ (n - k + 1) - 1 = n - k
    BY <1>1
  <2> DEFINE i == n - k + 1
  <2>2. i \in n - RsiDays + 1 .. n /\ i - 1 = n - k
    BY <2>1
  <2>3. close[i] \in Nat /\ close[n - k] \in Nat
    BY <1>1, <1>2
  <2>4. ~(close[i] > close[i - 1])
    <3> HIDE DEF i
    <3> QED
      BY <2>2
  <2>5. Change(k) = close[i] - close[n - k]
    OBVIOUS
  <2>6. Change(k) \in Int /\ ~(Change(k) > 0)
    <3> HIDE DEF i, Change
    <3> QED
      BY <2>2, <2>3, <2>4, <2>5
  <2>7. gains[k] = IF Change(k) > 0 THEN Change(k) ELSE 0
    BY <1>4
  <2> HIDE DEF Change, gains
  <2> QED
    BY <2>6, <2>7
<1> HIDE DEF gain, loss, losses, gains, q
<1>9. CASE loss = 0
  <2>1. q = Quotient(1, 1)
    BY <1>7, <1>9
  <2>2. q # Null /\ q.num = 1 /\ q.den = 1
    BY <2>1, QuotientNotNull
  <2> QED
    BY <1>6, <1>8, <1>9, <2>2 DEF q
<1>10. CASE loss # 0
  <2>1. q = Quotient(gain, gain + loss) /\ loss > 0
    BY <1>6, <1>7, <1>10
  <2>2. q # Null /\ q.num = gain /\ q.den = gain + loss /\ q.num # q.den
    BY <1>6, <2>1, QuotientNotNull
  <2>3. gain <= gain + loss /\ gain + loss \in Nat \ {0}
    BY <1>6, <2>1
  <2> QED
    BY <1>6, <1>8, <1>10, <1>11, <2>2, <2>3 DEF q
<1> QED
  BY <1>9, <1>10

\* The indicators of any history agree with each other and with it.
LEMMA TechnicalsCohere ==
  ASSUME NEW close \in Closes
  PROVE  CoherentTechnicals(close)
<1> DEFINE n == Len(close)
           fig == [f \in FigureNames |-> Figure(close, f)]
           Short(f) == \/ f \in DOMAIN Months /\ n <= Months[f]
                       \/ f \in {"sma_50", "price_vs_sma50_pct"} /\ n < ShortDays
                       \/ f \in {"sma_200", "price_vs_sma200_pct"} /\ n < LongDays
           fallen == {p \in (1 .. n) \X (1 .. n) : p[1] < p[2] /\ close[p[2]] < close[p[1]]}
           lost   == \E i \in n - RsiDays + 1 .. n : close[i] < close[i - 1]
           gained == \E i \in n - RsiDays + 1 .. n : close[i] > close[i - 1]
           warned == {f \in FigureNames : fig[f] = Null}
<1> SUFFICES ASSUME n >= MinHistory
             PROVE
        /\ warned = {f \in FigureNames : Short(f)}
        /\ \A m \in DOMAIN Months : n = Months[m] + 1 => fig[m] = fig.return_1y_pct
        /\ \A f \in Returns \ warned : 10 * fig.max_drawdown_1y_pct <= fig[f] + 5
        /\ fig.max_drawdown_1y_pct \in -1000 .. 0
        /\ fallen = {} => fig.max_drawdown_1y_pct = 0
        /\ fig.max_drawdown_1y_pct = 0 =>
              \A p \in fallen : 2000 * (close[p[1]] - close[p[2]]) <= close[p[1]]
        /\ fig.rsi_14 \in 0 .. 1000
        /\ ~lost => fig.rsi_14 = 1000
        /\ lost /\ ~gained => fig.rsi_14 = 0
        /\ "sma_50" \notin warned => CoherentAverage(close, ShortDays, fig.sma_50, fig.price_vs_sma50_pct)
        /\ "sma_200" \notin warned => CoherentAverage(close, LongDays, fig.sma_200, fig.price_vs_sma200_pct)
  <2>1. n \in Nat /\ MinHistory \in Nat
    BY CloseTypes, MarketConstants
  <2>2. n >= MinHistory => Technicals(close) = [figures |-> fig, data_warnings |-> warned]
    <3>0. n >= MinHistory => ~(n < MinHistory)
      <4> HIDE DEF n
      <4> QED
        BY <2>1
    <3>1. n >= MinHistory => Technicals(close) = Warned(fig)
      BY <3>0 DEF Technicals
    <3>2. DOMAIN fig = FigureNames
      OBVIOUS
    <3> HIDE DEF fig, n
    <3>3. Warned(fig) = [figures |-> fig, data_warnings |-> warned]
      BY <3>2 DEF Warned, NullWarnings
    <3> QED
      BY <3>1, <3>3
  <2> HIDE DEF fig, warned
  <2>3. DOMAIN fig = FigureNames
    BY DEF fig
  <2> QED
    BY <2>2, <2>3 DEF CoherentTechnicals
<1>1. n \in Nat /\ MinHistory \in Nat /\ RsiDays < MinHistory /\ RsiDays \in Nat \ {0}
      /\ ShortDays \in Nat \ {0} /\ LongDays \in Nat \ {0} /\ Null \notin Int /\ Cent \in Nat \ {0}
      /\ \A m \in DOMAIN Months : Months[m] \in Nat \ {0} /\ m \notin OtherFigures
  BY CloseTypes, MarketConstants
<1>2. n > RsiDays /\ n > 1 /\ n - 1 \in Nat \ {0} /\ n - 1 < n
  <2>1. n \in Nat /\ MinHistory \in Nat /\ RsiDays < MinHistory /\ RsiDays \in Nat \ {0} /\ n >= MinHistory
    BY <1>1
  <2> HIDE DEF n
  <2> QED
    BY <2>1
<1> DEFINE dd == Shown(MaxDrawdown(close), 1000, 1)
           Ret(d) == Shown(PctReturn(close, d), 10000, 1)
           Avg(d) == Shown(Sma(close, d), 1, Cent)
           Vs(d) == Shown(VsSma(close, d), 10000, 1)
           rsi == Shown(Rsi(close), 1000, 1)
           last == Rounded(Last(close), Cent)
<1>3. /\ \A m \in DOMAIN Months : fig[m] = Ret(Months[m])
      /\ fig["last_close"] = last
      /\ fig["return_1y_pct"] = Ret(n - 1)
      /\ fig["sma_50"] = Avg(ShortDays)
      /\ fig["sma_200"] = Avg(LongDays)
      /\ fig["price_vs_sma50_pct"] = Vs(ShortDays)
      /\ fig["price_vs_sma200_pct"] = Vs(LongDays)
      /\ fig["rsi_14"] = rsi
      /\ fig["max_drawdown_1y_pct"] = dd
  <2>1. \A f \in FigureNames : fig[f] = Figure(close, f)
    OBVIOUS
  <2> HIDE DEF fig
  <2>2. \A m \in DOMAIN Months : Figure(close, m) = Ret(Months[m])
    BY <1>1 DEF Figure, OtherFigures
  <2>3. \A f \in OtherFigures : f \notin DOMAIN Months
    BY <1>1
  <2>4. /\ Figure(close, "last_close") = last
        /\ Figure(close, "return_1y_pct") = Ret(n - 1)
        /\ Figure(close, "sma_50") = Avg(ShortDays)
        /\ Figure(close, "sma_200") = Avg(LongDays)
        /\ Figure(close, "price_vs_sma50_pct") = Vs(ShortDays)
        /\ Figure(close, "price_vs_sma200_pct") = Vs(LongDays)
        /\ Figure(close, "rsi_14") = rsi
        /\ Figure(close, "max_drawdown_1y_pct") = dd
    BY <2>3 DEF Figure, OtherFigures
  <2> HIDE DEF dd, Ret, Avg, Vs, rsi, last
  <2> QED
    BY <2>1, <2>2, <2>4 DEF FigureNames, OtherFigures
<1> HIDE DEF fig
<1>4. /\ \A d \in Nat \ {0} : Ret(d) = Null <=> n <= d
      /\ \A d \in Nat \ {0} : d < n => 10 * dd <= Ret(d) + 5
  <2>1. ASSUME NEW d \in Nat \ {0}, d < n PROVE Ret(d) \in Int /\ 10 * dd <= Ret(d) + 5
    BY <2>1, ReturnCoheres
  <2>2. ASSUME NEW d \in Nat \ {0}, n <= d PROVE Ret(d) = Null
    BY <2>2 DEF PctReturn, Shown
  <2>3. \A d \in Nat \ {0} : d < n \/ n <= d
    BY <1>1
  <2> HIDE DEF Ret, dd
  <2> QED
    BY <1>1, <2>1, <2>2, <2>3
<1>5. \A d \in Nat \ {0} : /\ Avg(d) = Null <=> n < d
                           /\ Vs(d) = Null <=> n < d
                           /\ d <= n => CoherentAverage(close, d, Avg(d), Vs(d))
  <2>1. ASSUME NEW d \in Nat \ {0}, n < d PROVE Avg(d) = Null /\ Vs(d) = Null
    <3>1. Sma(close, d) = Null
      BY <2>1 DEF Sma
    <3>2. VsSma(close, d) = Null
      BY <3>1 DEF VsSma
    <3> QED
      BY <3>1, <3>2 DEF Shown
  <2>2. ASSUME NEW d \in Nat \ {0}, d <= n
        PROVE  Avg(d) \in Int /\ Vs(d) \in Int /\ CoherentAverage(close, d, Avg(d), Vs(d))
    BY <2>2, AverageCoheres
  <2>3. \A d \in Nat \ {0} : d <= n <=> ~(n < d)
    BY <1>1
  <2> HIDE DEF Avg, Vs
  <2> QED
    BY <1>1, <2>1, <2>2, <2>3
<1>6. rsi \in 0 .. 1000 /\ (~lost => rsi = 1000) /\ (lost /\ ~gained => rsi = 0)
  <2> DEFINE q == Rsi(close)
             a == q.num
             b == q.den
             m == 1000 * a
  <2>1. /\ q # Null /\ a \in Nat /\ b \in Nat \ {0} /\ a <= b
        /\ a = b <=> ~lost
        /\ lost /\ ~gained => a = 0
    BY <1>2, RsiIs
  <2> HIDE DEF lost, gained, q
  <2>2. rsi = Rounded(m, b)
    <3>1. 1 * b = b
      BY <2>1
    <3> DEFINE k == 1000
    <3> HIDE DEF k
    <3>2. Shown(q, k, 1) = Rounded(k * a, 1 * b)
      BY <2>1, Zenon DEF Shown
    <3> QED
      BY <3>1, <3>2 DEF k, q
  <2> HIDE DEF a, b, rsi
  <2>3. m \in Int /\ 0 * b <= m /\ m <= 1000 * b /\ (a = b => 1000 * b <= m) /\ (a = 0 => m <= 0 * b)
    BY <2>1
  <2> HIDE DEF m
  <2> DEFINE k == 1000
  <2>4. k \in Int /\ 0 \in Int /\ m <= k * b /\ (a = b => k * b <= m)
    BY <2>3
  <2> HIDE DEF k
  <2>5. rsi \in Int /\ rsi <= k /\ (a = b => k <= rsi)
    BY <2>1, <2>2, <2>3, <2>4, RoundedWithin
  <2>6. 0 <= rsi /\ (a = 0 => rsi <= 0)
    BY <2>1, <2>2, <2>3, <2>4, RoundedWithin
  <2> QED
    BY <2>1, <2>5, <2>6 DEF k
<1>7. /\ dd \in -1000 .. 0
      /\ fallen = {} => dd = 0
      /\ dd = 0 => \A p \in fallen : 2000 * (close[p[1]] - close[p[2]]) <= close[p[1]]
  <2>1. /\ dd \in -1000 .. 0
        /\ ~Fell(close, 1) => dd = 0
        /\ dd = 0 => \A i, j \in 1 .. n : i < j => 2000 * (close[i] - close[j]) <= close[i]
    BY <1>2, DrawdownCoheres
  <2>2. fallen = {} => ~Fell(close, 1)
    <3> SUFFICES ASSUME NEW i \in 1 .. n, NEW j \in 1 .. n, i < j, close[j] < close[i]
                 PROVE  <<i, j>> \in fallen
      BY DEF Fell
    <3> QED
      OBVIOUS
  <2>3. \A p \in fallen : p[1] \in 1 .. n /\ p[2] \in 1 .. n /\ p[1] < p[2]
    OBVIOUS
  <2> HIDE DEF dd, fallen
  <2> QED
    BY <2>1, <2>2, <2>3
<1>8. last # Null
  <2>1. Last(close) \in Int
    <3>1. n \in 1 .. n
      BY <1>1, <1>2
    <3> QED
      BY <3>1, CloseTypes DEF Last
  <2> QED
    BY <1>1, <2>1, RoundedIs
<1>9. rsi # Null /\ dd # Null
  <2> HIDE DEF rsi, dd
  <2> QED
    BY <1>1, <1>6, <1>7
<1> HIDE DEF dd, Ret, Avg, Vs, rsi, last, fallen, lost, gained, n
<1>10. \A f \in FigureNames : fig[f] = Null <=> Short(f)
  <2>1. ASSUME NEW f \in DOMAIN Months PROVE fig[f] = Null <=> Short(f)
    BY <1>1, <1>3, <1>4, <2>1 DEF OtherFigures
  <2>2. ASSUME NEW f \in OtherFigures PROVE fig[f] = Null <=> Short(f)
    <3>1. f \notin DOMAIN Months
      BY <1>1
    <3>2. /\ fig["sma_50"] = Null <=> n < ShortDays
          /\ fig["sma_200"] = Null <=> n < LongDays
          /\ fig["price_vs_sma50_pct"] = Null <=> n < ShortDays
          /\ fig["price_vs_sma200_pct"] = Null <=> n < LongDays
      BY <1>1, <1>3, <1>5
    <3>3. fig["return_1y_pct"] # Null
      <4>1. ~(n <= n - 1)
        BY <1>1
      <4> QED
        BY <1>2, <1>3, <1>4, <4>1
    <3> QED
      BY <1>3, <1>8, <1>9, <3>1, <3>2, <3>3 DEF OtherFigures
  <2> QED
    BY <2>1, <2>2 DEF FigureNames
<1>11. warned = {f \in FigureNames : Short(f)}
  BY <1>10
<1>12. \A m \in DOMAIN Months : n = Months[m] + 1 => fig[m] = fig.return_1y_pct
  <2> SUFFICES ASSUME NEW m \in DOMAIN Months, n = Months[m] + 1 PROVE fig[m] = fig.return_1y_pct
    OBVIOUS
  <2>1. n - 1 = Months[m]
    BY <1>1
  <2> QED
    BY <1>3, <2>1
<1>13. \A f \in Returns \ warned : 10 * fig.max_drawdown_1y_pct <= fig[f] + 5
  <2> SUFFICES ASSUME NEW f \in Returns, f \notin warned PROVE 10 * dd <= fig[f] + 5
    BY <1>3
  <2>1. fig[f] # Null
    BY DEF Returns, FigureNames, OtherFigures
  <2>2. CASE f \in DOMAIN Months
    <3>1. Months[f] < n
      BY <1>1, <1>3, <1>4, <2>1, <2>2
    <3> QED
      BY <1>1, <1>3, <1>4, <2>2, <3>1
  <2>3. CASE f = "return_1y_pct"
    BY <1>2, <1>3, <1>4, <2>3
  <2> QED
    BY <2>2, <2>3 DEF Returns
<1>14. /\ "sma_50" \notin warned => ShortDays <= n
       /\ "sma_200" \notin warned => LongDays <= n
  <2>1. {"sma_50", "sma_200"} \subseteq FigureNames
    BY DEF FigureNames, OtherFigures
  <2> QED
    BY <1>1, <1>11, <2>1
<1>15. /\ "sma_50" \notin warned => CoherentAverage(close, ShortDays, fig.sma_50, fig.price_vs_sma50_pct)
       /\ "sma_200" \notin warned => CoherentAverage(close, LongDays, fig.sma_200, fig.price_vs_sma200_pct)
  BY <1>1, <1>3, <1>5, <1>14
<1> HIDE DEF warned, Short
<1>16. /\ fig.max_drawdown_1y_pct \in -1000 .. 0
       /\ fallen = {} => fig.max_drawdown_1y_pct = 0
       /\ fig.max_drawdown_1y_pct = 0 =>
             \A p \in fallen : 2000 * (close[p[1]] - close[p[2]]) <= close[p[1]]
  BY <1>3, <1>7
<1>17. fig.rsi_14 \in 0 .. 1000 /\ (~lost => fig.rsi_14 = 1000) /\ (lost /\ ~gained => fig.rsi_14 = 0)
  BY <1>3, <1>6
<1> QED
  BY <1>11, <1>12, <1>13, <1>15, <1>16, <1>17

\* What the provider lacks is reported, and news are reported missing only if there are none.
LEMMA GapsAreReported ==
  ASSUME NEW fields, IsFiniteSet(fields), Null \notin fields, NEW known \in SUBSET fields
  PROVE  ReportedGaps(fields, known)
<1> DEFINE answer == InfoTool(fields, [f \in known |-> f])
           items == [k \in 1 .. Cardinality(known) |-> k]
           size == IF NewsLimit <= Len(items) THEN NewsLimit ELSE Len(items)
           head == SubSeq(items, 1, size)
           n == Cardinality(known)
<1>1. /\ answer.data_warnings = fields \ known
      /\ \A f \in known : answer.figures[f] = f
  <2> DEFINE data == [f \in fields |-> IF f \in known THEN f ELSE Null]
  <2>1. answer = [figures |-> data, data_warnings |-> {f \in fields : data[f] = Null}]
    BY DEF InfoTool, Warned, NullWarnings
  <2>2. \A f \in fields : data[f] = Null <=> f \notin known
    OBVIOUS
  <2>3. \A f \in known : data[f] = f
    OBVIOUS
  <2> HIDE DEF data, answer
  <2> QED
    BY <2>1, <2>2, <2>3
<1>2. n \in Nat
  <2>1. IsFiniteSet(known)
    BY FS_Subset
  <2> QED
    BY <2>1, FS_CardinalityType
<1> HIDE DEF n
<1>3. items \in Seq(Nat) /\ Len(items) = n
  <2>1. items = [k \in 1 .. n |-> k]
    BY DEF n
  <2>2. items \in [1 .. n -> Nat]
    BY <1>2, <2>1
  <2>3. items \in Seq(Nat)
    BY <1>2, <2>2, SeqDef
  <2>4. DOMAIN items = 1 .. n /\ Len(items) \in Nat /\ DOMAIN items = 1 .. Len(items)
    <3> HIDE DEF items
    <3> QED
      BY <2>2, <2>3, LenProperties
  <2> HIDE DEF items
  <2> QED
    BY <1>2, <2>3, <2>4
<1>4. Min({NewsLimit, Len(items)}) = size
  <2> HIDE DEF items
  <2> QED
    BY <1>2, <1>3, MarketConstants DEF Min
<1>5. size \in Nat /\ size <= n /\ size <= NewsLimit
  <2> HIDE DEF items
  <2> QED
    BY <1>2, <1>3, MarketConstants
<1>6. head \in Seq(Nat) /\ Len(head) = size
  <2> HIDE DEF items, size, head
  <2>1. head = SubSeq(items, 1, size)
    BY DEF head
  <2>2. \A k \in 1 .. size : items[k] \in Nat
    BY <1>2, <1>3, <1>5, LenProperties
  <2> QED
    BY <1>2, <1>3, <1>5, <2>1, <2>2, SubSeqProperties
<1>7. News(items) = [headlines |-> head,
                     data_warnings |-> IF head = <<>> THEN {"no recent news found"} ELSE {}]
  <2>1. head = SubSeq(items, 1, Min({NewsLimit, Len(items)}))
    BY <1>4
  <2> HIDE DEF items, head, size
  <2> QED
    BY <2>1 DEF News
<1> HIDE DEF items, head, size, answer
<1>8. News(items).headlines = head /\ (head = <<>> <=> News(items).data_warnings # {})
  <2>1. {"no recent news found"} # {}
    OBVIOUS
  <2> DEFINE w == IF head = <<>> THEN {"no recent news found"} ELSE {}
  <2>2. /\ News(items).headlines = head
        /\ News(items).data_warnings = w
    <3>1. News(items) = [headlines |-> head, data_warnings |-> w]
      BY <1>7
    <3> HIDE DEF w
    <3> QED
      BY <3>1
  <2> QED
    BY <2>1, <2>2
<1> QED
  BY <1>1, <1>5, <1>6, <1>8 DEF ReportedGaps, answer, items
-----------------------------------------------------------------------------
(* The chunks of a filing, by induction over its sections and batches      *)

\* The texts of filings.
Texts == Seq(Items \cup {Word})

\* A text is headings and words.
LEMMA TextTypes ==
  ASSUME NEW text \in Texts
  PROVE  /\ Len(text) \in Nat /\ DOMAIN text = 1 .. Len(text)
         /\ \A i \in 1 .. Len(text) : text[i] \in Items \cup {Word}
  BY LenProperties DEF Texts

\* Sets of positions have a first one ...
LEMMA FirstOf ==
  ASSUME NEW S \in SUBSET Nat, S # {}
  PROVE  Min(S) \in S /\ \A x \in S : Min(S) <= x
<1>1. PICK m \in S : \A n \in S : ~(<<n, m>> \in OpToRel(<, Nat))
  BY NatLessThanWellFounded, WFMin, Zenon
<1>2. \A n \in S : ~(n < m)
  BY <1>1 DEF OpToRel
<1>3. \A n \in S : m <= n
  BY <1>2
<1>4. Min(S) = m
  <2>1. S \subseteq Int
    OBVIOUS
  <2> QED BY <1>3, <2>1, MinIs
<1> QED BY <1>3, <1>4

\* ... and a last one, found by turning the set around.
LEMMA LastOf ==
  ASSUME NEW n \in Nat, NEW S \in SUBSET (0 .. n), S # {}
  PROVE  Max(S) \in S /\ \A x \in S : x <= Max(S)
<1> DEFINE T == {n - x : x \in S}
<1>1. T \in SUBSET Nat /\ T # {}
  OBVIOUS
<1>2. Min(T) \in T /\ \A t \in T : Min(T) <= t
  BY <1>1, FirstOf
<1>3. PICK m \in S : Min(T) = n - m
  BY <1>2
<1>4. \A x \in S : x <= m
  <2> SUFFICES ASSUME NEW x \in S PROVE x <= m
    OBVIOUS
  <2>1. n - x \in T
    OBVIOUS
  <2>2. n - m <= n - x
    BY <1>2, <1>3, <2>1
  <2> QED BY <2>2
<1>5. Max(S) = m
  <2>1. S \subseteq Int
    OBVIOUS
  <2> QED BY <1>4, <2>1, MaxIs
<1> QED BY <1>4, <1>5

\* The boundaries are the last headings.
LEMMA BoundariesAre ==
  ASSUME NEW text \in Texts
  PROVE  Boundaries(text) = {h \in 1 .. Len(text) : IsFinal(text, h)}
<1> DEFINE At(item) == {i \in DOMAIN text : text[i] = item}
           n == Len(text)
<1>1. n \in Nat /\ DOMAIN text = 1 .. n
  BY TextTypes
<1>2. \A item : At(item) \in SUBSET (0 .. n) /\ At(item) \subseteq Int
  BY <1>1
<1>3. Boundaries(text) = {Max(At(item)) : item \in Items \cap Range(text)}
  BY DEF Boundaries
<1>4. ASSUME NEW item \in Items, item \in Range(text)
      PROVE  Max(At(item)) \in 1 .. n /\ IsFinal(text, Max(At(item)))
  <2>1. At(item) # {}
    BY <1>4 DEF Range
  <2> HIDE DEF At
  <2>2. Max(At(item)) \in At(item) /\ \A x \in At(item) : x <= Max(At(item))
    BY <1>1, <1>2, <2>1, LastOf
  <2>3. Max(At(item)) \in 1 .. n /\ text[Max(At(item))] = item
    BY <1>1, <2>2 DEF At
  <2>4. ASSUME NEW l \in Max(At(item)) + 1 .. n PROVE text[l] # item
    <3> SUFFICES ASSUME text[l] = item PROVE FALSE
      OBVIOUS
    <3>1. l \in At(item)
      BY <1>1, <2>3 DEF At
    <3> QED BY <2>2, <2>3, <3>1
  <2> QED BY <2>3, <2>4 DEF IsFinal
<1>5. ASSUME NEW h \in 1 .. n, IsFinal(text, h)
      PROVE  text[h] \in Items \cap Range(text) /\ Max(At(text[h])) = h
  <2>1. text[h] \in Items \cap Range(text)
    BY <1>1, <1>5 DEF IsFinal, Range
  <2>2. \A x \in At(text[h]) : x <= h
    BY <1>1, <1>5 DEF IsFinal
  <2>3. h \in At(text[h])
    BY <1>1
  <2> HIDE DEF At
  <2> QED BY <1>2, <2>1, <2>2, <2>3, MaxIs
<1> HIDE DEF At, n
<1> QED BY <1>3, <1>4, <1>5 DEF n

\* A section runs to before the next boundary.
LEMMA BodyIs ==
  ASSUME NEW text \in Texts, NEW b \in Boundaries(text)
  PROVE  \E e \in b .. Len(text) : /\ Body(text, b) = b .. e
                                   /\ \A c \in Boundaries(text) : ~(b < c /\ c <= e)
<1> DEFINE later == {c \in Boundaries(text) : c > b}
<1>1. Len(text) \in Nat /\ Boundaries(text) \subseteq 1 .. Len(text)
  BY TextTypes, BoundariesAre
<1>2. Body(text, b) = b .. (IF later = {} THEN Len(text) ELSE Min(later) - 1)
  BY DEF Body
<1>3. CASE later = {}
  <2>1. Body(text, b) = b .. Len(text) /\ \A c \in Boundaries(text) : ~(c > b)
    BY <1>2, <1>3
  <2> QED BY <1>1, <2>1
<1>4. CASE later # {}
  <2>1. later \in SUBSET Nat
    BY <1>1
  <2>2. Min(later) \in later /\ \A c \in later : Min(later) <= c
    BY <1>4, <2>1, FirstOf
  <2>3. Min(later) \in 1 .. Len(text) /\ Min(later) > b
    BY <1>1, <2>2
  <2>4. \A c \in Boundaries(text) : c > b => Min(later) <= c
    BY <2>2
  <2>5. Body(text, b) = b .. Min(later) - 1
    BY <1>2, <1>4
  <2> DEFINE m == Min(later)
  <2> HIDE DEF later, m
  <2>6. m - 1 \in b .. Len(text) /\ \A c \in Boundaries(text) : ~(b < c /\ c <= m - 1)
    BY <1>1, <2>3, <2>4 DEF m
  <2> QED BY <2>5, <2>6 DEF m
<1> QED BY <1>3, <1>4

\* The k-th of finitely many positions, for each k up to their number.
LEMMA NthIs ==
  ASSUME NEW n \in Nat, NEW S \in SUBSET (1 .. n)
  PROVE  /\ Cardinality(S) \in Nat
         /\ \A k \in 1 .. Cardinality(S) : Nth(k, S) \in S
         /\ \A j, k \in 1 .. Cardinality(S) : Nth(j, S) = Nth(k, S) => j = k
         /\ S # {} => Cardinality(S) > 0
<1> DEFINE Below(b) == {c \in S : c <= b}
           Rank == [b \in S |-> Cardinality(Below(b))]
           m == Cardinality(S)
<1>1. IsFiniteSet(S)
  <2>1. IsFiniteSet(1 .. n)
    BY FS_Interval
  <2> QED BY <2>1, FS_Subset
<1>2. m \in Nat /\ (S # {} => m > 0)
  BY <1>1, FS_CardinalityType, FS_EmptySet
<1>3. \A b \in S : Below(b) \in SUBSET S /\ b \in Below(b) /\ IsFiniteSet(Below(b))
  BY <1>1, FS_Subset
<1> HIDE DEF Below
<1>4. \A b \in S : Cardinality(Below(b)) \in 1 .. m
  BY <1>1, <1>2, <1>3, FS_Subset, FS_CardinalityType, FS_EmptySet
<1>5. ASSUME NEW b \in S, NEW c \in S, Cardinality(Below(b)) = Cardinality(Below(c)) PROVE b = c
  <2>1. Below(b) \subseteq Below(c) \/ Below(c) \subseteq Below(b)
    <3>1. b \in Int /\ c \in Int /\ \A x \in S : x \in Int
      OBVIOUS
    <3>2. CASE b <= c
      <4>1. \A x \in S : x <= b => x <= c
        BY <3>1, <3>2
      <4> QED BY <4>1 DEF Below
    <3>3. CASE c <= b
      <4>1. \A x \in S : x <= c => x <= b
        BY <3>1, <3>3
      <4> QED BY <4>1 DEF Below
    <3> QED BY <3>1, <3>2, <3>3
  <2>2. Below(b) = Below(c)
    BY <1>3, <1>5, <2>1, FS_Subset
  <2> QED BY <1>3, <2>2 DEF Below
<1>6. Rank \in Injection(S, 1 .. m)
  BY <1>4, <1>5 DEF Injection, IsInjective
<1>7. IsFiniteSet(1 .. m) /\ Cardinality(1 .. m) = m
  BY <1>2, FS_Interval
<1>8. Rank \in Surjection(S, 1 .. m)
  <2> HIDE DEF Rank
  <2> QED BY <1>6, <1>7, FS_Injection
<1>9. ASSUME NEW k \in 1 .. m PROVE Nth(k, S) \in S /\ Cardinality(Below(Nth(k, S))) = k
  <2>1. \E b \in S : Cardinality(Below(b)) = k
    BY <1>8 DEF Surjection
  <2> QED BY <2>1 DEF Nth, Below
<1> QED BY <1>2, <1>9

\* The sections of a text: each is a stretch of it, and a named one starts at the last
\* heading of its item and ends before the next item's.
IsSection(text, s) ==
    \E a \in 1 .. Len(text) + 1, e \in 0 .. Len(text) :
        /\ s.body = a .. e /\ a <= e + 1
        /\ s.item \in Items \cup {"FULL"}
        /\ s.item # "FULL" => /\ a \in Boundaries(text) /\ a <= e /\ s.item = text[a]
                              /\ \A c \in Boundaries(text) : ~(a < c /\ c <= e)

\* There is a section at least, and no two are of one item.
LEMMA SectionsAre ==
  ASSUME NEW text \in Texts
  PROVE  /\ Len(Sections(text)) \in Nat \ {0} /\ DOMAIN Sections(text) = 1 .. Len(Sections(text))
         /\ \A k \in DOMAIN Sections(text) : IsSection(text, Sections(text)[k])
         /\ \A j, k \in DOMAIN Sections(text) :
               Sections(text)[j].item = Sections(text)[k].item => j = k
<1> DEFINE kept == {b \in Boundaries(text) : text[b] \in Titled /\ Cardinality(Body(text, b)) >= MinBody}
           Full == [item |-> "FULL", body |-> DOMAIN text]
           Named(k) == [item |-> text[Nth(k, kept)], body |-> Body(text, Nth(k, kept))]
           m == Cardinality(kept)
           n == Len(text)
<1>1. n \in Nat /\ DOMAIN text = 1 .. n
  BY TextTypes
<1>2. Boundaries(text) = {h \in 1 .. n : IsFinal(text, h)}
  BY BoundariesAre
<1>3. CASE kept = {}
  <2>1. Sections(text) = <<Full>>
    BY <1>3 DEF Sections
  <2>2. IsSection(text, Full)
    <3>1. Full.body = 1 .. n /\ Full.item = "FULL" /\ 1 \in 1 .. n + 1 /\ n \in 0 .. n /\ 1 <= n + 1
      BY <1>1
    <3> QED BY <3>1 DEF IsSection
  <2> HIDE DEF Full
  <2>3. Len(<<Full>>) = 1 /\ DOMAIN <<Full>> = 1 .. 1 /\ <<Full>>[1] = Full /\ \A k \in 1 .. 1 : k = 1
    OBVIOUS
  <2> QED BY <2>1, <2>2, <2>3
<1>4. CASE kept # {}
  <2>1. Sections(text) = [k \in 1 .. m |-> Named(k)]
    BY <1>4 DEF Sections
  <2>2. kept \in SUBSET (1 .. n) /\ \A b \in kept : b \in Boundaries(text)
    BY <1>2
  <2>3. /\ m \in Nat \ {0}
        /\ \A k \in 1 .. m : Nth(k, kept) \in kept
        /\ \A j, k \in 1 .. m : Nth(j, kept) = Nth(k, kept) => j = k
    <3> HIDE DEF kept
    <3>1. Cardinality(kept) \in Nat /\ Cardinality(kept) > 0
      BY <1>1, <1>4, <2>2, NthIs
    <3>2. /\ \A k \in 1 .. Cardinality(kept) : Nth(k, kept) \in kept
          /\ \A j, k \in 1 .. Cardinality(kept) : Nth(j, kept) = Nth(k, kept) => j = k
      BY <1>1, <2>2, NthIs
    <3> QED BY <3>1, <3>2
  <2> HIDE DEF kept
  <2>4. Len(Sections(text)) = m /\ DOMAIN Sections(text) = 1 .. m /\ \A k \in 1 .. m : Sections(text)[k] = Named(k)
    BY <2>1, <2>3
  <2>5. ASSUME NEW k \in 1 .. m PROVE IsSection(text, Named(k))
    <3> DEFINE b == Nth(k, kept)
    <3>1. b \in kept /\ b \in Boundaries(text) /\ b \in 1 .. n
      BY <2>2, <2>3
    <3>2. Named(k).item = text[b] /\ Named(k).body = Body(text, b)
      OBVIOUS
    <3>3. text[b] \in Items /\ text[b] # "FULL"
      BY <1>2, <3>1, ChunkingConstants DEF IsFinal
    <3> HIDE DEF b, Named
    <3>4. PICK e \in b .. n : /\ Body(text, b) = b .. e
                              /\ \A c \in Boundaries(text) : ~(b < c /\ c <= e)
      BY <3>1, BodyIs
    <3>5. b \in 1 .. n + 1 /\ e \in 0 .. n /\ b <= e + 1 /\ b <= e
      BY <1>1, <3>1
    <3> QED BY <3>1, <3>2, <3>3, <3>4, <3>5 DEF IsSection
  <2>6. ASSUME NEW j \in 1 .. m, NEW k \in 1 .. m, Named(j).item = Named(k).item PROVE j = k
    <3> DEFINE a == Nth(j, kept)
               b == Nth(k, kept)
    <3>1. a \in 1 .. n /\ b \in 1 .. n /\ IsFinal(text, a) /\ IsFinal(text, b) /\ text[a] = text[b]
      BY <1>2, <2>2, <2>3, <2>6
    <3> HIDE DEF a, b
    <3>2. a = b
      BY <1>1, <3>1 DEF IsFinal
    <3> QED BY <2>3, <3>2 DEF a, b
  <2> HIDE DEF Named, m
  <2> QED BY <2>3, <2>4, <2>5, <2>6
<1> QED BY <1>3, <1>4

\* The windows of n tokens are numbered from 0 without a gap.
LEMMA WindowsAre ==
  ASSUME NEW n \in Nat
  PROVE  /\ Cardinality(Windows(n)) \in Nat
         /\ Windows(n) = 0 .. Cardinality(Windows(n)) - 1
         /\ n > 0 => Cardinality(Windows(n)) > 0
<1> USE ChunkingConstants
<1>1. Step \in Nat \ {0} /\ MinTail \in Nat
  BY DEF Step
<1>2. \A i, j \in Nat : j <= i => j * Step <= i * Step /\ j * Step \in Nat /\ i * Step \in Nat
  BY <1>1
<1>3. Windows(n) \in SUBSET (0 .. n)
  BY DEF Windows
<1>4. ASSUME NEW i \in Windows(n), NEW j \in 0 .. i PROVE j \in Windows(n)
  <2>1. i \in 0 .. n /\ i \in Nat /\ j \in Nat /\ j <= i /\ j \in 0 .. n
    BY <1>3
  <2>2. j * Step <= i * Step /\ j * Step \in Nat /\ i * Step \in Nat
    BY <1>2, <2>1
  <2> DEFINE x == i * Step
             y == j * Step
  <2>3. x < n /\ (i > 0 => n - x >= MinTail)
    BY DEF Windows
  <2>4. x \in Nat /\ y \in Nat /\ y <= x
    BY <2>2
  <2> HIDE DEF x, y
  <2>5. y < n /\ (j > 0 => n - y >= MinTail)
    BY <1>1, <2>1, <2>3, <2>4
  <2> QED BY <2>1, <2>5 DEF Windows, y
<1>5. n > 0 => 0 \in Windows(n)
  BY <1>1 DEF Windows
<1>6. CASE Windows(n) = {}
  <2>1. Cardinality(Windows(n)) = 0
    BY <1>6, FS_EmptySet
  <2>2. Windows(n) = 0 .. 0 - 1
    BY <1>6
  <2> QED BY <1>5, <1>6, <2>1, <2>2
<1>7. CASE Windows(n) # {}
  <2> DEFINE m == Max(Windows(n))
  <2>1. m \in Windows(n) /\ \A x \in Windows(n) : x <= m
    BY <1>3, <1>7, LastOf
  <2> HIDE DEF m
  <2>2. m \in Nat /\ Windows(n) = 0 .. m
    <3>1. m \in Nat /\ \A x \in Windows(n) : x \in 0 .. m
      BY <1>3, <2>1
    <3>2. \A x \in 0 .. m : x \in Windows(n)
      BY <1>4, <2>1
    <3> QED BY <3>1, <3>2
  <2>3. Cardinality(Windows(n)) = m + 1
    <3>1. Cardinality(0 .. m) = m + 1
      BY <2>2, FS_Interval
    <3> QED BY <2>2, <3>1
  <2> QED BY <2>2, <2>3
<1> QED BY <1>6, <1>7

\* Every token is in a window, though a tiny tail has none: the window before it has it.
LEMMA WindowsCover ==
  ASSUME NEW n \in Nat, NEW q \in 0 .. n - 1
  PROVE  \E i \in Windows(n) : q \in i * Step .. i * Step + Size - 1
<1> USE ChunkingConstants
<1>1. Step \in Nat \ {0} /\ MinTail \in Nat /\ Overlap \in Nat /\ Size = Step + Overlap
  BY DEF Step
<1> DEFINE S == {i \in Windows(n) : i * Step <= q}
           m == Max(S)
<1>2. S \in SUBSET (0 .. n)
  BY DEF Windows
<1>3. 0 \in S
  BY <1>1 DEF Windows
<1>4. m \in S /\ \A i \in S : i <= m
  <2> HIDE DEF S
  <2> QED BY <1>2, <1>3, LastOf
<1>5. m \in Windows(n) /\ m \in 0 .. n /\ m * Step <= q /\ m * Step \in Nat
  <2>1. m \in Nat /\ m \in 0 .. n
    BY <1>2, <1>4
  <2> HIDE DEF m
  <2> QED BY <1>1, <1>4, <2>1
<1>6. m + 1 \notin S
  <2> HIDE DEF m, S
  <2> QED BY <1>4, <1>5
<1>7. (m + 1) * Step = m * Step + Step /\ m + 1 \in Nat
  <2> HIDE DEF m
  <2> QED BY <1>1, <1>5
<1> DEFINE x == m * Step
<1>8. x + Step > q \/ n - (x + Step) < MinTail
  <2> SUFFICES ASSUME x + Step <= q, n - (x + Step) >= MinTail PROVE FALSE
    <3>1. x \in Int
      BY <1>5
    <3> HIDE DEF x
    <3> QED BY <1>1, <3>1
  <2>1. (m + 1) * Step = x + Step /\ x \in Nat
    BY <1>5, <1>7
  <2>2. m + 1 \in 0 .. n
    <3>1. x >= m
      <4> HIDE DEF m
      <4> QED BY <1>1, <1>5
    <3>2. x \in Nat /\ m \in Nat
      BY <1>5
    <3> HIDE DEF x, m
    <3> QED BY <1>1, <3>1, <3>2
  <2>3. x + Step < n
    <3> HIDE DEF x
    <3> QED BY <1>1, <2>1
  <2> HIDE DEF m, x
  <2>4. m + 1 \in Windows(n)
    BY <2>1, <2>2, <2>3 DEF Windows
  <2> QED BY <1>6, <2>1, <2>4 DEF S
<1>9. x \in Nat /\ x <= q
  BY <1>5
<1> HIDE DEF x
<1>10. q \in x .. x + Size - 1
  BY <1>1, <1>8, <1>9
<1> QED BY <1>5, <1>10 DEF x

\* What every chunk is.
AnyChunk == [item : Items \cup {"FULL"}, index : Nat, tokens : SUBSET Nat]

\* The chunks of a section cite it, hold tokens of it and leave out none.
ChunksOf(s, chunks) ==
    /\ chunks \in Seq(AnyChunk)
    /\ \A k \in 1 .. Len(chunks) :
          /\ chunks[k].item = s.item /\ chunks[k].index = k - 1
          /\ chunks[k].tokens \subseteq s.body /\ chunks[k].tokens # {}
    /\ \A p \in s.body : \E k \in 1 .. Len(chunks) : p \in chunks[k].tokens

\* The chunks of every section do.
LEMMA SectionChunksAre ==
  ASSUME NEW text \in Texts, NEW s, IsSection(text, s)
  PROVE  ChunksOf(s, SectionChunks(s))
<1> USE ChunkingConstants
<1>1. PICK a \in 1 .. Len(text) + 1, e \in 0 .. Len(text) :
        s.body = a .. e /\ a <= e + 1 /\ s.item \in Items \cup {"FULL"}
  BY DEF IsSection
<1>2. Len(text) \in Nat /\ a \in Nat /\ e \in Nat
  BY TextTypes
<1> DEFINE n == Cardinality(s.body)
           m == Cardinality(Windows(n))
           first == Min(s.body)
           chunks == SectionChunks(s)
           Held(k) == {p \in s.body : p - first \in (k - 1) * Step .. (k - 1) * Step + Size - 1}
<1>3. n = e - a + 1 /\ n \in Nat
  <2>1. Cardinality(a .. e) = IF a > e THEN 0 ELSE e - a + 1
    BY <1>2, FS_Interval
  <2> QED BY <1>1, <1>2, <2>1
<1>4. n > 0 => first = a
  <2> SUFFICES ASSUME n > 0 PROVE first = a
    OBVIOUS
  <2>1. a \in s.body /\ s.body \subseteq Int /\ \A x \in s.body : a <= x
    BY <1>1, <1>2, <1>3
  <2> QED BY <2>1, MinIs
<1> HIDE DEF n, first
<1>5. m \in Nat /\ Windows(n) = 0 .. m - 1
  BY <1>3, WindowsAre
<1> HIDE DEF m
<1>6. chunks = [k \in 1 .. m |-> [item |-> s.item, index |-> k - 1, tokens |-> Held(k)]]
  BY DEF SectionChunks, m, n, first
<1>7. chunks \in Seq(AnyChunk) /\ Len(chunks) = m
  <2>1. \A k \in 1 .. m : [item |-> s.item, index |-> k - 1, tokens |-> Held(k)] \in AnyChunk
    <3>1. \A k : Held(k) \in SUBSET Nat
      BY <1>1, <1>2
    <3> HIDE DEF Held
    <3> QED BY <1>1, <1>5, <3>1 DEF AnyChunk
  <2> HIDE DEF Held, chunks
  <2> QED BY <1>5, <1>6, <2>1
<1>8. \A k \in 1 .. m : chunks[k].item = s.item /\ chunks[k].index = k - 1 /\ chunks[k].tokens = Held(k)
  BY <1>6
<1>9. Step \in Nat \ {0} /\ Size \in Nat \ {0}
  BY DEF Step
<1>10. ASSUME NEW k \in 1 .. m PROVE Held(k) # {}
  <2>1. k - 1 \in Windows(n)
    BY <1>5
  <2> DEFINE x == (k - 1) * Step
  <2>2. x < n /\ x \in Nat
    BY <1>5, <1>9, <2>1 DEF Windows
  <2> HIDE DEF x
  <2>3. a + x \in s.body /\ (a + x) - first \in x .. x + Size - 1
    BY <1>1, <1>2, <1>3, <1>4, <1>9, <2>2
  <2> QED BY <2>3 DEF x
<1>11. ASSUME NEW p \in s.body PROVE \E k \in 1 .. m : p \in Held(k)
  <2>1. n > 0 /\ p - a \in 0 .. n - 1
    BY <1>1, <1>2, <1>3
  <2>2. PICK i \in Windows(n) : p - a \in i * Step .. i * Step + Size - 1
    BY <1>3, <2>1, WindowsCover
  <2>3. i + 1 \in 1 .. m /\ (i + 1) - 1 = i
    BY <1>5
  <2>4. p \in Held(i + 1)
    BY <1>4, <2>1, <2>2, <2>3
  <2> QED BY <2>3, <2>4
<1> HIDE DEF Held, chunks
<1> QED BY <1>7, <1>8, <1>10, <1>11 DEF ChunksOf, chunks, Held

\* f holds what the first sequences of ss are together.
Flats(f, ss, n) == /\ f[1] = ss[1]
                   /\ \A k \in 2 .. n : f[k] = f[k - 1] \o ss[k]

\* There is such a function for every n, though not by the definition of FlattenSeq ...
LEMMA FlatsExist ==
  ASSUME NEW ss
  PROVE  \A n \in Nat : n > 0 => \E f : f = [k \in 1 .. n |-> f[k]] /\ Flats(f, ss, n)
<1> DEFINE N == {n \in Nat : n > 0 => \E f : f = [k \in 1 .. n |-> f[k]] /\ Flats(f, ss, n)}
<1>1. 0 \in N
  OBVIOUS
<1>2. ASSUME NEW n \in Nat, n \in N PROVE n + 1 \in N
  <2>1. CASE n = 0
    <3> DEFINE f == [k \in 1 .. 1 |-> ss[1]]
    <3>1. f = [k \in 1 .. 1 |-> f[k]] /\ Flats(f, ss, 1)
      BY DEF Flats
    <3> QED BY <2>1, <3>1
  <2>2. CASE n > 0
    <3>1. PICK f : f = [k \in 1 .. n |-> f[k]] /\ Flats(f, ss, n)
      BY <1>2, <2>2
    <3> DEFINE more == f[n] \o ss[n + 1]
               h == [k \in 1 .. n + 1 |-> IF k = n + 1 THEN more ELSE f[k]]
    <3>2. /\ h[n + 1] = f[n] \o ss[n + 1]
          /\ \A k \in 1 .. n : h[k] = f[k]
          /\ h = [k \in 1 .. n + 1 |-> h[k]]
      <4> HIDE DEF more
      <4>1. h[n + 1] = more
        OBVIOUS
      <4>2. \A k \in 1 .. n : h[k] = f[k]
        OBVIOUS
      <4>3. h = [k \in 1 .. n + 1 |-> h[k]]
        OBVIOUS
      <4> QED BY <4>1, <4>2, <4>3 DEF more
    <3> HIDE DEF h
    <3>3. ASSUME NEW k \in 2 .. n + 1 PROVE h[k] = h[k - 1] \o ss[k]
      <4>1. CASE k = n + 1
        <5>1. k - 1 = n /\ n \in 1 .. n
          BY <2>2, <4>1
        <5> QED BY <3>2, <4>1, <5>1
      <4>2. CASE k # n + 1
        <5>1. k \in 2 .. n /\ k \in 1 .. n /\ k - 1 \in 1 .. n
          BY <4>2
        <5> QED BY <5>1, <3>1, <3>2 DEF Flats
      <4> QED BY <4>1, <4>2
    <3>4. Flats(h, ss, n + 1)
      <4>0. f[1] = ss[1] /\ 1 \in 1 .. n
        BY <2>2, <3>1 DEF Flats
      <4>1. h[1] = ss[1]
        BY <3>2, <4>0
      <4> QED BY <3>3, <4>1 DEF Flats
    <3> QED BY <3>2, <3>4
  <2> QED BY <2>1, <2>2
<1>3. \A n \in Nat : n \in N
  <2> HIDE DEF N
  <2> QED BY <1>1, <1>2, Induction
<1> QED BY <1>3

\* ... and its last value is what FlattenSeq chooses.
LEMMA FlattenIs ==
  ASSUME NEW ss, Len(ss) \in Nat, Len(ss) > 0
  PROVE  \E f : Flats(f, ss, Len(ss)) /\ FlattenSeq(ss) = f[Len(ss)]
<1> DEFINE n == Len(ss)
           Rec(f, i) == IF i = 1 THEN ss[i] ELSE f[i - 1] \o ss[i]
<1>1. \E f : f = [i \in 1 .. n |-> Rec(f, i)]
  <2>1. PICK f : f = [k \in 1 .. n |-> f[k]] /\ Flats(f, ss, n)
    BY FlatsExist
  <2>2. \A k \in 1 .. n : f[k] = Rec(f, k)
    <3>1. \A k \in 1 .. n : k = 1 \/ k \in 2 .. n
      OBVIOUS
    <3> QED BY <2>1, <3>1 DEF Flats
  <2>3. [k \in 1 .. n |-> f[k]] = [k \in 1 .. n |-> Rec(f, k)]
    BY <2>2
  <2> QED BY <2>1, <2>3
<1> DEFINE u == CHOOSE f : f = [i \in 1 .. n |-> Rec(f, i)]
<1>2. u = [i \in 1 .. n |-> Rec(u, i)]
  BY <1>1
<1>3. FlattenSeq(ss) = u[n]
  BY DEF FlattenSeq
<1> HIDE DEF u
<1>4. Flats(u, ss, n)
  <2>1. \A k \in 1 .. n : u[k] = Rec(u, k)
    BY <1>2
  <2>2. 1 \in 1 .. n /\ \A k \in 2 .. n : k \in 1 .. n /\ k # 1
    OBVIOUS
  <2>3. u[1] = ss[1]
    BY <2>1, <2>2
  <2>4. \A k \in 2 .. n : u[k] = u[k - 1] \o ss[k]
    BY <2>1, <2>2
  <2> QED BY <2>3, <2>4 DEF Flats
<1> QED BY <1>3, <1>4

\* The elements of the first n sequences of ss, each once.
Joined(s, ss, n) ==
    /\ s \in Seq(AnyChunk)
    /\ \A i \in 1 .. Len(s) : \E k \in 1 .. n : \E l \in 1 .. Len(ss[k]) : s[i] = ss[k][l]
    /\ \A k \in 1 .. n : \A l \in 1 .. Len(ss[k]) : \E i \in 1 .. Len(s) : s[i] = ss[k][l]
    /\ \A i, j \in 1 .. Len(s) : s[i] = s[j] => i = j

\* No two of the first n sequences of ss share an element, and none has one twice.
Apart(ss, n) ==
    /\ \A k \in 1 .. n : ss[k] \in Seq(AnyChunk)
    /\ \A j, k \in 1 .. n : \A i \in 1 .. Len(ss[j]) : \A l \in 1 .. Len(ss[k]) :
          ss[j][i] = ss[k][l] => j = k /\ i = l

\* One more sequence is joined at the end.
LEMMA JoinOneMore ==
  ASSUME NEW ss, NEW n \in Nat, Apart(ss, n + 1), NEW s, Joined(s, ss, n)
  PROVE  Joined(s \o ss[n + 1], ss, n + 1)
<1> DEFINE t == ss[n + 1]
           u == s \o t
<1>1. s \in Seq(AnyChunk) /\ t \in Seq(AnyChunk) /\ Len(s) \in Nat /\ Len(t) \in Nat
  <2>1. s \in Seq(AnyChunk) /\ t \in Seq(AnyChunk)
    BY DEF Joined, Apart
  <2> HIDE DEF t
  <2> QED BY <2>1, LenProperties
<1> HIDE DEF t
<1>2. /\ u \in Seq(AnyChunk) /\ Len(u) = Len(s) + Len(t)
      /\ \A i \in 1 .. Len(s) : u[i] = s[i]
      /\ \A l \in 1 .. Len(t) : u[Len(s) + l] = t[l]
  BY <1>1, ConcatProperties
<1>3. \A i \in 1 .. Len(u) : i \in 1 .. Len(s) \/ \E l \in 1 .. Len(t) : i = Len(s) + l
  <2> SUFFICES ASSUME NEW i \in 1 .. Len(u), ~(i \in 1 .. Len(s))
               PROVE  \E l \in 1 .. Len(t) : i = Len(s) + l
    OBVIOUS
  <2>1. i - Len(s) \in 1 .. Len(t) /\ i = Len(s) + (i - Len(s))
    BY <1>1, <1>2
  <2> QED BY <2>1
<1> HIDE DEF u
<1>4. \A i \in 1 .. Len(s) : i \in 1 .. Len(u)
  BY <1>1, <1>2
<1>5. \A l \in 1 .. Len(t) : Len(s) + l \in 1 .. Len(u)
  BY <1>1, <1>2
<1>6. ASSUME NEW i \in 1 .. Len(s), NEW l \in 1 .. Len(t) PROVE s[i] # t[l]
  <2>1. PICK k \in 1 .. n : \E j \in 1 .. Len(ss[k]) : s[i] = ss[k][j]
    BY DEF Joined
  <2>2. PICK j \in 1 .. Len(ss[k]) : s[i] = ss[k][j]
    BY <2>1
  <2>3. k \in 1 .. n + 1 /\ n + 1 \in 1 .. n + 1 /\ k # n + 1
    OBVIOUS
  <2> QED BY <2>2, <2>3 DEF Apart, t
<1>7. ASSUME NEW i \in 1 .. Len(u) PROVE \E k \in 1 .. n + 1 : \E l \in 1 .. Len(ss[k]) : u[i] = ss[k][l]
  <2>1. CASE i \in 1 .. Len(s)
    <3>1. PICK k \in 1 .. n : \E l \in 1 .. Len(ss[k]) : s[i] = ss[k][l]
      BY <2>1 DEF Joined
    <3>2. k \in 1 .. n + 1 /\ u[i] = s[i]
      BY <1>2, <2>1
    <3> QED BY <3>1, <3>2
  <2>2. CASE \E l \in 1 .. Len(t) : i = Len(s) + l
    <3>1. PICK l \in 1 .. Len(t) : i = Len(s) + l
      BY <2>2
    <3>2. u[i] = t[l] /\ n + 1 \in 1 .. n + 1
      BY <1>2, <3>1
    <3> QED BY <3>2 DEF t
  <2> QED BY <1>3, <2>1, <2>2
<1>8. ASSUME NEW k \in 1 .. n + 1, NEW l \in 1 .. Len(ss[k]) PROVE \E i \in 1 .. Len(u) : u[i] = ss[k][l]
  <2>1. CASE k \in 1 .. n
    <3>1. PICK i \in 1 .. Len(s) : s[i] = ss[k][l]
      BY <2>1 DEF Joined
    <3> QED BY <1>2, <1>4, <3>1
  <2>2. CASE k = n + 1
    <3>1. l \in 1 .. Len(t) /\ ss[k][l] = t[l]
      BY <2>2 DEF t
    <3> QED BY <1>2, <1>5, <3>1
  <2>3. k \in 1 .. n \/ k = n + 1
    OBVIOUS
  <2> QED BY <2>1, <2>2, <2>3
<1>9. ASSUME NEW i \in 1 .. Len(u), NEW j \in 1 .. Len(u), u[i] = u[j] PROVE i = j
  <2>1. CASE i \in 1 .. Len(s) /\ j \in 1 .. Len(s)
    BY <1>2, <1>9, <2>1 DEF Joined
  <2>2. ASSUME NEW x \in 1 .. Len(t), NEW y \in 1 .. Len(t), i = Len(s) + x, j = Len(s) + y PROVE i = j
    <3>1. t[x] = t[y]
      BY <1>2, <1>9, <2>2
    <3>2. n + 1 \in 1 .. n + 1
      OBVIOUS
    <3>3. x = y
      BY <3>1, <3>2 DEF Apart, t
    <3> QED BY <2>2, <3>3
  <2>3. ASSUME NEW a \in 1 .. Len(u), NEW b \in 1 .. Len(u), a \in 1 .. Len(s),
               NEW y \in 1 .. Len(t), b = Len(s) + y
        PROVE  u[a] # u[b]
    BY <1>2, <1>6, <2>3
  <2> QED BY <1>3, <1>9, <2>1, <2>2, <2>3
<1>10. Joined(u, ss, n + 1)
  <2>1. \A i \in 1 .. Len(u) : \E k \in 1 .. n + 1 : \E l \in 1 .. Len(ss[k]) : u[i] = ss[k][l]
    BY <1>7
  <2>2. \A k \in 1 .. n + 1 : \A l \in 1 .. Len(ss[k]) : \E i \in 1 .. Len(u) : u[i] = ss[k][l]
    BY <1>8
  <2>3. \A i, j \in 1 .. Len(u) : u[i] = u[j] => i = j
    BY <1>9
  <2> QED BY <1>2, <2>1, <2>2, <2>3 DEF Joined
<1> QED BY <1>10 DEF u, t

\* Sequences that are apart are joined by flattening them.
LEMMA FlattenJoins ==
  ASSUME NEW ss, Len(ss) \in Nat \ {0}, Apart(ss, Len(ss))
  PROVE  Joined(FlattenSeq(ss), ss, Len(ss))
<1> DEFINE n == Len(ss)
<1>1. PICK f : Flats(f, ss, n) /\ FlattenSeq(ss) = f[n]
  BY FlattenIs
<1> DEFINE N == {k \in Nat : k + 1 <= n => Joined(f[k + 1], ss, k + 1)}
<1> HIDE DEF n
<1>2. n \in Nat \ {0} /\ Apart(ss, n)
  BY DEF n
<1>3. \A k \in 1 .. n : Apart(ss, k)
  <2> SUFFICES ASSUME NEW k \in 1 .. n PROVE Apart(ss, k)
    OBVIOUS
  <2>1. \A j \in 1 .. k : j \in 1 .. n
    BY <1>2
  <2> QED BY <1>2, <2>1 DEF Apart
<1>4. 0 \in N
  <2>1. f[1] = ss[1] /\ 1 \in 1 .. n /\ 1 \in 1 .. 1 /\ \A k \in 1 .. 1 : k = 1
    BY <1>1, <1>2 DEF Flats
  <2> DEFINE s == ss[1]
  <2>2. s \in Seq(AnyChunk) /\ \A i, j \in 1 .. Len(s) : s[i] = s[j] => i = j
    BY <1>2, <2>1 DEF Apart
  <2>3. \A i \in 1 .. Len(s) : \E k \in 1 .. 1 : \E l \in 1 .. Len(ss[k]) : s[i] = ss[k][l]
    BY <2>1
  <2>4. \A k \in 1 .. 1 : \A l \in 1 .. Len(ss[k]) : \E i \in 1 .. Len(s) : s[i] = ss[k][l]
    BY <2>1
  <2> HIDE DEF s
  <2>5. Joined(s, ss, 1)
    BY <2>2, <2>3, <2>4 DEF Joined
  <2> QED BY <2>1, <2>5 DEF s
<1>5. ASSUME NEW k \in Nat, k \in N PROVE k + 1 \in N
  <2> SUFFICES ASSUME (k + 1) + 1 <= n PROVE Joined(f[(k + 1) + 1], ss, (k + 1) + 1)
    OBVIOUS
  <2>1. Joined(f[k + 1], ss, k + 1)
    BY <1>2, <1>5
  <2>2. f[(k + 1) + 1] = f[k + 1] \o ss[(k + 1) + 1]
    <3>1. (k + 1) + 1 \in 2 .. n /\ ((k + 1) + 1) - 1 = k + 1
      BY <1>2
    <3> QED BY <1>1, <3>1 DEF Flats
  <2>3. Apart(ss, (k + 1) + 1) /\ k + 1 \in Nat
    BY <1>2, <1>3
  <2> QED BY <2>1, <2>2, <2>3, JoinOneMore
<1>6. \A k \in Nat : k \in N
  <2> HIDE DEF N
  <2> QED BY <1>4, <1>5, Induction
<1>7. n - 1 \in N /\ (n - 1) + 1 = n
  BY <1>2, <1>6
<1> QED BY <1>1, <1>2, <1>7 DEF n

\* The lesser of two numbers.
LEMMA MinOfTwo == ASSUME NEW a \in Int, NEW b \in Int PROVE Min({a, b}) = IF a <= b THEN a ELSE b
<1>1. CASE a <= b
  <2>1. a \in {a, b} /\ {a, b} \subseteq Int /\ \A x \in {a, b} : a <= x
    BY <1>1
  <2> QED BY <1>1, <2>1, MinIs
<1>2. CASE ~(a <= b)
  <2>1. b \in {a, b} /\ {a, b} \subseteq Int /\ \A x \in {a, b} : b <= x
    BY <1>2
  <2> QED BY <1>2, <2>1, MinIs
<1> QED BY <1>1, <1>2

\* Batch after batch, the vectors are those of all chunks in their order.
LEMMA VectorsAre ==
  ASSUME NEW chunks \in Seq(AnyChunk), Len(chunks) > 0
  PROVE  Vectors(chunks) = chunks
<1> DEFINE len == Len(chunks)
           B == BatchSize
           q == (len + B - 1) \div B
           r == (len + B - 1) % B
           Cut(b) == Min({b * B, len})
           Batch(b) == SubSeq(chunks, (b - 1) * B + 1, Cut(b))
           ss == [b \in 1 .. q |-> Batch(b)]
<1>1. len \in Nat /\ len > 0 /\ B \in Nat /\ B > 0
  BY LenProperties, ChunkingConstants
<1>2. q \in Nat /\ r \in 0 .. B - 1 /\ len + B - 1 = B * q + r
  <2> HIDE DEF len, B
  <2> QED BY <1>1
<1>3. Vectors(chunks) = FlattenSeq(ss)
  BY DEF Vectors
<1> HIDE DEF q, r, len, B
<1>4. \A b \in Nat : b * B \in Nat /\ (b + 1) * B = b * B + B
  BY <1>1
<1>5. len <= q * B /\ q > 0
  <2>1. B * q = q * B /\ q * B \in Nat
    BY <1>1, <1>2
  <2> DEFINE x == q * B
  <2>2. len + B - 1 = x + r /\ x \in Nat
    BY <1>2, <2>1
  <2>3. q = 0 => x = 0
    BY <1>1
  <2> HIDE DEF x
  <2>4. len <= x /\ x > 0
    BY <1>1, <1>2, <2>2
  <2> QED BY <1>2, <2>3, <2>4 DEF x
<1>6. \A b \in 1 .. q - 1 : b * B < len
  <2> SUFFICES ASSUME NEW b \in 1 .. q - 1 PROVE b * B < len
    OBVIOUS
  <2>1. b * B <= (q - 1) * B /\ q - 1 \in Nat /\ b \in Nat
    BY <1>1, <1>2
  <2>2. (q - 1) * B = q * B - B /\ B * q = q * B /\ q * B \in Nat
    BY <1>1, <1>2
  <2> DEFINE x == q * B
             y == b * B
             z == (q - 1) * B
  <2>3. y <= z /\ z = x - B /\ x + r = len + B - 1 /\ y \in Nat /\ x \in Nat
    BY <1>2, <1>4, <2>1, <2>2
  <2> HIDE DEF x, y, z
  <2>4. y < len
    BY <1>1, <1>2, <2>3
  <2> QED BY <2>4 DEF y
<1>7. \A b \in Nat : Cut(b) = IF b * B <= len THEN b * B ELSE len
  BY <1>1, <1>4, MinOfTwo
<1> HIDE DEF Cut
<1>8. \A b \in 1 .. q : /\ Cut(b - 1) = (b - 1) * B /\ Cut(b - 1) < len
                        /\ Cut(b) \in Cut(b - 1) .. len /\ Cut(b - 1) \in 0 .. len
  <2> SUFFICES ASSUME NEW b \in 1 .. q
               PROVE  /\ Cut(b - 1) = (b - 1) * B /\ Cut(b - 1) < len
                      /\ Cut(b) \in Cut(b - 1) .. len /\ Cut(b - 1) \in 0 .. len
    OBVIOUS
  <2>1. b \in Nat /\ b - 1 \in Nat /\ b * B = (b - 1) * B + B /\ (b - 1) * B \in Nat
    <3>1. b \in Nat /\ b - 1 \in Nat /\ (b - 1) + 1 = b
      BY <1>2
    <3> QED BY <1>4, <3>1
  <2>2. (b - 1) * B < len
    <3>1. CASE b = 1
      <4>1. (b - 1) * B = 0
        BY <1>1, <3>1
      <4> QED BY <1>1, <4>1
    <3>2. CASE b # 1
      <4>1. b - 1 \in 1 .. q - 1
        BY <1>2, <3>2
      <4> QED BY <1>6, <4>1
    <3> QED BY <3>1, <3>2
  <2> DEFINE x == (b - 1) * B
             y == b * B
  <2>3. /\ Cut(b - 1) = IF x <= len THEN x ELSE len
        /\ Cut(b) = IF y <= len THEN y ELSE len
        /\ x < len /\ x \in Nat /\ y = x + B
    BY <1>7, <2>1, <2>2
  <2> HIDE DEF x, y
  <2>4. /\ Cut(b - 1) = x /\ Cut(b - 1) < len
        /\ Cut(b) \in Cut(b - 1) .. len /\ Cut(b - 1) \in 0 .. len
    BY <1>1, <2>3
  <2> QED BY <2>4 DEF x
<1>9. \A b \in 1 .. q : ss[b] = SubSeq(chunks, Cut(b - 1) + 1, Cut(b))
  BY <1>8
<1>10. Len(ss) = q
  <2> HIDE DEF Batch
  <2> QED BY <1>2
<1> HIDE DEF ss
<1>11. PICK f : Flats(f, ss, q) /\ FlattenSeq(ss) = f[q]
  <2>1. Len(ss) \in Nat /\ Len(ss) > 0
    BY <1>2, <1>5, <1>10
  <2> QED BY <1>10, <2>1, FlattenIs
<1> DEFINE N == {k \in Nat : k + 1 <= q => f[k + 1] = SubSeq(chunks, 1, Cut(k + 1))}
<1>12. 0 \in N
  <2>1. 1 \in 1 .. q /\ 1 - 1 = 0 /\ Cut(0) = 0
    <3>1. 1 \in 1 .. q /\ 1 - 1 = 0
      BY <1>2, <1>5
    <3>2. Cut(1 - 1) = (1 - 1) * B
      BY <1>8, <3>1
    <3> QED BY <1>1, <3>1, <3>2
  <2>2. f[1] = ss[1]
    BY <1>11 DEF Flats
  <2>3. ss[1] = SubSeq(chunks, 0 + 1, Cut(1))
    BY <1>9, <2>1
  <2> QED BY <2>2, <2>3
<1>13. ASSUME NEW k \in Nat, k \in N PROVE k + 1 \in N
  <2> SUFFICES ASSUME (k + 1) + 1 <= q PROVE f[(k + 1) + 1] = SubSeq(chunks, 1, Cut((k + 1) + 1))
    OBVIOUS
  <2> DEFINE b == (k + 1) + 1
  <2>1. b \in 2 .. q /\ b \in 1 .. q /\ b - 1 = k + 1 /\ b - 1 \in 1 .. q
    BY <1>2
  <2>2. f[k + 1] = SubSeq(chunks, 1, Cut(b - 1))
    BY <1>2, <1>13, <2>1
  <2> HIDE DEF b
  <2>3. f[b] = f[b - 1] \o ss[b]
    BY <1>11, <2>1 DEF Flats
  <2>4. Cut(b - 1) \in 0 .. len /\ Cut(b) \in Cut(b - 1) .. len
    BY <1>8, <2>1
  <2>5. SubSeq(chunks, 1, Cut(b - 1)) \o SubSeq(chunks, Cut(b - 1) + 1, Cut(b)) = SubSeq(chunks, 1, Cut(b))
    <3> DEFINE c == Cut(b - 1)
               d == Cut(b)
    <3>1. c \in 1 - 1 .. Len(chunks) /\ d \in c .. Len(chunks) /\ 1 \in 1 .. Len(chunks) + 1
      BY <1>1, <2>4 DEF len
    <3> HIDE DEF c, d
    <3>2. SubSeq(chunks, 1, c) \o SubSeq(chunks, c + 1, d) = SubSeq(chunks, 1, d)
      BY <3>1, ConcatAdjacentSubSeq
    <3> QED BY <3>2 DEF c, d
  <2>6. f[b] = SubSeq(chunks, 1, Cut(b))
    BY <1>9, <2>1, <2>2, <2>3, <2>5
  <2> QED BY <2>6 DEF b
<1>14. \A k \in Nat : k \in N
  <2> HIDE DEF N
  <2> QED BY <1>12, <1>13, Induction
<1>15. f[q] = SubSeq(chunks, 1, Cut(q))
  <2>1. q - 1 \in Nat /\ (q - 1) + 1 = q
    BY <1>2, <1>5
  <2>2. q - 1 \in N
    <3> HIDE DEF N
    <3> QED BY <1>14, <2>1
  <2>3. (q - 1) + 1 <= q
    BY <1>2, <2>1
  <2>4. f[(q - 1) + 1] = SubSeq(chunks, 1, Cut((q - 1) + 1))
    BY <2>2, <2>3
  <2> QED BY <2>1, <2>4
<1>16. Cut(q) = len
  <2> DEFINE x == q * B
  <2>1. Cut(q) = IF x <= len THEN x ELSE len
    BY <1>2, <1>7
  <2>2. x \in Nat /\ len <= x
    BY <1>2, <1>4, <1>5
  <2> HIDE DEF x
  <2> QED BY <1>1, <2>1, <2>2
<1>17. SubSeq(chunks, 1, len) = chunks
  BY SubSeqFull DEF len
<1> QED BY <1>3, <1>11, <1>15, <1>16, <1>17

\* The chunks of the sections, in the sections' order.
Parts(text) == [k \in DOMAIN Sections(text) |-> SectionChunks(Sections(text)[k])]

\* They hold the sections, and are apart: a chunk's item and index say which it is.
LEMMA PartsAre ==
  ASSUME NEW text \in Texts
  PROVE  /\ Len(Parts(text)) = Len(Sections(text))
         /\ \A k \in 1 .. Len(Sections(text)) : ChunksOf(Sections(text)[k], Parts(text)[k])
         /\ Apart(Parts(text), Len(Sections(text)))
<1> DEFINE sections == Sections(text)
           n == Len(sections)
           ss == Parts(text)
<1>1. /\ n \in Nat \ {0} /\ DOMAIN sections = 1 .. n
      /\ \A k \in 1 .. n : IsSection(text, sections[k])
      /\ \A j, k \in 1 .. n : sections[j].item = sections[k].item => j = k
  BY SectionsAre
<1> HIDE DEF sections
<1>2. ss = [k \in 1 .. n |-> SectionChunks(sections[k])]
  BY <1>1 DEF Parts, sections
<1> HIDE DEF n, ss
<1>3. Len(ss) = n /\ \A k \in 1 .. n : ss[k] = SectionChunks(sections[k])
  BY <1>1, <1>2
<1>4. \A k \in 1 .. n : ChunksOf(sections[k], ss[k])
  BY <1>1, <1>3, SectionChunksAre
<1>5. \A k \in 1 .. n : ss[k] \in Seq(AnyChunk) /\ Len(ss[k]) \in Nat
  BY <1>4, LenProperties DEF ChunksOf
<1>6. ASSUME NEW j \in 1 .. n, NEW k \in 1 .. n, NEW i \in 1 .. Len(ss[j]), NEW l \in 1 .. Len(ss[k]),
             ss[j][i] = ss[k][l]
      PROVE  j = k /\ i = l
  <2>1. ss[j][i].item = sections[j].item /\ ss[j][i].index = i - 1
    BY <1>4 DEF ChunksOf
  <2>2. ss[k][l].item = sections[k].item /\ ss[k][l].index = l - 1
    BY <1>4 DEF ChunksOf
  <2>3. sections[j].item = sections[k].item /\ i - 1 = l - 1
    BY <1>6, <2>1, <2>2
  <2>4. i \in Int /\ l \in Int
    OBVIOUS
  <2>5. i = l
    BY <2>3, <2>4
  <2> QED BY <1>1, <2>3, <2>5
<1>7. Apart(ss, n)
  BY <1>5, <1>6 DEF Apart
<1> QED BY <1>3, <1>4, <1>7 DEF n, ss, sections

\* Flattened, they are still each there, once.
LEMMA AllChunksAre ==
  ASSUME NEW text \in Texts
  PROVE  Joined(AllChunks(text), Parts(text), Len(Sections(text)))
<1>1. AllChunks(text) = FlattenSeq(Parts(text))
  BY DEF AllChunks, Parts
<1>2. Len(Sections(text)) \in Nat \ {0}
  BY SectionsAre
<1>3. Len(Parts(text)) = Len(Sections(text)) /\ Apart(Parts(text), Len(Parts(text)))
  BY PartsAre
<1>4. Joined(FlattenSeq(Parts(text)), Parts(text), Len(Parts(text)))
  BY <1>2, <1>3, FlattenJoins
<1> QED BY <1>1, <1>3, <1>4

\* The chunks that are kept are the first ones of all.
LEMMA ChunksAre ==
  ASSUME NEW text \in Texts
  PROVE  /\ Chunks(text) \in Seq(AnyChunk) /\ Len(Chunks(text)) \in Nat
         /\ Len(AllChunks(text)) \in Nat
         /\ Len(Chunks(text)) <= Len(AllChunks(text))
         /\ Len(AllChunks(text)) <= MaxChunks => Len(Chunks(text)) = Len(AllChunks(text))
         /\ \A i \in 1 .. Len(Chunks(text)) : Chunks(text)[i] = AllChunks(text)[i]
<1> DEFINE all == AllChunks(text)
           len == Len(all)
           cut == Min({MaxChunks, len})
<1>1. all \in Seq(AnyChunk)
  BY AllChunksAre DEF Joined
<1>2. Chunks(text) = SubSeq(all, 1, cut)
  BY DEF Chunks
<1> HIDE DEF all
<1>3. len \in Nat /\ MaxChunks \in Nat
  BY <1>1, LenProperties, ChunkingConstants
<1>4. cut = IF MaxChunks <= len THEN MaxChunks ELSE len
  BY <1>3, MinOfTwo
<1> HIDE DEF cut
<1>5. cut \in 1 - 1 .. Len(all) /\ 1 \in 1 .. Len(all) + 1
  BY <1>3, <1>4
<1>6. /\ SubSeq(all, 1, cut) \in Seq(AnyChunk)
      /\ Len(SubSeq(all, 1, cut)) = cut
      /\ \A i \in 1 .. cut : SubSeq(all, 1, cut)[i] = all[i]
  <2> DEFINE s == SubSeq(all, 1, cut)
  <2>1. s \in Seq(AnyChunk) /\ Len(s) = (IF 1 <= cut THEN cut - 1 + 1 ELSE 0)
           /\ \A i \in 1 .. cut - 1 + 1 : s[i] = all[1 + i - 1]
    BY <1>1, <1>5, SubSeqProperties
  <2> HIDE DEF s
  <2>2. Len(s) = cut /\ \A i \in 1 .. cut : i \in 1 .. cut - 1 + 1 /\ 1 + i - 1 = i
    BY <1>3, <1>5, <2>1
  <2> QED BY <2>1, <2>2 DEF s
<1> QED BY <1>2, <1>3, <1>4, <1>6 DEF all

\* A token of a named section is under the heading that the section cites.
LEMMA CitedAs ==
  ASSUME NEW text \in Texts, NEW s, IsSection(text, s), s.item # "FULL", NEW p \in s.body
  PROVE  text[Max({h \in 1 .. p : IsFinal(text, h)})] = s.item
<1>1. PICK a \in 1 .. Len(text) + 1, e \in 0 .. Len(text) :
        /\ s.body = a .. e
        /\ a \in Boundaries(text) /\ s.item = text[a]
        /\ \A c \in Boundaries(text) : ~(a < c /\ c <= e)
  BY DEF IsSection
<1>2. Len(text) \in Nat /\ a \in Nat /\ e \in Nat /\ p \in a .. e /\ p \in Nat /\ a >= 1
  BY <1>1, TextTypes
<1>3. Boundaries(text) = {h \in 1 .. Len(text) : IsFinal(text, h)}
  BY BoundariesAre
<1> DEFINE S == {h \in 1 .. p : IsFinal(text, h)}
<1>4. a \in S
  BY <1>1, <1>2, <1>3
<1>5. S \subseteq Int
  BY <1>2
<1>6. ASSUME NEW h \in S PROVE h <= a
  <2> SUFFICES ASSUME h > a PROVE FALSE
    BY <1>2
  <2>1. h \in 1 .. Len(text) /\ IsFinal(text, h) /\ h <= e
    BY <1>2
  <2> QED BY <1>1, <1>2, <1>3, <2>1
<1> HIDE DEF S
<1>7. Max(S) = a
  BY <1>4, <1>5, <1>6, MaxIs
<1> QED BY <1>1, <1>7 DEF S

\* Every filing is covered.
LEMMA FilingIsCovered ==
  ASSUME NEW text \in Texts
  PROVE  CoveredFiling(text)
<1> DEFINE sections == Sections(text)
           n == Len(sections)
           ss == Parts(text)
           all == AllChunks(text)
           chunks == Chunks(text)
           rows == Rows(text)
<1>1. /\ n \in Nat \ {0} /\ DOMAIN sections = 1 .. n
      /\ \A k \in 1 .. n : IsSection(text, sections[k])
  BY SectionsAre
<1>2. \A k \in 1 .. n : ChunksOf(sections[k], ss[k])
  BY PartsAre
<1>3. Apart(ss, n)
  BY PartsAre
<1>4. Joined(all, ss, n)
  BY AllChunksAre
<1>5. /\ chunks \in Seq(AnyChunk) /\ Len(chunks) \in Nat /\ Len(all) \in Nat
      /\ Len(chunks) <= Len(all)
      /\ Len(all) <= MaxChunks => Len(chunks) = Len(all)
      /\ \A i \in 1 .. Len(chunks) : chunks[i] = all[i]
  BY ChunksAre
<1>6. rows = [k \in DOMAIN chunks |-> [chunk |-> chunks[k], vector |-> Vectors(chunks)[k]]]
  BY DEF Rows
<1> HIDE DEF sections, n, ss, all, chunks, rows
<1>7. DOMAIN chunks = 1 .. Len(chunks)
  BY <1>5, LenProperties
<1>8. DOMAIN rows = 1 .. Len(chunks) /\ \A i \in 1 .. Len(chunks) : rows[i].chunk = all[i] /\ rows[i] \in Range(rows)
  BY <1>5, <1>6, <1>7 DEF Range
<1>9. ASSUME NEW i \in 1 .. Len(chunks)
      PROVE  \E k \in 1 .. n : \E l \in 1 .. Len(ss[k]) :
                /\ all[i] = ss[k][l] /\ all[i].item = sections[k].item /\ all[i].index = l - 1
                /\ all[i].tokens \subseteq sections[k].body /\ all[i].tokens # {}
  <2>1. i \in 1 .. Len(all)
    BY <1>5
  <2>2. PICK k \in 1 .. n : \E l \in 1 .. Len(ss[k]) : all[i] = ss[k][l]
    BY <1>4, <2>1 DEF Joined
  <2>3. PICK l \in 1 .. Len(ss[k]) : all[i] = ss[k][l]
    BY <2>2
  <2> QED BY <1>2, <2>3 DEF ChunksOf
<1>10. ASSUME NEW s \in Range(sections), Len(all) <= MaxChunks
       PROVE  s.body \subseteq UNION {r.chunk.tokens : r \in {q \in Range(rows) : q.chunk.item = s.item}}
  <2>1. PICK k \in 1 .. n : s = sections[k]
    BY <1>1 DEF Range
  <2> SUFFICES ASSUME NEW p \in s.body
               PROVE  \E r \in Range(rows) : r.chunk.item = s.item /\ p \in r.chunk.tokens
    OBVIOUS
  <2>2. PICK l \in 1 .. Len(ss[k]) : p \in ss[k][l].tokens /\ ss[k][l].item = s.item
    BY <1>2, <2>1 DEF ChunksOf
  <2>3. PICK i \in 1 .. Len(all) : all[i] = ss[k][l]
    BY <1>4 DEF Joined
  <2>4. i \in 1 .. Len(chunks)
    BY <1>5, <1>10
  <2> QED BY <1>8, <2>2, <2>3, <2>4
<1>11. ASSUME NEW i \in 1 .. Len(chunks), NEW j \in 1 .. Len(chunks) \ {i}
       PROVE  rows[j].chunk.item # rows[i].chunk.item \/ rows[j].chunk.index # rows[i].chunk.index
  <2> SUFFICES ASSUME all[j].item = all[i].item, all[j].index = all[i].index PROVE FALSE
    BY <1>8
  <2>1. PICK k \in 1 .. n : \E l \in 1 .. Len(ss[k]) :
                /\ all[i] = ss[k][l] /\ all[i].item = sections[k].item /\ all[i].index = l - 1
    BY <1>9
  <2>2. PICK h \in 1 .. n : \E l \in 1 .. Len(ss[h]) :
                /\ all[j] = ss[h][l] /\ all[j].item = sections[h].item /\ all[j].index = l - 1
    BY <1>9
  <2>3. k = h
    BY <2>1, <2>2, SectionsAre DEF sections, n
  <2>4. all[i] = all[j]
    <3>1. PICK x \in 1 .. Len(ss[k]) : all[i] = ss[k][x] /\ all[i].index = x - 1
      BY <2>1
    <3>2. PICK y \in 1 .. Len(ss[k]) : all[j] = ss[k][y] /\ all[j].index = y - 1
      BY <2>2, <2>3
    <3>3. x - 1 = y - 1 /\ x \in Int /\ y \in Int
      BY <3>1, <3>2
    <3>4. x = y
      BY <3>3
    <3> QED BY <3>1, <3>2, <3>4
  <2>5. i \in 1 .. Len(all) /\ j \in 1 .. Len(all) /\ i # j
    BY <1>5
  <2> QED BY <1>4, <2>4, <2>5 DEF Joined
<1>12. ASSUME NEW i \in 1 .. Len(chunks)
       PROVE  /\ rows[i].vector = rows[i].chunk
              /\ rows[i].chunk.tokens # {}
              /\ rows[i].chunk.item # "FULL" => \A p \in rows[i].chunk.tokens :
                    text[Max({h \in 1 .. p : IsFinal(text, h)})] = rows[i].chunk.item
  <2>1. Len(chunks) > 0
    BY <1>5
  <2>2. Vectors(chunks) = chunks
    BY <1>5, <2>1, VectorsAre
  <2>3. rows[i].vector = rows[i].chunk
    BY <1>6, <1>7, <2>2
  <2>4. PICK k \in 1 .. n : /\ all[i].item = sections[k].item
                            /\ all[i].tokens \subseteq sections[k].body /\ all[i].tokens # {}
    BY <1>9
  <2>5. IsSection(text, sections[k])
    BY <1>1
  <2>6. all[i].item # "FULL" => \A p \in all[i].tokens :
            text[Max({h \in 1 .. p : IsFinal(text, h)})] = all[i].item
    BY <2>4, <2>5, CitedAs
  <2> QED BY <1>8, <2>3, <2>4, <2>6
<1> DEFINE Whole == \A s \in Range(sections) :
               s.body \subseteq UNION {r.chunk.tokens : r \in {q \in Range(rows) : q.chunk.item = s.item}}
           Sound(k) == /\ rows[k].vector = rows[k].chunk
                       /\ rows[k].chunk.tokens # {}
                       /\ rows[k].chunk.item # "FULL" => \A p \in rows[k].chunk.tokens :
                             text[Max({h \in 1 .. p : IsFinal(text, h)})] = rows[k].chunk.item
           Alone(k) == \A j \in DOMAIN rows \ {k} :
                rows[j].chunk.item # rows[k].chunk.item \/ rows[j].chunk.index # rows[k].chunk.index
<1>13. Len(all) <= MaxChunks => Whole
  BY <1>10
<1>14. \A k \in DOMAIN rows : Sound(k)
  BY <1>8, <1>12
<1>15. \A k \in DOMAIN rows : Alone(k)
  BY <1>8, <1>11
<1>16. CoveredFiling(text) <=> /\ Len(all) <= MaxChunks => Whole
                               /\ \A k \in DOMAIN rows : Sound(k) /\ Alone(k)
  BY Zenon DEF CoveredFiling, all, rows, sections
<1> HIDE DEF Whole, Sound, Alone
<1> QED BY <1>13, <1>14, <1>15, <1>16

-----------------------------------------------------------------------------
(* The figures: every input of MCFigures, whatever its bounds are          *)

\* The inputs of each kind.
LEMMA InputsAre ==
  ASSUME AnyInput
  PROVE  /\ kind = "text" => input \in Texts
         /\ kind = "prices" => input \in Closes
         /\ kind = "fields" => input \in SUBSET Fields
         /\ kind = "scores" => input \in [Pillars -> Scores]
         /\ kind = "shares" => input \in [1 .. 2 -> 0 .. Buckets]
         /\ kind = "sample" => input \in AnySample /\ PossibleSample(input)
<1> USE FiguresConstants DEF AnyInput, Inputs
<1>1. ASSUME NEW S, NEW n \in Nat PROVE SeqsUpTo(S, n) \subseteq Seq(S)
  <2>1. \A k \in 0 .. n : [1 .. k -> S] \subseteq Seq(S)
    BY SeqDef
  <2> QED
    BY <2>1 DEF SeqsUpTo
<1>2. kind = "prices" => input \in Closes
  <2>1. kind = "prices" => input \in SeqsUpTo(Prices, Days)
    OBVIOUS
  <2>2. SeqsUpTo(Prices, Days) \subseteq Seq(Nat \ {0})
    <3>1. \A k \in 0 .. Days : [1 .. k -> Prices] \subseteq [1 .. k -> Nat \ {0}]
      OBVIOUS
    <3>2. SeqsUpTo(Prices, Days) \subseteq SeqsUpTo(Nat \ {0}, Days)
      BY <3>1 DEF SeqsUpTo
    <3> QED
      BY <1>1, <3>2
  <2> QED
    BY <2>1, <2>2 DEF Closes
<1>3. kind = "fields" => input \in SUBSET Fields
  OBVIOUS
<1>4. kind = "scores" => input \in [Pillars -> Scores]
  OBVIOUS
<1>5. kind = "shares" => input \in [1 .. 2 -> 0 .. Buckets]
  <2>1. kind = "shares" => input \in [1 .. 2 -> Shares]
    OBVIOUS
  <2>2. Shares \subseteq 0 .. Buckets
    OBVIOUS
  <2> HIDE DEF AnyInput, Inputs
  <2> QED
    BY <2>1, <2>2
<1>6. kind = "sample" => input \in AnySample /\ PossibleSample(input)
  <2>1. kind = "sample" => input \in Samples
    OBVIOUS
  <2> DEFINE T == [report : Reports, score : JudgeScores]
  <2>2. SeqsUpTo(T, TraceCount) \subseteq Seq(T)
    BY <1>1
  <2>3. Seq(T) \subseteq Seq([report : Reports, score : Nat])
    <3>1. T \subseteq [report : Reports, score : Nat]
      OBVIOUS
    <3> DEFINE U == [report : Reports, score : Nat]
    <3> HIDE DEF T, U
    <3>2. T \subseteq U
      BY <3>1 DEF U
    <3>3. \A s \in Seq(T) : s \in Seq(U)
      <4> TAKE s \in Seq(T)
      <4>1. PICK k \in Nat : s \in [1 .. k -> T]
        BY SeqDef
      <4>2. s \in [1 .. k -> U]
        BY <3>2, <4>1
      <4> QED
        BY <4>2, SeqDef
    <3> QED
      BY <3>3 DEF U
  <2>4. SeqsUpTo(T, TraceCount) \subseteq Seq([report : Reports, score : Nat])
    <3> HIDE DEF T
    <3> QED
      BY <2>2, <2>3
  <2> HIDE DEF AnyInput, Inputs
  <2>5. Samples \subseteq {s \in AnySample : PossibleSample(s)}
    <3>1. 0 .. TraceCount \subseteq Nat
      OBVIOUS
    <3> QED
      BY <2>4, <3>1 DEF Samples, AnySample
  <2> QED
    BY <2>1, <2>5
<1>7. kind = "text" => input \in Texts
  <2>1. kind = "text" => input \in SeqsUpTo(Items \cup {Word}, TextLen)
    OBVIOUS
  <2> QED
    BY <1>1, <2>1 DEF Texts
<1> QED
  BY <1>2, <1>3, <1>4, <1>5, <1>6, <1>7

\* No step changes the input.
LEMMA InputStays == FiguresSpec => []AnyInput
<1>1. AnyInput /\ [SameInput]_<<kind, input>> => AnyInput'
  BY DEF AnyInput, SameInput, Inputs
<1> QED
  BY <1>1, PTL DEF FiguresSpec

\* Whatever the text of a filing, and whatever the sizes of windows, batches and the cap, if
\* only a tail that is left out is no longer than the overlap: unless the cap cuts the
\* filing, every token of every kept section is in a row that cites the section's item; and
\* always a row has its own text's vector and tokens of its own item only, and no two rows
\* have the same item and index (split_sections, chunk_section, chunk_filing, embed_texts,
\* ingest_filing).
THEOREM FilingsAreCovered == FiguresSpec => []FilingCovered
<1>1. AnyInput => FilingCovered
  BY InputsAre, FilingIsCovered DEF FilingCovered
<1> QED
  BY <1>1, InputStays, PTL

\* Whatever the pillars, rounding finds an overall score, it lies between the lowest and
\* the highest pillar, and one point more for a pillar neither lowers the score nor its
\* best or worst verdict, and leaves the two bands a verdict in common
\* (compute_overall_score, verdict_band).
THEOREM ScoresFollowThePillars == FiguresSpec => []ScoresSound
<1>1. AnyInput => ScoresSound
  BY InputsAre, ScoreIsSound DEF ScoresSound
<1> QED
  BY <1>1, InputStays, PTL

\* Whatever the percentages, the canary's slice of pro users is exactly its share of the
\* buckets and only grows with it, and free users are in it only where their model is the
\* stable one; whatever the reports, the traces of their revisions and the scores, the
\* candidate is promoted only on recent written reports of its own, at least one for each
\* 1 + MaxRevisions of the rows it needs, and never when each of its scores is more than
\* the tolerance worse than each of the stable model's (route_to_canary, apply_canary,
\* evaluate_canary_promotion).
THEOREM CanaryIsSound == FiguresSpec => []CanarySound
<1>1. AnyInput => CanarySound
  BY InputsAre, SliceIsSticky, PromotionIsSound DEF CanarySound
<1> QED
  BY <1>1, InputStays, PTL

\* Whatever the closing prices, the indicators computed and rounded from them agree with
\* each other and with them, and those with a number of days in their name are reported
\* missing exactly when the history is shorter, the year's return never; whatever the
\* provider knows, exactly the rest is reported missing (_compute_technicals, the tools).
THEOREM FiguresAreHonest == FiguresSpec => []FiguresHonest
<1>1. AnyInput => FiguresHonest
  BY InputsAre, TechnicalsCohere, GapsAreReported, FiguresConstants DEF FiguresHonest
<1> QED
  BY <1>1, InputStays, PTL

-----------------------------------------------------------------------------
(* Grounding: any runs and any filings                                     *)

\* The three parts of the invariant that speak of one run.
Safe(r) == /\ pc[r] = "researching" /\ status[r] \in {"cached", "ingested"} => meta[r] \in Known
           /\ pc[r] = "killed" => Ingested(meta[r], Runs \ {r})
           /\ Settled(r)

\* The invariant, run by run.
LEMMA InvByRun ==
  GroundingInv <=> /\ TypeOK
                   /\ \A r \in Runs : Safe(r)
                   /\ \A f \in Known : Ingested(f, Runs)
  BY DEF GroundingInv, AgentsSeeFiling, OnlyRacesKill, Settling, Safe, Ingested

\* The initial states have the invariant.
LEMMA InitInv == Init => GroundingInv
  BY InvByRun, GroundingConstants DEF Init, TypeOK, Safe, Settled, Known, Filings

\* A step of run r keeps the invariant if it keeps the types and leaves r safe, changes
\* nothing of another run, and takes back neither a committed filing nor an ingestion.
LEMMA StepOfRun ==
  ASSUME GroundingInv, NEW r \in Runs, TypeOK', Safe(r)',
         \A q \in Runs \ {r} :
            /\ pc'[q] = pc[q] /\ status'[q] = status[q] /\ meta'[q] = meta[q]
            /\ q \in holds' <=> q \in holds
            /\ q \in broken' <=> q \in broken,
         status[r] = "ingested" => status'[r] = "ingested" /\ meta'[r] = meta[r],
         Known \subseteq Known',
         \A f \in Known' \ Known : Ingested(f, Runs)'
  PROVE  GroundingInv'
  <1>1. \A q \in Runs : Safe(q)
    BY InvByRun
  <1>2. ASSUME NEW q \in Runs \ {r} PROVE Safe(q)'
    <2>1. Ingested(meta[q], Runs \ {q}) => Ingested(meta[q], Runs \ {q})'
      BY DEF Ingested
    <2> QED
      BY <1>1, <2>1 DEF Safe, Settled
  <1>3. \A f \in Known' : Ingested(f, Runs)'
    <2>1. ASSUME NEW f, Ingested(f, Runs) PROVE Ingested(f, Runs)'
      BY <2>1 DEF Ingested
    <2> QED
      BY <2>1, InvByRun
  <1>4. \A q \in Runs : Safe(q)'
    BY <1>2
  <1> QED
    BY <1>3, <1>4 DEF GroundingInv, AgentsSeeFiling, OnlyRacesKill, Settling, Safe, Ingested

\* Every step of a run, and every new filing, keeps the invariant.
LEMMA NextInv == GroundingInv /\ [Next]_vars => GroundingInv'
<1> SUFFICES ASSUME GroundingInv, [Next]_vars PROVE GroundingInv'
  OBVIOUS
<1> USE GroundingConstants DEF TypeOK, Goto, Safe, Settled, Known, Filings
<1>0. TypeOK /\ (\A r \in Runs : Safe(r)) /\ \A f \in Known : Ingested(f, Runs)
  BY InvByRun
<1>1. CASE Publish
  BY <1>0, <1>1
     DEF Publish, GroundingInv, AgentsSeeFiling, OnlyRacesKill, Settling, Ingested
<1>2. ASSUME NEW r \in Runs, FindLatest(r) PROVE GroundingInv'
  <2>1. TypeOK'
    BY <1>0, <1>2 DEF FindLatest, Listed
  <2>2. Safe(r)'
    BY <1>0, <1>2 DEF FindLatest, Ingested, Listed
  <2> QED
    BY <1>0, <1>2, <2>1, <2>2, StepOfRun DEF FindLatest, Listed
<1>3. ASSUME NEW r \in Runs, Unavailable(r) PROVE GroundingInv'
  <2>1. TypeOK'
    BY <1>0, <1>3 DEF Unavailable, OnEdgarError
  <2>2. Safe(r)'
    BY <1>0, <1>3 DEF Unavailable, Ingested, OnEdgarError
  <2> QED
    BY <1>0, <1>3, <2>1, <2>2, StepOfRun DEF Unavailable, OnEdgarError
<1>4. ASSUME NEW r \in Runs, LookUp(r) PROVE GroundingInv'
  <2>1. TypeOK'
    BY <1>0, <1>4 DEF LookUp
  <2>2. Safe(r)'
    BY <1>0, <1>4 DEF LookUp, Ingested
  <2> QED
    BY <1>0, <1>4, <2>1, <2>2, StepOfRun DEF LookUp
<1>5. ASSUME NEW r \in Runs, Embed(r) PROVE GroundingInv'
  <2>1. TypeOK'
    BY <1>0, <1>5 DEF Embed
  <2>2. Safe(r)'
    BY <1>0, <1>5 DEF Embed, Ingested
  <2> QED
    BY <1>0, <1>5, <2>1, <2>2, StepOfRun DEF Embed
<1>6. ASSUME NEW r \in Runs, Flush(r) PROVE GroundingInv'
  <2>1. TypeOK'
    BY <1>0, <1>6 DEF Flush, Duplicate
  <2>2. Safe(r)'
    BY <1>0, <1>6 DEF Flush, Ingested, Duplicate
  <2> QED
    BY <1>0, <1>6, <2>1, <2>2, StepOfRun DEF Flush, Duplicate
<1>7. ASSUME NEW r \in Runs, FlushFails(r) PROVE GroundingInv'
  <2>1. TypeOK'
    BY <1>0, <1>7 DEF FlushFails, Duplicate
  <2>2. Safe(r)'
    BY <1>0, <1>7 DEF FlushFails, Ingested, Duplicate
  <2> QED
    BY <1>0, <1>7, <2>1, <2>2, StepOfRun DEF FlushFails, Duplicate
<1>8. ASSUME NEW r \in Runs, Research(r) PROVE GroundingInv'
  <2> DEFINE own(f) == IF r \in holds /\ meta[r] = f THEN 1 ELSE 0
  <2>1. copies' = [f \in Filings |-> copies[f] + own(f)] /\ holds' = holds \ {r}
    BY <1>8 DEF Research, CommitsFirst
  <2>2. \A f \in Filings : own(f) \in {0, 1} /\ (own(f) = 1 <=> r \in holds /\ meta[r] = f)
    OBVIOUS
  <2> HIDE DEF own
  <2>3. \A f \in Filings : copies'[f] \in Nat /\ copies'[f] >= copies[f]
    BY <1>0, <2>1, <2>2
  <2>4. TypeOK'
    BY <1>0, <1>8, <2>1, <2>3 DEF Research
  <2>5. Known \subseteq Known'
    BY <1>0, <2>3
  <2>6. \A f \in Known' \ Known : r \in holds /\ meta[r] = f
    BY <1>0, <2>1, <2>2
  <2>7. \A f \in Known' \ Known : Ingested(f, Runs)'
    BY <1>0, <1>8, <2>6 DEF Research, Ingested
  <2>8. ASSUME status[r] = "ingested" PROVE meta[r] \in Known'
    <3>1. r \in holds /\ meta[r] \in Filings /\ meta' = meta
      BY <1>0, <1>8, <2>8 DEF Research
    <3>2. own(meta[r]) = 1 /\ copies[meta[r]] \in Nat
      BY <1>0, <2>2, <3>1
    <3>3. copies'[meta[r]] > 0
      BY <2>1, <3>1, <3>2
    <3> QED
      BY <3>1, <3>3
  <2>9. Safe(r)'
    BY <1>0, <1>8, <2>1, <2>5, <2>8 DEF Research, Ingested
  <2> QED
    BY <1>0, <1>8, <2>1, <2>4, <2>5, <2>7, <2>9, StepOfRun DEF Research
<1>9. ASSUME NEW r \in Runs, CommitFails(r) PROVE GroundingInv'
  <2>1. TypeOK'
    BY <1>0, <1>9 DEF CommitFails
  <2>2. Safe(r)'
    BY <1>0, <1>9 DEF CommitFails, Ingested
  <2> QED
    BY <1>0, <1>9, <2>1, <2>2, StepOfRun DEF CommitFails
<1>10. ASSUME NEW r \in Runs, End(r) PROVE GroundingInv'
  <2>1. TypeOK'
    BY <1>0, <1>10 DEF End
  <2>2. Safe(r)'
    BY <1>0, <1>10 DEF End, Ingested
  <2> QED
    BY <1>0, <1>10, <2>1, <2>2, StepOfRun DEF End
<1>11. CASE UNCHANGED vars
  BY <1>0, <1>11
     DEF vars, GroundingInv, AgentsSeeFiling, OnlyRacesKill, Settling, Ingested
<1> QED
  BY <1>1, <1>2, <1>3, <1>4, <1>5, <1>6, <1>7, <1>8, <1>9, <1>10, <1>11 DEF Next
-----------------------------------------------------------------------------
\* Grounding keeps its promises in every reachable state, for any number of runs and
\* filings: agents see what their run was told is there, and only a run that another has
\* overtaken on the same filing dies.
THEOREM GroundingHolds == Spec => []GroundingInv
<1>1. Init => GroundingInv
  BY InitInv
<1>2. GroundingInv /\ [Next]_vars => GroundingInv'
  BY NextInv
<1> QED
  BY <1>1, <1>2, PTL DEF Spec

\* The two safety properties by themselves.
COROLLARY AgentsSeeAndRacesKill == Spec => [](AgentsSeeFiling /\ OnlyRacesKill)
<1>1. GroundingInv => AgentsSeeFiling /\ OnlyRacesKill
  BY DEF GroundingInv
<1> QED
  BY <1>1, GroundingHolds, PTL
=============================================================================
