------------------------------ MODULE Scoring ------------------------------
(***************************************************************************)
(* The overall score of a report and the verdicts that suit it             *)
(* (schemas/agents).  Scores are tenths of a point, weights hundredths;    *)
(* rounding a binary fraction at a tie may go either way.                  *)
(***************************************************************************)
EXTENDS Integers, Sequences, FiniteSets, FiniteSetsExt

Scores   == 0 .. 100
Verdicts == <<"STRONG_SELL", "SELL", "HOLD", "BUY", "STRONG_BUY">>
Pillars  == {"fundamentals", "risk", "sentiment", "technicals"}

PILLAR_WEIGHTS == [fundamentals |-> 35, risk |-> 30, sentiment |-> 20, technicals |-> 15]

Part(p, score) == PILLAR_WEIGHTS[p] * score[p]

\* Plausible bugs, each a variant of the operator that follows it.
Weighted_RiskInverted(score) ==
    Part("fundamentals", score) + PILLAR_WEIGHTS["risk"] * (100 - score["risk"])
    + Part("sentiment", score) + Part("technicals", score)

Weighted(score) == Part("fundamentals", score) + Part("risk", score)
                   + Part("sentiment", score) + Part("technicals", score)

\* compute_overall_score: the results rounding may give.
OverallScores(score) == {y \in Scores : 100 * y - Weighted(score) \in -50 .. 50}

\* verdict_band
VerdictBand(y) == CASE y >= 80 -> {"STRONG_BUY", "BUY"}
                    [] y \in 65 .. 79 -> {"BUY", "HOLD"}
                    [] y \in 45 .. 64 -> {"HOLD", "SELL", "BUY"}
                    [] y \in 30 .. 44 -> {"SELL", "HOLD", "STRONG_SELL"}
                    [] OTHER -> {"STRONG_SELL", "SELL"}
-----------------------------------------------------------------------------
Ranks(y) == {k \in DOMAIN Verdicts : Verdicts[k] \in VerdictBand(y)}

\* The score stays between the worst and the best pillar, never falls when a pillar
\* rises, and its rounding does not decide the verdict: results of a tie, like all
\* neighbouring scores, have a verdict in common, and a higher score never takes the
\* best or the worst of its verdicts down.
SoundScore(score) ==
    /\ OverallScores(score) # {}
    /\ \A y \in OverallScores(score) :
          /\ \E p \in Pillars : score[p] <= y
          /\ \E p \in Pillars : y <= score[p]
          /\ \A p \in Pillars : score[p] < 100 =>
                \A z \in OverallScores([score EXCEPT ![p] = @ + 1]) :
                   /\ y <= z
                   /\ VerdictBand(y) \cap VerdictBand(z) # {}
                   /\ Max(Ranks(y)) <= Max(Ranks(z)) /\ Min(Ranks(y)) <= Min(Ranks(z))
=============================================================================
