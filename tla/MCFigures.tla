----------------------------- MODULE MCFigures -----------------------------
(***************************************************************************)
(* The pure parts for TLC: every small text, price history, set of known   *)
(* fields, score of the pillars, pair of percentages and sample of judged  *)
(* reports is a state.                                                     *)
(***************************************************************************)
EXTENDS Chunking, MarketData, Scoring, Canary

CONSTANTS TextLen,      \* bound: tokens of a text
          Prices,       \* closing prices
          Days,         \* bound: sessions of a history
          Fields,       \* fields of an info tool
          PillarScores, \* scores of a pillar
          Shares,       \* percentages, of Buckets
          JudgeScores,  \* what the judge gives
          TraceCount    \* bound: traces

ASSUME FiguresConstants ==
    /\ TextLen \in Nat /\ Days \in Nat /\ TraceCount \in Nat
    /\ Prices \subseteq Nat \ {0} /\ IsFiniteSet(Fields) /\ Null \notin Fields
    /\ PillarScores \subseteq Scores /\ Shares \subseteq 0 .. Buckets /\ JudgeScores \subseteq Nat

VARIABLES kind, input

MCMonths == [return_1m_pct |-> 1, return_3m_pct |-> 2, return_6m_pct |-> 4]

SeqsUpTo(S, n) == UNION {[1 .. k -> S] : k \in 0 .. n}

\* Every sample the bounds allow.
Samples == {s \in [reports : [Reports -> [model : {Candidate, Stable}, status : {"written", "empty", "unfinished"}]],
                   traces  : SeqsUpTo([report : Reports, score : JudgeScores], TraceCount),
                   since   : 0 .. TraceCount] : s.since <= Len(s.traces) /\ PossibleSample(s)}

Inputs == [text    |-> SeqsUpTo(Items \cup {Word}, TextLen),
           prices  |-> SeqsUpTo(Prices, Days) \ {<<>>},
           fields  |-> SUBSET Fields,
           scores  |-> [Pillars -> PillarScores],
           shares  |-> [1 .. 2 -> Shares],
           sample  |-> Samples]

AnyInput    == kind \in DOMAIN Inputs /\ input \in Inputs[kind]
SameInput   == UNCHANGED <<kind, input>>
FiguresSpec == AnyInput /\ [][SameInput]_<<kind, input>>
-----------------------------------------------------------------------------
\* What the analysts are quoted from a filing is there, whole, and cited to its item
\* (Chunking).
FilingCovered == kind = "text" => CoveredFiling(input)

\* The figures the specialists get agree with each other, and what is missing is said to
\* be, never made up (MarketData).
FiguresHonest == /\ kind = "prices" => CoherentTechnicals(input)
                 /\ kind = "fields" => ReportedGaps(Fields, input)

\* Scores and verdicts follow the pillars (Scoring).
ScoresSound == kind = "scores" => SoundScore(input)

\* The canary's slice is sticky, and its promotion has evidence (Canary).
CanarySound == /\ kind = "shares" => StickySlice(input)
               /\ kind = "sample" => SoundPromotion(input)
=============================================================================
