------------------------------- MODULE Canary -------------------------------
(***************************************************************************)
(* Which synthesizer model a run gets (deploy/canary, the plans of         *)
(* billing/limits) and when the candidate may take over                    *)
(* (deploy/promotion).  A user is known by the bucket its hash falls into. *)
(***************************************************************************)
EXTENDS Integers, Sequences, FiniteSets, SequencesExt, Sums

CONSTANTS Buckets,      \* 100
          Stable,       \* settings.synthesizer_model, the pro plan's
          Candidate,    \* settings.synthesizer_model_canary, or Unset
          Unset,        \* no candidate is configured
          FreeModel,    \* the free plan's
          Reports,      \* ids of reports
          MaxRevisions, \* settings.max_revisions, 2
          SampleLimit,  \* _SAMPLE_LIMIT
          MinSample,    \* 5
          Tolerance     \* a tenth of a point, in the unit of the judge's scores

ASSUME CanaryConstants ==
    /\ Buckets \in Nat \ {0} /\ SampleLimit \in Nat /\ MinSample \in Nat \ {0} /\ Tolerance \in Nat
    /\ MaxRevisions \in Nat /\ Candidate \notin {Stable, FreeModel}

PlanModel(plan) == IF plan = "pro" THEN Stable ELSE FreeModel
-----------------------------------------------------------------------------
(* Routing.                                                                *)

\* A plausible bug, a variant of the operator that follows it.
RouteToCanary_Top(bucket, percent) == percent > 0 /\ bucket >= percent

RouteToCanary(bucket, percent) ==
    /\ percent > 0
    /\ percent >= Buckets \/ bucket < percent

\* Only runs on the stable pro model take part.
OnStableRouting(model) == model = Stable

\* apply_canary
ApplyCanary(bucket, percent, model) ==
    IF Candidate # Unset /\ OnStableRouting(model) /\ RouteToCanary(bucket, percent)
    THEN Candidate ELSE model

\* _plan_for of the inline endpoints; a queued run has its plan's model, and one the
\* chat starts inline the pro plan's.
RunModel(route, bucket, percent, plan) ==
    CASE route = "inline" -> ApplyCanary(bucket, percent, PlanModel(plan))
      [] route = "queued" -> PlanModel(plan)
      [] route = "chat"   -> Stable
-----------------------------------------------------------------------------
(* Promotion.                                                              *)

\* A sample is what the database and the judge have to say: reports, each of a model and
\* "written" (complete), "empty" (complete with no report in it) or "unfinished"; the
\* traces of their syntheses and revisions, newest first, each with the score the judge
\* gives its report when asked for it; and how many of the traces began since the date.
\* Revisions are traced one by one, and reports of different users interleave.
AnySample ==
    [reports : [Reports -> [model : {Candidate, Stable}, status : {"written", "empty", "unfinished"}]],
     traces : Seq([report : Reports, score : Nat]), since : Nat]

\* A run leaves a trace of its synthesis and of each of its revisions (research.py:236).
\* Only a queued run is ever run twice on one report, and none of those is canaried.
TracesOf(sample, report) == {k \in DOMAIN sample.traces : sample.traces[k].report = report}
PossibleSample(sample) ==
    \A report \in Reports : sample.reports[report].model = Candidate
                             => Cardinality(TracesOf(sample, report)) <= 1 + MaxRevisions

ReportOf(sample, k) == sample.reports[sample.traces[k].report]

\* The rows that count for a model: traces since the date of its completed reports.
RowsOf(sample, model) ==
    {k \in DOMAIN sample.traces :
        /\ k <= sample.since
        /\ ReportOf(sample, k).model = model /\ ReportOf(sample, k).status # "unfinished"}

\* _judge_model_sample: the newest rows, those without a report left out after the limit.
Judged(sample, model) ==
    LET rows == RowsOf(sample, model)
    IN  {k \in rows : /\ Cardinality({o \in rows : o < k}) < SampleLimit
                      /\ ReportOf(sample, k).status = "written"}

\* The sum of the scores of some rows.
Total(sample, rows) ==
    LET n == Len(sample.traces)
    IN  SumTo([k \in 1 .. n |-> IF k \in rows THEN sample.traces[k].score ELSE 0], n)

\* canary_avg >= stable_avg - 0.1; the average of no scores is 0.
MayPromote(sample, canary, stable) ==
    /\ Cardinality(canary) >= MinSample
    /\ (Total(sample, canary) + Tolerance * Cardinality(canary)) * Cardinality(stable)
         >= Total(sample, stable) * Cardinality(canary)

\* evaluate_canary_promotion
Promote(sample) ==
    /\ Candidate # Unset
    /\ MayPromote(sample, Judged(sample, Candidate), Judged(sample, Stable))
-----------------------------------------------------------------------------
\* The slice of pro users only grows with the percentage and takes exactly its share of
\* the buckets, none if there is no candidate; so an inline run's model does not flicker
\* while the percentage rises.  Free users keep the free model (canary.py:30), but where
\* the settings make that the stable model too: then they are in the slice like everybody.
StickySlice(percents) ==
    LET In(p) == {b \in 0 .. Buckets - 1 : RunModel("inline", b, p, "pro") = Candidate} IN
    /\ percents[1] <= percents[2] => In(percents[1]) \subseteq In(percents[2])
    /\ \A p \in Range(percents) :
          /\ Cardinality(In(p)) = IF Candidate = Unset THEN 0 ELSE p
          /\ \A b \in 0 .. Buckets - 1 :
                RunModel("inline", b, p, "free") = IF FreeModel = Stable /\ b \in In(p) THEN Candidate ELSE FreeModel

\* The candidate is promoted only on recent written reports of its own, and as a revised
\* report counts once for its synthesis and once for each revision, on at least one report
\* for each 1 + MaxRevisions of the rows it needs, not on MinSample different ones.  Once
\* a report of the stable model is judged, it is never promoted when each of its scores is
\* more than the tolerance worse than each of the stable model's.
SoundPromotion(sample) ==
    LET evidence == {sample.traces[k].report : k \in Judged(sample, Candidate)}
    IN  Promote(sample) =>
        /\ (1 + MaxRevisions) * Cardinality(evidence) >= MinSample
        /\ \A report \in evidence : \E k \in 1 .. sample.since : sample.traces[k].report = report
        /\ \A report \in evidence : sample.reports[report] = [model |-> Candidate, status |-> "written"]
        /\ Judged(sample, Stable) # {} =>
              \E c \in Judged(sample, Candidate), s \in Judged(sample, Stable) :
                 sample.traces[c].score + Tolerance >= sample.traces[s].score
=============================================================================
