------------------------------ MODULE MCQuota ------------------------------
EXTENDS Quota

\* One run a month on the free plan, two on pro: both limits are reached, and
\* passed over by a plan change, with three requests.
MCMaxRuns == [p \in Plans |-> IF p = "free" THEN 1 ELSE 2]
=============================================================================
