---------------------------- MODULE ResearchRun ----------------------------
(***************************************************************************)
(* One research run (backend/pipeline/research.py): the generator that     *)
(* grounds, fans four specialists out, synthesises, and lets an            *)
(* adversarial critic send the draft back a bounded number of times.       *)
(*                                                                         *)
(* Its session flushes traces and the report's outcome as it goes (view,   *)
(* traces) and they become visible when the consumer of the generator      *)
(* commits (row, stored).  The consumer is one that commits in both cases  *)
(* (stream, background run, queue worker; module InlineRuns has the sync   *)
(* endpoint, which rolls a failure back), and may close the generator at   *)
(* any of its yields or cancel it at any of its awaits.                    *)
(*                                                                         *)
(* Costs are natural numbers of some unit; each agent call costs one of    *)
(* Costs.  traces counts the agent runs recorded, by phase.                *)
(***************************************************************************)
EXTENDS Naturals, FiniteSets

CONSTANTS Pillars,       \* SPECIALISTS
          Costs,         \* what one agent call may cost
          EmbedCosts,    \* what grounding may cost (0 when cached or failed)
          MaxRevisions,  \* settings.max_revisions
          MaxCost        \* settings.max_cost_usd

ASSUME RunConstants ==
    /\ IsFiniteSet(Pillars) /\ Pillars # {}
    /\ Costs \subseteq Nat /\ EmbedCosts \subseteq Nat
    /\ MaxRevisions \in Nat /\ MaxCost \in Nat

\* Token limits bound what one call, and what grounding, can cost.
Highest(S) == CHOOSE c \in S : \A d \in S : d <= c
ASSUME CostsBounded ==
    \A S \in {Costs, EmbedCosts} : Highest(S) \in S /\ \A d \in S : d <= Highest(S)

VARIABLES pc,
          task,       \* the specialists' asyncio tasks
          bill,       \* what a returned specialist cost
          outputs,    \* pillars collected
          draft,      \* version of the draft (0: the synthesis)
          reviewed,   \* version the critic's last verdict is about
          blocked,    \* critic_output.blocks_publication
          revision_count,
          total_cost,
          embedding,  \* ingest.embedding_cost_usd
          traces, traceCost,   \* agent runs the session has flushed
          stored, storedCost,  \* ... and committed
          view,       \* the report as the session sees it
          row         \* the report as committed

vars == <<pc, task, bill, outputs, draft, reviewed, blocked, revision_count,
          total_cost, embedding, traces, traceCost, stored, storedCost, view, row>>

run     == <<outputs, draft, reviewed, blocked, revision_count>>
money   == <<total_cost, embedding, traces, traceCost>>
tasks   == <<task, bill>>
session == <<stored, storedCost, view, row>>

Phases    == {"research", "synthesis", "critique", "revision"}
NoTraces  == [p \in Phases |-> 0]
NoBody    == [revisions |-> 0, blocked |-> FALSE, cost |-> 0]
Report(s) == [status |-> s, body |-> NoBody]
Reports   == [status : {"none", "running", "complete", "failed"},
              body   : [revisions : 0 .. MaxRevisions, blocked : BOOLEAN, cost : Nat]]

Ended     == {"completed", "failed", "closed", "orphaned"}
Abortable == {"grounding", "grounded", "announcing", "collecting", "cancelling",
              "synthesis", "critique", "verdict", "revision", "persisting",
              "failing", "publishing", "raised"}
TaskStates == {"none", "running", "returned", "raised", "stopping", "cancelled"}

TypeOK == /\ pc \in Ended \cup Abortable \cup {"start"}
          /\ task \in [Pillars -> TaskStates]
          /\ bill \in [Pillars -> Nat]
          /\ outputs \subseteq Pillars
          /\ draft \in Nat /\ reviewed \in Nat
          /\ blocked \in BOOLEAN
          /\ revision_count \in 0 .. MaxRevisions
          /\ total_cost \in Nat /\ embedding \in Nat
          /\ traces \in [Phases -> Nat] /\ traceCost \in Nat
          /\ stored \in [Phases -> Nat] /\ storedCost \in Nat
          /\ view \in Reports /\ row \in Reports

Init == /\ pc = "start"
        /\ task = [p \in Pillars |-> "none"]
        /\ bill = [p \in Pillars |-> 0]
        /\ outputs = {}
        /\ draft = 0 /\ reviewed = 0 /\ blocked = FALSE /\ revision_count = 0
        /\ total_cost = 0 /\ embedding = 0
        /\ traces = NoTraces /\ traceCost = 0
        /\ stored = NoTraces /\ storedCost = 0
        /\ view = Report("none") /\ row = Report("none")

Goto(from, to) == pc = from /\ pc' = to

\* Plausible bugs, each a variant of the operator that follows it.
Record_CostFirstOnly(phase, cost) ==
    /\ total_cost' = IF phase = "revision" THEN total_cost ELSE total_cost + cost
    /\ traces' = [traces EXCEPT ![phase] = @ + 1]
    /\ traceCost' = traceCost + cost
Exhausted_OneEarly    == revision_count + 1 >= MaxRevisions
Exhausted_OneLate     == revision_count > MaxRevisions
Tripped_Never         == FALSE
AfterRevision_Publish == "persisting"
Stop_Nobody           == task
AllSeen_Never         == FALSE

\* record: the run's totals, and one trace row in the session.
Record(phase, cost) ==
    /\ total_cost' = total_cost + cost
    /\ traces' = [traces EXCEPT ![phase] = @ + 1]
    /\ traceCost' = traceCost + cost

\* The two ways out of the revision loop that publish a blocked draft.
Exhausted == revision_count >= MaxRevisions
Tripped   == total_cost >= MaxCost

\* A revised draft goes back to the critic.
AfterRevision == "critique"

\* gather(return_exceptions=True) waits for every task to have ended.
AllSeen == \A p \in Pillars : task[p] \notin {"running", "stopping"}

\* task.cancel() on every specialist; it takes effect when the task next runs.
Stop == [p \in Pillars |-> IF task[p] = "running" THEN "stopping" ELSE task[p]]
-----------------------------------------------------------------------------
(* The generator.                                                          *)

\* The running row is committed at once.
Create ==
    /\ Goto("start", "grounding")
    /\ view' = Report("running") /\ row' = Report("running")
    /\ UNCHANGED <<run, money, tasks, stored, storedCost>>

\* ensure_filing_ingested, and the commit that lets the agents' tools see it.
Ground ==
    /\ Goto("grounding", "grounded")
    /\ \E c \in EmbedCosts : embedding' = c /\ total_cost' = total_cost + c
    /\ UNCHANGED <<run, tasks, traces, traceCost, session>>

FanOut ==
    /\ Goto("grounded", "announcing")
    /\ task' = [p \in Pillars |-> "running"]
    /\ UNCHANGED <<run, money, bill, session>>

\* The agent_started events: the tasks run, nothing guards them yet.
Announce ==
    /\ Goto("announcing", "collecting")
    /\ UNCHANGED <<run, money, tasks, session>>

\* as_completed yields a specialist that has returned.
Collect(p) ==
    /\ Goto("collecting", "collecting")
    /\ task[p] = "returned" /\ p \notin outputs
    /\ outputs' = outputs \cup {p}
    /\ Record("research", bill[p])
    /\ UNCHANGED <<draft, reviewed, blocked, revision_count, embedding, tasks, session>>

\* ... or one that has raised: the siblings are cancelled.
CollectFailure ==
    /\ Goto("collecting", "cancelling")
    /\ \E p \in Pillars : task[p] = "raised"
    /\ task' = Stop
    /\ UNCHANGED <<run, money, bill, session>>

\* gather has observed every sibling.
Gathered ==
    /\ Goto("cancelling", "failing")
    /\ AllSeen
    /\ UNCHANGED <<run, money, tasks, session>>

\* The score is computed from all the pillars.
Score ==
    /\ Goto("collecting", "synthesis")
    /\ outputs = Pillars
    /\ UNCHANGED <<run, money, tasks, session>>

Synthesize ==
    /\ Goto("synthesis", "critique")
    /\ \E c \in Costs : Record("synthesis", c)
    /\ UNCHANGED <<run, embedding, tasks, session>>

Criticize ==
    /\ Goto("critique", "verdict")
    /\ \E c \in Costs : Record("critique", c)
    /\ blocked' \in BOOLEAN
    /\ reviewed' = draft
    /\ UNCHANGED <<outputs, draft, revision_count, embedding, tasks, session>>

Accept ==
    /\ Goto("verdict", "persisting")
    /\ ~blocked \/ Exhausted \/ Tripped
    /\ UNCHANGED <<run, money, tasks, session>>

SendBack ==
    /\ Goto("verdict", "revision")
    /\ blocked /\ ~Exhausted /\ ~Tripped
    /\ revision_count' = revision_count + 1
    /\ UNCHANGED <<outputs, draft, reviewed, blocked, money, tasks, session>>

Revise ==
    /\ Goto("revision", AfterRevision)
    /\ \E c \in Costs : Record("revision", c)
    /\ draft' = draft + 1
    /\ UNCHANGED <<outputs, reviewed, blocked, revision_count, embedding, tasks, session>>

\* An agent call raises, a timeout included.
Raise ==
    /\ pc \in {"synthesis", "critique", "revision"}
    /\ pc' = "failing"
    /\ UNCHANGED <<run, money, tasks, session>>

\* complete_report is flushed, then the complete event is yielded.
Persist ==
    /\ Goto("persisting", "publishing")
    /\ view' = [status |-> "complete",
                body   |-> [revisions |-> revision_count, blocked |-> blocked,
                            cost |-> total_cost]]
    /\ UNCHANGED <<run, money, tasks, stored, storedCost, row>>

\* fail_report is flushed, the error event yielded, the exception re-raised.
FailReport ==
    /\ Goto("failing", "raised")
    /\ view' = Report("failed")
    /\ UNCHANGED <<run, money, tasks, stored, storedCost, row>>
-----------------------------------------------------------------------------
(* The consumer and the specialists.                                       *)

\* The consumer commits what the session holds.
Commit(from, to) ==
    /\ Goto(from, to)
    /\ row' = view /\ stored' = traces /\ storedCost' = traceCost
    /\ UNCHANGED <<run, money, tasks, view>>

\* The consumer is cancelled or goes away: `except Exception` does not see it.
Close ==
    /\ pc \in Abortable
    /\ pc' = IF pc = "announcing" THEN "orphaned" ELSE "closed"
    /\ task' = IF pc \in {"collecting", "cancelling"} THEN Stop ELSE task
    /\ view' = row /\ traces' = stored /\ traceCost' = storedCost
    /\ UNCHANGED <<run, total_cost, embedding, bill, stored, storedCost, row>>

\* A specialist ends by itself (traced_run bounds it) or by its cancellation.
TaskEnds(p) ==
    /\ \/ /\ task[p] = "running"
          /\ \/ \E c \in Costs : bill' = [bill EXCEPT ![p] = c]
                                 /\ task' = [task EXCEPT ![p] = "returned"]
             \/ task' = [task EXCEPT ![p] = "raised"] /\ bill' = bill
       \/ /\ task[p] = "stopping"
          /\ task' = [task EXCEPT ![p] = "cancelled"] /\ bill' = bill
    /\ UNCHANGED <<pc, run, money, session>>

Step == \/ Create \/ Ground \/ FanOut \/ Announce
        \/ \E p \in Pillars : Collect(p)
        \/ CollectFailure \/ Gathered \/ Score
        \/ Synthesize \/ Criticize \/ Accept \/ SendBack \/ Revise \/ Raise
        \/ Persist \/ FailReport
        \/ Commit("publishing", "completed") \/ Commit("raised", "failed")

Next == Step \/ Close \/ \E p \in Pillars : TaskEnds(p)

Spec == Init /\ [][Next]_vars

\* Every agent call is bounded by agent_timeout_seconds, so each specialist
\* ends and the generator, driven by its consumer, takes its next step.
FairSpec == Spec /\ WF_vars(Step) /\ \A p \in Pillars : WF_vars(TaskEnds(p))
-----------------------------------------------------------------------------
(* Properties.                                                             *)

\* A complete report is one whose last draft the critic has seen, built from
\* every specialist, and its committed traces tell exactly that story: one
\* synthesis, a revision per round and one review more.
TracesTellTheRun ==
    row.status = "complete" =>
        /\ reviewed = draft /\ draft = row.body.revisions
        /\ stored = [research |-> Cardinality(Pillars), synthesis |-> 1,
                     critique |-> row.body.revisions + 1,
                     revision |-> row.body.revisions]

\* The run's variables are typed, and its traces tell its story.
RunInv == TypeOK /\ TracesTellTheRun

\* The circuit breaker bounds the spend: past the first review a run costs at
\* most one revision and one review more than the threshold lets through; and the
\* cost a complete report shows is that of its committed traces and its grounding, so
\* no call escapes the breaker's total or is counted without a trace.
SpendBounded ==
    LET call == Highest(Costs)
        base == Highest(EmbedCosts) + (Cardinality(Pillars) + 2) * call
    IN  /\ total_cost <= base \/ total_cost < MaxCost + 2 * call
        /\ row.status = "complete" => row.body.cost = storedCost + embedding

\* "Cancel the siblings so they stop consuming tokens": once a run has failed,
\* or was closed while it collected, none of its specialists runs on.
NoAgentOutlivesRun ==
    /\ pc \in {"failing", "raised", "failed"} =>
           \A p \in Pillars : task[p] \notin {"running", "stopping"}
    /\ pc = "closed" => \A p \in Pillars : task[p] # "running"

\* A run ends, whatever its agents and its critic do.
RunEnds == (pc = "grounding") ~> (pc \in Ended)

\* The committed report row goes through the abstract life cycle; in particular
\* a report is published over the critic's block only when the run was out of
\* revisions or the circuit breaker had tripped.
Lifecycle == INSTANCE ReportLifecycle WITH report <- row
ImplementsLifecycle == Lifecycle!Spec
=============================================================================
