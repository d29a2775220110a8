----------------------------- MODULE RunProofs ------------------------------
(***************************************************************************)
(* Proofs about a run and the console that watches it, for any set of      *)
(* specialists, any costs and any bounds on revisions and spend.           *)
(*                                                                         *)
(* ResearchRun.  RunInv, SpendBounded and NoAgentOutlivesRun follow from   *)
(* one invariant, stated place by place of the generator: what its traces  *)
(* say by then (Path), what they and the breaker add up to (Accounts,      *)
(* Spend), what the specialists may still be doing (Tasks), and what the   *)
(* session and the database hold (Rows).                                   *)
(*                                                                         *)
(* Console.  Its steps are steps of the run it watches or leave it alone,  *)
(* so every invariant of the run holds of it; and the desk tells of that   *)
(* run, whatever responses were broken off, aborted or left open before.   *)
(***************************************************************************)
EXTENDS Console, FiniteSetTheorems, TLAPS

Unscored   == {"start", "grounding", "grounded", "announcing", "collecting", "cancelling"}
Synthesis  == {"synthesis", "critique", "verdict", "revision", "persisting", "publishing"}
Reviewed   == {"verdict", "persisting", "publishing"}

\* The traces of a run with c reviews and r revisions.
Told(c, r) == /\ traces["research"] = Cardinality(Pillars)
              /\ traces["synthesis"] = 1
              /\ traces["critique"] = c
              /\ traces["revision"] = r

\* The traces tell where the generator is.
Path ==
    /\ pc \in Unscored \cup {"synthesis"} =>
          /\ revision_count = 0 /\ draft = 0
          /\ traces["research"] = Cardinality(outputs)
          /\ traces["synthesis"] = 0 /\ traces["critique"] = 0 /\ traces["revision"] = 0
    /\ pc \in Synthesis \cup {"completed"} => outputs = Pillars
    /\ pc = "critique" => Told(revision_count, revision_count) /\ draft = revision_count
    /\ pc = "revision" => /\ revision_count > 0 /\ draft = revision_count - 1
                          /\ Told(revision_count, revision_count - 1)
    /\ pc \in Reviewed => /\ Told(revision_count + 1, revision_count)
                          /\ draft = revision_count /\ reviewed = draft

\* What is counted is traced, as long as the session lives.
Accounts == pc \notin {"closed", "orphaned"} => total_cost = traceCost + embedding

\* The most that may have been spent by then: the first review costs Base, and a
\* revision starts below the breaker's threshold.
Call == Highest(Costs)
Seed == Highest(EmbedCosts)
Base == Seed + (Cardinality(Pillars) + 2) * Call

Spend ==
    /\ total_cost <= Base \/ total_cost < MaxCost + 2 * Call
    /\ pc \in {"start", "grounding"} => total_cost = 0
    /\ pc \in Unscored \cup {"synthesis"} => total_cost <= Seed + Cardinality(outputs) * Call
    /\ pc = "critique" => \/ total_cost <= Seed + (Cardinality(Pillars) + 1) * Call
                          \/ total_cost < MaxCost + Call
    /\ pc = "revision" => total_cost < MaxCost
    /\ \A p \in Pillars : task[p] = "returned" => bill[p] \in Costs

\* Only the fan-out starts specialists, and whoever is past it has seen them end.
Tasks ==
    /\ \A p \in outputs : task[p] = "returned"
    /\ pc \in {"start", "grounding", "grounded"} => \A p \in Pillars : task[p] = "none"
    /\ pc \in {"failing", "raised", "failed"} =>
          \A p \in Pillars : task[p] \notin {"running", "stopping"}
    /\ pc = "closed" => \A p \in Pillars : task[p] # "running"

\* The session's report and the committed one.
Rows ==
    /\ pc = "start" => row = Report("none")
    /\ pc \in Abortable \cup {"closed", "orphaned"} => row = Report("running")
    /\ pc \in {"persisting", "publishing"} => ~blocked \/ Exhausted \/ Tripped
    /\ pc = "publishing" =>
          view = [status |-> "complete",
                  body   |-> [revisions |-> revision_count, blocked |-> blocked,
                              cost |-> total_cost]]
    /\ pc = "raised" => view = Report("failed")
    /\ pc = "failed" => row = Report("failed")
    /\ pc = "completed" => TracesTellTheRun /\ row.body.cost = storedCost + embedding

IInv == TypeOK /\ Path /\ Accounts /\ Spend /\ Tasks /\ Rows
-----------------------------------------------------------------------------
(* Arithmetic of the spend.                                                *)

\* How many specialists have reported is a number, and grows by one.
LEMMA OutputsCount ==
    ASSUME TypeOK
    PROVE  /\ Cardinality(outputs) \in Nat /\ Cardinality(Pillars) \in Nat
           /\ \A S \in SUBSET Pillars : Cardinality(S) \in Nat /\ Cardinality(S) <= Cardinality(Pillars)
           /\ \A p \in Pillars \ outputs :
                 Cardinality(outputs \cup {p}) = Cardinality(outputs) + 1
<1>1. IsFiniteSet(outputs) /\ IsFiniteSet(Pillars)
  BY RunConstants, FS_Subset DEF TypeOK
<1> QED
  BY <1>1, FS_CardinalityType, FS_AddElement, FS_Subset

\* A call costs at most Call, grounding at most Seed, and calls add up.
LEMMA CallsAddUp ==
    /\ \A c \in Costs : c \in Nat /\ c <= Call
    /\ \A c \in EmbedCosts : c \in Nat /\ c <= Seed
    /\ Call \in Nat /\ Seed \in Nat
    /\ \A n \in Nat : n * Call \in Nat /\ (n + 1) * Call = n * Call + Call
                      /\ (n + 2) * Call = (n + 1) * Call + Call
    /\ \A m, n \in Nat : m <= n => m * Call <= n * Call
<1>1. Call \in Nat /\ Seed \in Nat
  BY RunConstants, CostsBounded DEF Call, Seed
<1>2. /\ \A c \in Costs : c \in Nat /\ c <= Call
      /\ \A c \in EmbedCosts : c \in Nat /\ c <= Seed
  BY RunConstants, CostsBounded DEF Call, Seed
<1> HIDE DEF Call, Seed
<1>3. \A n \in Nat : n * Call \in Nat /\ (n + 1) * Call = n * Call + Call
                     /\ (n + 2) * Call = (n + 1) * Call + Call
  BY <1>1
<1>4. \A m, n \in Nat : m <= n => m * Call <= n * Call
  BY <1>1
<1> QED
  BY <1>1, <1>2, <1>3, <1>4
-----------------------------------------------------------------------------
(* The initial states.                                                     *)

\* Every report the run writes is a report.
LEMMA ReportsTyped ==
    /\ \A s \in {"none", "running", "complete", "failed"} : Report(s) \in Reports
    /\ \A r \in 0 .. MaxRevisions, b \in BOOLEAN, c \in Nat :
          [status |-> "complete", body |-> [revisions |-> r, blocked |-> b, cost |-> c]]
             \in Reports
<1>1. NoBody \in [revisions : 0 .. MaxRevisions, blocked : BOOLEAN, cost : Nat]
  BY RunConstants DEF NoBody
<1> QED
  BY <1>1 DEF Report, Reports

\* A run that has not begun has done and owes nothing.
LEMMA InitInv == Init => IInv
<1> SUFFICES ASSUME Init PROVE IInv
  OBVIOUS
<1> USE RunConstants DEF Init
<1>1. TypeOK
  <2>1. Report("none") \in Reports
    BY ReportsTyped
  <2>2. blocked \in BOOLEAN
    OBVIOUS
  <2>3. /\ task \in [Pillars -> TaskStates] /\ bill \in [Pillars -> Nat]
        /\ traces \in [Phases -> Nat] /\ stored \in [Phases -> Nat]
    BY DEF TaskStates, NoTraces
  <2>4. revision_count \in 0 .. MaxRevisions
    OBVIOUS
  <2> QED
    BY <2>1, <2>2, <2>3, <2>4 DEF TypeOK
<1>2. Path
  BY FS_EmptySet DEF Path, Unscored, Synthesis, Reviewed, NoTraces, Phases
<1>3. Accounts
  BY DEF Accounts
<1>4. Spend
  <2>1. Cardinality(outputs) = 0 /\ Base \in Nat
    BY <1>1, OutputsCount, CallsAddUp, FS_EmptySet DEF Base
  <2> QED
    BY <2>1, CallsAddUp DEF Spend, Unscored
<1>5. Tasks
  BY DEF Tasks
<1>6. Rows
  BY DEF Rows, Abortable
<1> QED  BY <1>1, <1>2, <1>3, <1>4, <1>5, <1>6 DEF IInv
-----------------------------------------------------------------------------
(* The steps, one conjunct after the other.                                *)

\* A step that records a call of an agent.
LEMMA RecordTyped ==
    ASSUME TypeOK, NEW ph \in Phases, NEW c \in Nat, Record(ph, c)
    PROVE  total_cost' \in Nat /\ traces' \in [Phases -> Nat] /\ traceCost' \in Nat
  BY DEF TypeOK, Record

\* Every step keeps the types.
LEMMA TypeNext == TypeOK /\ [Next]_vars => TypeOK'
<1> SUFFICES ASSUME TypeOK, [Next]_vars PROVE TypeOK'
  OBVIOUS
<1> USE RunConstants
    DEF TypeOK, Goto, run, money, tasks, session, Ended, Abortable, TaskStates
<1>1. CASE Create
  BY <1>1, ReportsTyped DEF Create
<1>2. CASE Ground
  BY <1>2 DEF Ground
<1>3. CASE FanOut \/ Announce \/ CollectFailure \/ Gathered \/ Score \/ Accept \/ Raise
  BY <1>3 DEF FanOut, Announce, CollectFailure, Stop, Gathered, Score, Accept, Raise
<1>4. ASSUME NEW p \in Pillars, Collect(p) PROVE TypeOK'
  BY <1>4, RecordTyped DEF Collect, Phases
<1>5. CASE Synthesize
  BY <1>5, RecordTyped DEF Synthesize, Phases
<1>6. CASE Criticize
  BY <1>6, RecordTyped DEF Criticize, Phases
<1>7. CASE SendBack
  BY <1>7 DEF SendBack, Exhausted
<1>8. CASE Revise
  BY <1>8, RecordTyped DEF Revise, AfterRevision, Phases
<1>9. CASE Persist \/ FailReport
  BY <1>9, ReportsTyped DEF Persist, FailReport
<1>10. CASE Commit("publishing", "completed") \/ Commit("raised", "failed")
  BY <1>10 DEF Commit
<1>11. CASE Close
  BY <1>11 DEF Close, Stop
<1>12. ASSUME NEW p \in Pillars, TaskEnds(p) PROVE TypeOK'
  BY <1>12 DEF TaskEnds
<1>13. CASE UNCHANGED vars
  BY <1>13 DEF vars
<1> QED
  BY <1>1, <1>2, <1>3, <1>4, <1>5, <1>6, <1>7, <1>8, <1>9, <1>10, <1>11, <1>12, <1>13
     DEF Next, Step

\* Each step of the generator leaves its trace.
LEMMA PathNext == IInv /\ TypeOK' /\ [Next]_vars => Path'
<1> SUFFICES ASSUME IInv, TypeOK', [Next]_vars PROVE Path'
  OBVIOUS
<1>0. TypeOK /\ Path
  BY DEF IInv
<1> USE DEF Path, Told, Goto, run, money, Unscored, Synthesis, Reviewed
<1>1. CASE \/ Create \/ Ground \/ FanOut \/ Announce \/ CollectFailure \/ Gathered
           \/ Score \/ Accept \/ Raise \/ Persist \/ FailReport
           \/ Commit("publishing", "completed") \/ Commit("raised", "failed")
  BY <1>0, <1>1 DEF Create, Ground, FanOut, Announce, CollectFailure, Gathered, Score,
                    Accept, Raise, Persist, FailReport, Commit
<1>2. ASSUME NEW p \in Pillars, Collect(p) PROVE Path'
  BY <1>0, <1>2, OutputsCount DEF Collect, Record, TypeOK, Phases
<1>3. CASE Synthesize
  BY <1>0, <1>3 DEF Synthesize, Record, TypeOK, Phases
<1>4. CASE Criticize
  BY <1>0, <1>4 DEF Criticize, Record, TypeOK, Phases
<1>5. CASE SendBack
  BY <1>0, <1>5, RunConstants DEF SendBack, TypeOK
<1>6. CASE Revise
  BY <1>0, <1>6, RunConstants DEF Revise, Record, AfterRevision, TypeOK, Phases
<1>7. CASE Close
  BY <1>7 DEF Close
<1>8. CASE UNCHANGED vars \/ \E p \in Pillars : TaskEnds(p)
  BY <1>0, <1>8 DEF vars, TaskEnds
<1> QED
  BY <1>1, <1>2, <1>3, <1>4, <1>5, <1>6, <1>7, <1>8 DEF Next, Step

\* No cost is counted without its trace, nor traced without being counted.
LEMMA AccountsNext == IInv /\ TypeOK' /\ [Next]_vars => Accounts'
<1> SUFFICES ASSUME IInv, TypeOK', [Next]_vars PROVE Accounts'
  OBVIOUS
<1>0. TypeOK /\ Accounts /\ Spend /\ Tasks
  BY DEF IInv
<1> USE DEF Accounts, TypeOK, Goto, run, money, session
<1>1. CASE \/ Create \/ FanOut \/ Announce \/ CollectFailure \/ Gathered \/ Score \/ Accept
           \/ SendBack \/ Raise \/ Persist \/ FailReport
           \/ Commit("publishing", "completed") \/ Commit("raised", "failed")
  BY <1>0, <1>1 DEF Create, FanOut, Announce, CollectFailure, Gathered, Score,
                    Accept, SendBack, Raise, Persist, FailReport, Commit
<1>2. CASE Ground
  <2>1. total_cost = 0 /\ traceCost = 0
    BY <1>0, <1>2 DEF Ground, Spend
  <2> QED
    BY <1>2, <2>1, CallsAddUp DEF Ground
<1>3. ASSUME NEW p \in Pillars, Collect(p) PROVE Accounts'
  BY <1>0, <1>3 DEF Collect, Record
<1>4. CASE Synthesize \/ Criticize \/ Revise
  <2>1. /\ pc \in {"synthesis", "critique", "revision"} /\ embedding' = embedding
        /\ \E c \in Costs : total_cost' = total_cost + c /\ traceCost' = traceCost + c
    BY <1>4 DEF Synthesize, Criticize, Revise, Record
  <2> QED
    BY <1>0, <2>1, CallsAddUp
<1>5. CASE Close
  BY <1>5 DEF Close
<1>6. CASE UNCHANGED vars \/ \E p \in Pillars : TaskEnds(p)
  BY <1>0, <1>6 DEF vars, TaskEnds
<1> QED
  BY <1>1, <1>2, <1>3, <1>4, <1>5, <1>6 DEF Next, Step

\* A revision starts below the threshold, and two calls follow at most.
LEMMA SpendNext == IInv /\ TypeOK' /\ [Next]_vars => Spend'
<1> SUFFICES ASSUME IInv, TypeOK', [Next]_vars PROVE Spend'
  OBVIOUS
<1>0. TypeOK /\ Path /\ Spend /\ Tasks
  BY DEF IInv
<1> DEFINE N == Cardinality(Pillars)
           k == Cardinality(outputs)
<1>n. /\ N \in Nat /\ k \in Nat /\ Call \in Nat /\ Seed \in Nat
      /\ N * Call \in Nat /\ (N + 1) * Call = N * Call + Call
      /\ Base = Seed + (N + 1) * Call + Call
      /\ k * Call \in Nat /\ (k + 1) * Call = k * Call + Call
      /\ MaxCost \in Nat
  BY <1>0, OutputsCount, CallsAddUp, RunConstants DEF Base
<1> HIDE DEF N, k
<1> USE DEF Spend, TypeOK, Goto, run, money, tasks, Unscored
<1>1. CASE \/ Create \/ FanOut \/ Announce \/ CollectFailure \/ Gathered \/ Accept
           \/ Raise \/ Persist \/ FailReport
           \/ Commit("publishing", "completed") \/ Commit("raised", "failed")
  BY <1>0, <1>1 DEF Create, FanOut, Announce, CollectFailure, Gathered,
                    Accept, Raise, Persist, FailReport, Commit, Stop
<1>2. CASE Ground
  <2>1. PICK c \in EmbedCosts : total_cost' = total_cost + c
    BY <1>2 DEF Ground
  <2>2. total_cost = 0 /\ c \in Nat /\ c <= Seed
    BY <1>0, <1>2, <2>1, CallsAddUp DEF Ground
  <2> QED
    BY <1>0, <1>n, <1>2, <2>1, <2>2 DEF Ground, N, k
<1>3. ASSUME NEW p \in Pillars, Collect(p) PROVE Spend'
  <2>1. bill[p] \in Nat /\ bill[p] <= Call /\ total_cost' = total_cost + bill[p]
    BY <1>0, <1>3, CallsAddUp DEF Collect, Record
  <2>2. total_cost <= Seed + k * Call /\ Cardinality(outputs') = k + 1
    BY <1>0, <1>3, OutputsCount DEF Collect, k
  <2>3. total_cost' <= Seed + Cardinality(outputs') * Call
    BY <1>0, <1>n, <2>1, <2>2
  <2>4. Cardinality(outputs') * Call <= N * Call
    <3>1. Cardinality(outputs') \in Nat /\ Cardinality(outputs') <= N /\ N \in Nat
      BY <1>0, OutputsCount DEF N
    <3> QED
      BY <3>1, CallsAddUp
  <2>5. total_cost' <= Base
    BY <1>0, <1>n, <2>1, <2>3, <2>4, OutputsCount, CallsAddUp
  <2> QED
    BY <1>0, <1>3, <2>3, <2>5 DEF Collect
<1>4. CASE Score
  BY <1>0, <1>n, <1>4 DEF Score, Path, Synthesis, N, k
<1>5. CASE Synthesize
  <2>1. PICK c \in Costs : total_cost' = total_cost + c
    BY <1>5 DEF Synthesize, Record
  <2>2. c \in Nat /\ c <= Call /\ total_cost <= Seed + N * Call
    BY <1>0, <1>5, CallsAddUp DEF Synthesize, Path, Synthesis, N
  <2> QED
    BY <1>0, <1>n, <1>5, <2>1, <2>2 DEF Synthesize, N
<1>6. CASE Criticize
  <2>1. PICK c \in Costs : total_cost' = total_cost + c
    BY <1>6 DEF Criticize, Record
  <2>2. c \in Nat /\ c <= Call
    BY CallsAddUp
  <2> QED
    BY <1>0, <1>n, <1>6, <2>1, <2>2 DEF Criticize, N
<1>7. CASE SendBack
  BY <1>0, <1>n, <1>7 DEF SendBack, Tripped
<1>8. CASE Revise
  <2>1. PICK c \in Costs : total_cost' = total_cost + c
    BY <1>8 DEF Revise, Record
  <2>2. c \in Nat /\ c <= Call
    BY CallsAddUp
  <2> QED
    BY <1>0, <1>n, <1>8, <2>1, <2>2 DEF Revise, AfterRevision
<1>9. CASE Close
  BY <1>0, <1>9 DEF Close, Stop
<1>10. ASSUME NEW p \in Pillars, TaskEnds(p) PROVE Spend'
  BY <1>0, <1>10, RunConstants DEF TaskEnds
<1>11. CASE UNCHANGED vars
  BY <1>0, <1>11 DEF vars
<1> QED
  BY <1>1, <1>2, <1>3, <1>4, <1>5, <1>6, <1>7, <1>8, <1>9, <1>10, <1>11 DEF Next, Step

\* What the specialists may still be doing.
LEMMA TasksNext == IInv /\ TypeOK' /\ [Next]_vars => Tasks'
<1> SUFFICES ASSUME IInv, TypeOK', [Next]_vars PROVE Tasks'
  OBVIOUS
<1>0. TypeOK /\ Path /\ Tasks
  BY DEF IInv
<1> USE DEF Tasks, Goto, run, money, tasks
<1>1. CASE \/ Create \/ Ground \/ Announce \/ Score \/ Synthesize \/ Criticize \/ Accept
           \/ SendBack \/ Revise \/ Persist \/ FailReport
           \/ Commit("publishing", "completed") \/ Commit("raised", "failed")
  BY <1>0, <1>1 DEF Create, Ground, Announce, Score, Synthesize, Criticize, Accept, SendBack,
                    Revise, AfterRevision, Persist, FailReport, Commit
<1>2. CASE FanOut
  <2>1. outputs = {}
    BY <1>0, <1>2 DEF FanOut, TypeOK
  <2> QED
    BY <1>2, <2>1 DEF FanOut
<1>3. ASSUME NEW p \in Pillars, Collect(p) PROVE Tasks'
  BY <1>0, <1>3 DEF Collect
<1>4. CASE CollectFailure \/ Close
  <2>1. \A p \in Pillars : task'[p] = task[p] \/ (task[p] = "running" /\ task'[p] = "stopping")
    BY <1>0, <1>4 DEF CollectFailure, Close, Stop, TypeOK
  <2>2. pc' \in {"cancelling", "orphaned"} \/ (pc' = "closed" /\ outputs' = outputs)
    BY <1>4 DEF CollectFailure, Close
  <2>3. pc' = "closed" => \A p \in Pillars : task'[p] # "running"
    <3> SUFFICES ASSUME pc' = "closed" PROVE \A p \in Pillars : task'[p] # "running"
      OBVIOUS
    <3>1. CASE pc \in {"collecting", "cancelling"}
      BY <1>4, <3>1 DEF CollectFailure, Close, Stop
    <3>2. CASE pc \in {"grounding", "grounded"} \cup {"failing", "raised"} \cup Synthesis
      BY <1>0, <2>1, <3>2 DEF Path
    <3> QED
      BY <1>4, <3>1, <3>2 DEF CollectFailure, Close, Abortable, Synthesis
  <2> QED
    BY <1>0, <1>4, <2>1, <2>2, <2>3 DEF CollectFailure, Close, TypeOK
<1>5. CASE Gathered
  BY <1>0, <1>5 DEF Gathered, AllSeen
<1>6. CASE Raise
  BY <1>0, <1>6 DEF Raise, Path, Synthesis
<1>7. ASSUME NEW p \in Pillars, TaskEnds(p) PROVE Tasks'
  BY <1>0, <1>7 DEF TaskEnds, TypeOK
<1>8. CASE UNCHANGED vars
  BY <1>0, <1>8 DEF vars
<1> QED
  BY <1>1, <1>2, <1>3, <1>4, <1>5, <1>6, <1>7, <1>8 DEF Next, Step

\* Only a published outcome reaches the committed row.
LEMMA RowsNext == IInv /\ TypeOK' /\ [Next]_vars => Rows'
<1> SUFFICES ASSUME IInv, TypeOK', [Next]_vars PROVE Rows'
  OBVIOUS
<1>0. TypeOK /\ Rows /\ Path /\ Accounts
  BY DEF IInv
<1> USE DEF Rows, Goto, run, money, tasks, session, Abortable, Exhausted, Tripped
<1>1. CASE \/ Create \/ Ground \/ FanOut \/ Announce \/ CollectFailure \/ Gathered \/ Score
           \/ Synthesize \/ Criticize \/ Accept \/ SendBack \/ Raise \/ FailReport
  BY <1>0, <1>1 DEF Create, Ground, FanOut, Announce, CollectFailure, Gathered, Score,
                    Synthesize, Criticize, Accept, SendBack, Raise, FailReport
<1>2. ASSUME NEW p \in Pillars, Collect(p) PROVE Rows'
  BY <1>0, <1>2 DEF Collect
<1>3. CASE Revise
  BY <1>0, <1>3 DEF Revise, AfterRevision
<1>4. CASE Persist
  BY <1>0, <1>4 DEF Persist
<1>5. CASE Commit("publishing", "completed")
  <2>1. /\ row' = [status |-> "complete",
                   body   |-> [revisions |-> revision_count, blocked |-> blocked,
                               cost |-> total_cost]]
        /\ pc = "publishing" /\ pc' = "completed"
        /\ UNCHANGED <<revision_count, blocked, draft, reviewed, embedding>>
        /\ stored' = traces /\ storedCost' = traceCost
    BY <1>0, <1>5 DEF Commit
  <2>2. /\ row'.body.revisions = revision_count /\ row'.body.cost = total_cost
    BY <2>1
  <2>3. traces = [research |-> Cardinality(Pillars), synthesis |-> 1,
                  critique |-> revision_count + 1, revision |-> revision_count]
    BY <1>0, <2>1 DEF Path, Told, Reviewed, TypeOK, Phases
  <2>4. TracesTellTheRun'
    BY <1>0, <2>1, <2>2, <2>3 DEF TracesTellTheRun, Path, Reviewed
  <2> QED
    BY <1>0, <2>1, <2>2, <2>4 DEF Accounts
<1>6. CASE Commit("raised", "failed")
  BY <1>0, <1>6 DEF Commit
<1>7. CASE Close
  BY <1>0, <1>7 DEF Close
<1>8. CASE UNCHANGED vars \/ \E p \in Pillars : TaskEnds(p)
  BY <1>0, <1>8 DEF vars, TaskEnds, TracesTellTheRun
<1> QED
  BY <1>1, <1>2, <1>3, <1>4, <1>5, <1>6, <1>7, <1>8 DEF Next, Step

\* Every step keeps the invariant.
LEMMA NextInv == IInv /\ [Next]_vars => IInv'
  BY TypeNext, PathNext, AccountsNext, SpendNext, TasksNext, RowsNext DEF IInv

\* The invariant holds of every run.
LEMMA Invariance == Spec => []IInv
  BY InitInv, NextInv, PTL DEF Spec

\* A report is committed as complete only where the generator has published it.
LEMMA CompleteIsPublished == IInv /\ row.status = "complete" => pc = "completed"
<1> SUFFICES ASSUME IInv, row.status = "complete" PROVE pc = "completed"
  OBVIOUS
<1>1. pc \in Ended \cup Abortable \cup {"start"}
  BY DEF IInv, TypeOK
<1>2. row \notin {Report("none"), Report("running"), Report("failed")}
  BY DEF Report
<1> QED
  BY <1>1, <1>2 DEF IInv, Rows, Ended
-----------------------------------------------------------------------------
(* The results.                                                            *)

\* A complete report was built from every specialist, its last draft was reviewed,
\* and its committed traces say so, whatever the critic and the breaker did.
THEOREM TracesTell == Spec => []RunInv
<1>1. IInv => RunInv
  BY CompleteIsPublished DEF IInv, Rows, RunInv, TracesTellTheRun
<1> QED
  BY <1>1, Invariance, PTL

\* No sequence of reviews and revisions costs more than the breaker allows, and a
\* complete report shows the cost of its traces and its grounding.
THEOREM SpendIsBounded == Spec => []SpendBounded
<1>1. IInv => SpendBounded
  BY CompleteIsPublished DEF IInv, Spend, Rows, SpendBounded, Base, Call, Seed
<1> QED
  BY <1>1, Invariance, PTL

\* A failed run leaves no specialist at work, and a closed one cancels those it had.
THEOREM NoAgentOutlives == Spec => []NoAgentOutlivesRun
<1>1. IInv => NoAgentOutlivesRun
  BY DEF IInv, Tasks, NoAgentOutlivesRun
<1> QED
  BY <1>1, Invariance, PTL
-----------------------------------------------------------------------------
(* The committed row implements the report's life cycle.                   *)

\* A run has no report before its first step.
LEMMA LifecycleInit == Init => Lifecycle!Init
  BY DEF Init, Lifecycle!Init, Report, NoBody, Lifecycle!NoBody

\* Only the first commit and the consumer's commits write the row.
LEMMA LifecycleStutters ==
    ASSUME [Next]_vars, ~Create, ~Commit("publishing", "completed"), ~Commit("raised", "failed")
    PROVE  UNCHANGED row
<1> USE DEF session, run, money, tasks
<1>1. ASSUME NEW p \in Pillars, Collect(p) \/ TaskEnds(p) PROVE UNCHANGED row
  BY <1>1 DEF Collect, TaskEnds
<1>2. CASE \/ Ground \/ FanOut \/ Announce \/ CollectFailure \/ Gathered \/ Score \/ Synthesize
           \/ Criticize \/ Accept \/ SendBack \/ Revise \/ Raise \/ Persist \/ FailReport
           \/ Close
  BY <1>2 DEF Ground, FanOut, Announce, CollectFailure, Gathered, Score, Synthesize,
              Criticize, Accept, SendBack, Revise, Raise, Persist, FailReport, Close
<1>3. CASE UNCHANGED vars
  BY <1>3 DEF vars
<1> QED
  BY <1>1, <1>2, <1>3 DEF Next, Step

\* Each commit is a step of the life cycle: a blocked draft is published only from a
\* place the generator reaches when it is out of revisions or the breaker has tripped.
LEMMA LifecycleNext == IInv /\ [Next]_vars => [Lifecycle!Next]_row
<1> SUFFICES ASSUME IInv, [Next]_vars PROVE Lifecycle!Next \/ UNCHANGED row
  OBVIOUS
<1>0. TypeOK /\ Rows
  BY DEF IInv
<1> USE DEF Goto, Report, NoBody, Lifecycle!NoBody
<1>1. CASE Create
  BY <1>0, <1>1 DEF Create, Rows, Lifecycle!Next, Lifecycle!Create
<1>2. CASE Commit("publishing", "completed")
  <2>1. pc = "publishing" /\ row' = view
    BY <1>2 DEF Commit
  <2>2. row.status = "running"
    BY <1>0, <2>1 DEF Rows, Abortable
  <2>3. view = [status |-> "complete",
                body   |-> [revisions |-> revision_count, blocked |-> blocked,
                            cost |-> total_cost]]
    BY <1>0, <2>1 DEF Rows
  <2>4. /\ row'.body.revisions = revision_count /\ row'.body.blocked = blocked
        /\ row'.body.cost = total_cost /\ row'.status = "complete"
        /\ row' = [status |-> "complete", body |-> row'.body]
    BY <2>1, <2>3
  <2>5. blocked => revision_count = MaxRevisions \/ total_cost >= MaxCost
    BY <1>0, <2>1, RunConstants DEF Rows, TypeOK, Exhausted, Tripped
  <2>6. blocked \in BOOLEAN /\ revision_count \in 0 .. MaxRevisions /\ total_cost \in Nat
    BY <1>0 DEF TypeOK
  <2>7. Lifecycle!Publishable(row'.body)
    BY <2>4, <2>5, <2>6 DEF Lifecycle!Publishable
  <2> QED
    BY <2>2, <2>4, <2>7 DEF Lifecycle!Next, Lifecycle!Publish
<1>3. CASE Commit("raised", "failed")
  BY <1>0, <1>3 DEF Commit, Rows, Abortable, Lifecycle!Next, Lifecycle!Fail
<1> QED
  BY <1>1, <1>2, <1>3, LifecycleStutters

\* A run's committed row goes from none to running and then, at most once, to failed or
\* to a publishable complete report.
THEOREM LifecycleImplemented == Spec => ImplementsLifecycle
<1>1. Spec => Lifecycle!Init /\ [][Lifecycle!Next]_row
  BY LifecycleInit, LifecycleNext, Invariance, PTL DEF Spec
<1> QED
  BY <1>1 DEF ImplementsLifecycle, Lifecycle!Spec
-----------------------------------------------------------------------------
(* The console: its invariant.                                             *)

Watched   == link = "open"
Early     == {"start", "grounding", "grounded", "announcing"}
Live      == {"grounding", "grounded", "announcing", "collecting", "synthesis",
              "critique", "verdict", "revision"}

\* The page's requests: only a request that was let in has a run, a response still
\* open from before belongs to a page that has asked for nothing yet.
Links ==
    /\ link \in {"none", "asked", "refused"} => pc = "start"
    /\ link = "asked" => desk = Become(Blank, "running")
    /\ link = "none" => desk.status # "running"
    /\ former = "open" => link = "none"
    /\ Watched => pc \notin {"start", "closed", "orphaned"}
    /\ desk.status # "disconnected"

\* Nothing is collected before the events of the start have been sent.
Collected == pc \in Early => outputs = {}

\* The agents at work while the run goes well.
AtDesk == CASE pc = "collecting" -> Pillars \ outputs
            [] pc = "critique"   -> {Critic}
            [] pc \in {"synthesis", "revision"} -> {Synthesizer}
            [] OTHER             -> {}

Crew ==
    Watched => /\ \A p \in Pillars : desk.nodes[p] = "done" <=> p \in outputs
               /\ pc \in Live => \A a \in Agents : desk.nodes[a] = "working" <=> a \in AtDesk

\* What the desk has counted.
Tally ==
    Watched => /\ desk.status = StatusOfRun
               /\ desk.verdicts = traces["critique"]
               /\ desk.drafts = traces["synthesis"] + traces["revision"]
               /\ desk.cost = traceCost + (IF desk.status = "complete" THEN embedding ELSE 0)
               /\ desk.status = "complete" => desk.drafts = reviewed + 1

VInv == IInv /\ DeskTyped /\ Links /\ Collected /\ Crew /\ Tally
-----------------------------------------------------------------------------
(* What the reducer's cases do to a desk.                                  *)

\* A change of status changes nothing else.
LEMMA Becomes ==
    ASSUME NEW d \in RunState, NEW s \in Statuses
    PROVE  /\ Become(d, s) \in RunState
           /\ Become(d, s).status = s
           /\ Become(d, s).nodes = d.nodes /\ Become(d, s).cost = d.cost
           /\ Become(d, s).verdicts = d.verdicts /\ Become(d, s).drafts = d.drafts
  BY DEF RunState, Become

\* Agents that start are at work; the rest of the desk stays.
LEMMA Starts ==
    ASSUME NEW d \in RunState, NEW S \in SUBSET Agents
    PROVE  /\ AgentsStarted(d, S) \in RunState
           /\ AgentsStarted(d, S).nodes
                 = [a \in Agents |-> IF a \in S THEN "working" ELSE d.nodes[a]]
           /\ AgentsStarted(d, S).status = d.status
           /\ AgentsStarted(d, S).cost = d.cost
           /\ AgentsStarted(d, S).verdicts = d.verdicts
           /\ AgentsStarted(d, S).drafts = d.drafts
  BY DEF RunState, AgentsStarted, NodeState

\* A completed call adds its cost, once.
LEMMA Completes ==
    ASSUME NEW d \in RunState, NEW a \in Agents, NEW c \in Nat
    PROVE  /\ AgentCompleted(d, a, c) \in RunState
           /\ AgentCompleted(d, a, c).nodes = [d.nodes EXCEPT ![a] = "done"]
           /\ AgentCompleted(d, a, c).status = d.status
           /\ AgentCompleted(d, a, c).cost = d.cost + c
           /\ AgentCompleted(d, a, c).verdicts = d.verdicts
           /\ AgentCompleted(d, a, c).drafts = d.drafts
<1> DEFINE n == [d.nodes EXCEPT ![a] = "done"]
           e == [d EXCEPT !.nodes = n]
<1>1. n \in [Agents -> NodeState]
  BY DEF RunState, NodeState
<1>2. AgentCompleted(d, a, c) = [e EXCEPT !.cost = d.cost + c]
  BY DEF AgentCompleted
<1> HIDE DEF n
<1>3. /\ e \in RunState /\ e.nodes = n
      /\ e.status = d.status /\ e.cost = d.cost
      /\ e.verdicts = d.verdicts /\ e.drafts = d.drafts
  BY <1>1 DEF RunState
<1> HIDE DEF e
<1>4. /\ AgentCompleted(d, a, c) \in RunState
      /\ AgentCompleted(d, a, c).nodes = n
      /\ AgentCompleted(d, a, c).status = d.status
      /\ AgentCompleted(d, a, c).cost = d.cost + c
      /\ AgentCompleted(d, a, c).verdicts = d.verdicts
      /\ AgentCompleted(d, a, c).drafts = d.drafts
  BY <1>2, <1>3 DEF RunState
<1> QED
  BY <1>4 DEF n

\* A draft is a completed call and one draft more.
LEMMA Drafts ==
    ASSUME NEW d \in RunState, NEW c \in Nat
    PROVE  /\ Drafted(d, c) \in RunState
           /\ Drafted(d, c).nodes = [d.nodes EXCEPT ![Synthesizer] = "done"]
           /\ Drafted(d, c).status = d.status
           /\ Drafted(d, c).cost = d.cost + c
           /\ Drafted(d, c).verdicts = d.verdicts
           /\ Drafted(d, c).drafts = d.drafts + 1
<1>1. Synthesizer \in Agents
  BY DEF Agents
<1> DEFINE e == AgentCompleted(d, Synthesizer, c)
<1>2. /\ e \in RunState /\ e.nodes = [d.nodes EXCEPT ![Synthesizer] = "done"]
      /\ e.status = d.status /\ e.cost = d.cost + c
      /\ e.verdicts = d.verdicts /\ e.drafts = d.drafts
  BY <1>1, Completes
<1>3. Drafted(d, c) = [e EXCEPT !.drafts = @ + 1]
  BY DEF Drafted
<1> HIDE DEF e
<1> QED
  BY <1>2, <1>3 DEF RunState

\* A verdict is a completed call of the critic and one verdict more.
LEMMA Judges ==
    ASSUME NEW d \in RunState, NEW b \in BOOLEAN, NEW c \in Nat
    PROVE  /\ CriticVerdict(d, b, c) \in RunState
           /\ CriticVerdict(d, b, c).nodes
                 = [d.nodes EXCEPT ![Critic] = "done",
                                   ![Synthesizer] = IF b THEN "idle" ELSE d.nodes[Synthesizer]]
           /\ CriticVerdict(d, b, c).status = d.status
           /\ CriticVerdict(d, b, c).cost = d.cost + c
           /\ CriticVerdict(d, b, c).verdicts = d.verdicts + 1
           /\ CriticVerdict(d, b, c).drafts = d.drafts
<1> DEFINE n == [d.nodes EXCEPT ![Critic] = "done",
                                ![Synthesizer] = IF b THEN "idle" ELSE d.nodes[Synthesizer]]
           e == [d EXCEPT !.cost = @ + c]
           f == [e EXCEPT !.verdicts = d.verdicts + 1]
<1>1. n \in [Agents -> NodeState]
  BY DEF RunState, NodeState, Agents
<1>2. CriticVerdict(d, b, c) = [f EXCEPT !.nodes = n]
  BY DEF CriticVerdict
<1> HIDE DEF n
<1>3. /\ e \in RunState /\ e.cost = d.cost + c
      /\ e.status = d.status /\ e.nodes = d.nodes
      /\ e.verdicts = d.verdicts /\ e.drafts = d.drafts
  BY DEF RunState
<1> HIDE DEF e
<1>4. /\ f \in RunState /\ f.cost = d.cost + c
      /\ f.status = d.status /\ f.nodes = d.nodes
      /\ f.verdicts = d.verdicts + 1 /\ f.drafts = d.drafts
  BY <1>3 DEF RunState
<1> HIDE DEF f
<1>5. /\ CriticVerdict(d, b, c) \in RunState
      /\ CriticVerdict(d, b, c).nodes = n
      /\ CriticVerdict(d, b, c).status = d.status
      /\ CriticVerdict(d, b, c).cost = d.cost + c
      /\ CriticVerdict(d, b, c).verdicts = d.verdicts + 1
      /\ CriticVerdict(d, b, c).drafts = d.drafts
  BY <1>1, <1>2, <1>4 DEF RunState
<1> QED
  BY <1>5 DEF n

\* The summary's cost takes the place of the sum.
LEMMA Publishes ==
    ASSUME NEW d \in RunState, NEW c \in Nat
    PROVE  /\ Completed(d, c) \in RunState
           /\ Completed(d, c).status = "complete" /\ Completed(d, c).cost = c
           /\ Completed(d, c).nodes = d.nodes
           /\ Completed(d, c).verdicts = d.verdicts /\ Completed(d, c).drafts = d.drafts
  BY DEF RunState, Completed, Statuses
-----------------------------------------------------------------------------
(* The run, seen from the console.                                         *)

\* A step of the page leaves the run alone, the others are its own.
LEMMA ViewStep == [ViewNext]_viewVars => [Next]_vars
<1> SUFFICES ASSUME [ViewNext]_viewVars PROVE [Next]_vars
  OBVIOUS
<1>1. CASE Admit \/ Shown \/ CloseRun \/ \E p \in Pillars : Research(p)
  BY <1>1 DEF Admit, Shown, CloseRun, Research, Next, Step
<1>2. CASE Refused \/ Ask \/ CutOff \/ BodyEnds \/ NewResearch \/ FormerEnds
  BY <1>2 DEF Refused, Ask, CutOff, BodyEnds, NewResearch, FormerEnds
<1>3. CASE UNCHANGED viewVars
  BY <1>3 DEF viewVars
<1> QED
  BY <1>1, <1>2, <1>3 DEF ViewNext, Served

\* So a watched run is a run.
LEMMA ViewRun == ViewSpec => Spec
<1>1. ViewInit => Init
  BY DEF ViewInit
<1> QED
  BY <1>1, ViewStep, PTL DEF ViewSpec, Spec

\* Only the collecting generator adds to the outputs.
LEMMA CollectedNext == IInv /\ Collected /\ [Next]_vars => Collected'
<1> SUFFICES ASSUME TypeOK, Collected, [Next]_vars PROVE Collected'
  BY DEF IInv
<1> USE DEF Collected, Early, Goto, run
<1>1. CASE \/ Create \/ Ground \/ FanOut \/ Announce \/ CollectFailure \/ Gathered \/ Score
           \/ Synthesize \/ Criticize \/ Accept \/ SendBack \/ Raise \/ Persist \/ FailReport
           \/ Commit("publishing", "completed") \/ Commit("raised", "failed")
  BY <1>1 DEF Create, Ground, FanOut, Announce, CollectFailure, Gathered, Score, Synthesize,
              Criticize, Accept, SendBack, Raise, Persist, FailReport, Commit
<1>2. CASE Revise \/ Close \/ \E p \in Pillars : Collect(p)
  BY <1>2 DEF Revise, AfterRevision, Close, Collect
<1>3. CASE UNCHANGED vars \/ \E p \in Pillars : TaskEnds(p)
  BY <1>3 DEF vars, TaskEnds
<1> QED
  BY <1>1, <1>2, <1>3 DEF Next, Step
-----------------------------------------------------------------------------
(* The initial states.                                                     *)

\* A page that has asked for nothing, whatever its last response did.
LEMMA ViewInitInv == ViewInit => VInv
<1> SUFFICES ASSUME ViewInit PROVE VInv
  OBVIOUS
<1>1. Init /\ IInv
  BY InitInv DEF ViewInit
<1>2. /\ Blank \in RunState /\ Blank.status = "idle"
      /\ \A s \in Statuses : Become(Blank, s) \in RunState /\ Become(Blank, s).status = s
  <2>1. Blank \in RunState
    BY DEF Blank, RunState, Statuses, NodeState
  <2> QED
    BY <2>1, Becomes DEF Blank
<1>3. DeskTyped /\ desk.status \notin {"running", "disconnected"}
  BY <1>2 DEF ViewInit, DeskTyped, Statuses
<1>4. Links /\ Collected /\ Crew /\ Tally
  BY <1>1, <1>3 DEF ViewInit, Init, Links, Collected, Crew, Tally, Watched
<1> QED
  BY <1>1, <1>3, <1>4 DEF VInv
-----------------------------------------------------------------------------
(* The steps of the page.                                                  *)

\* What the page and the network do closes the response or leaves the desk.
LEMMA PageNext ==
    ASSUME VInv, Refused \/ Ask \/ CutOff \/ BodyEnds \/ NewResearch \/ FormerEnds
    PROVE  DeskTyped' /\ Links' /\ Crew' /\ Tally'
<1>0. DeskTyped /\ Links /\ Crew /\ Tally
  BY DEF VInv
<1>1. /\ Blank \in RunState /\ Blank.status = "idle"
      /\ Become(Blank, "running") \in RunState /\ Become(Blank, "running").status = "running"
      /\ \A s \in Statuses : Become(desk, s) \in RunState /\ Become(desk, s).status = s
  <2>1. Blank \in RunState
    BY DEF Blank, RunState, Statuses, NodeState
  <2> QED
    BY <1>0, <2>1, Becomes DEF Blank, DeskTyped, Statuses
<1>2. link' # "open"
  BY <1>0 DEF Refused, Ask, CutOff, BodyEnds, NewResearch, FormerEnds, Links, Aborted
<1>3. UNCHANGED vars
  BY DEF Refused, Ask, CutOff, BodyEnds, NewResearch, FormerEnds
<1>4. Crew' /\ Tally'
  BY <1>2 DEF Crew, Tally, Watched
<1>5. DeskTyped' /\ Links'
  BY <1>0, <1>1, <1>2, <1>3
     DEF Refused, Ask, CutOff, BodyEnds, NewResearch, FormerEnds, Links, Watched,
         DeskTyped, Statuses, Aborted, Disconnected, vars, Tally, StatusOfRun
<1> QED
  BY <1>4, <1>5
-----------------------------------------------------------------------------
(* The steps of the run.                                                   *)

\* A run that is let in is shown on the page that asked for it, and on no other.
LEMMA AdmitNext ==
    ASSUME VInv, Admit
    PROVE  DeskTyped' /\ Links' /\ Crew' /\ Tally'
<1>0. IInv /\ DeskTyped /\ Links /\ Crew /\ Tally /\ Collected
  BY DEF VInv
<1>1. /\ pc = "start" /\ pc' = "grounding" /\ UNCHANGED <<desk, former>>
      /\ UNCHANGED <<outputs, traces, traceCost, embedding, reviewed>>
      /\ link \in {"asked", "cut"} /\ link' = IF link = "asked" THEN "open" ELSE link
  BY DEF Admit, Create, Goto, run, money
<1>2. outputs = {} /\ traceCost = 0 /\ \A ph \in Phases : traces[ph] = 0
  <2>1. outputs = {} /\ traces["research"] = 0
    BY <1>0, <1>1, FS_EmptySet DEF Collected, Early, IInv, Path, Unscored
  <2>2. traceCost = 0
    BY <1>0, <1>1 DEF IInv, Accounts, Spend, TypeOK
  <2> QED
    BY <1>0, <1>1, <2>1, <2>2 DEF IInv, Path, Unscored, Phases
<1>3. link = "asked" => /\ desk.status = "running" /\ desk.cost = 0
                        /\ desk.verdicts = 0 /\ desk.drafts = 0
                        /\ \A a \in Agents : desk.nodes[a] = "idle"
  <2>1. Blank \in RunState
    BY DEF Blank, RunState, Statuses, NodeState
  <2> QED
    BY <1>0, <2>1, Becomes DEF Links, Blank, Statuses
<1>4. DeskTyped' /\ Links'
  BY <1>0, <1>1, <1>3 DEF DeskTyped, Links, Watched
<1>5. Crew' /\ Tally'
  <2> SUFFICES ASSUME link' = "open" PROVE Crew' /\ Tally'
    BY DEF Crew, Tally, Watched
  <2>1. link = "asked"
    BY <1>1
  <2>2. Crew'
    BY <1>1, <1>2, <1>3, <2>1 DEF Crew, AtDesk, Live, Agents
  <2>3. Tally'
    BY <1>1, <1>2, <1>3, <2>1 DEF Tally, StatusOfRun, Phases
  <2> QED
    BY <2>2, <2>3
<1> QED
  BY <1>4, <1>5

\* A closed run is never shown as going on.
LEMMA CloseNext ==
    ASSUME VInv, CloseRun
    PROVE  DeskTyped' /\ Links' /\ Crew' /\ Tally'
<1>0. DeskTyped /\ Links
  BY DEF VInv
<1>1. /\ pc \in Abortable /\ pc' \in {"closed", "orphaned"} /\ UNCHANGED former
      /\ link' # "open" /\ link' \in {link, "cut"}
      /\ link = "open" => link' = "cut"
      /\ desk' \in {desk, Become(desk, "error")}
  BY DEF CloseRun, Close
<1>2. desk' \in RunState /\ desk'.status \in {desk.status, "error"}
  BY <1>0, <1>1, Becomes DEF DeskTyped, Statuses
<1> QED
  BY <1>0, <1>1, <1>2 DEF DeskTyped, Links, Abortable, Crew, Tally, Watched

\* A specialist at work changes nothing that is shown.
LEMMA ResearchNext ==
    ASSUME VInv, NEW p \in Pillars, Research(p)
    PROVE  DeskTyped' /\ Links' /\ Crew' /\ Tally'
<1>1. UNCHANGED <<pc, outputs, reviewed, embedding, traces, traceCost, page>>
  BY DEF Research, TaskEnds, run, money
<1> QED
  BY <1>1 DEF page, VInv, DeskTyped, Links, Crew, Tally, Watched, AtDesk, Live, StatusOfRun

\* What is shown of a run leaves the page's requests as they are.
LEMMA ShownLinks ==
    ASSUME VInv, Shown, DeskTyped', Tally'
    PROVE  Links'
<1>0. DeskTyped /\ Links
  BY DEF VInv
<1>1. UNCHANGED <<link, former>> /\ (link # "open" => desk' = desk)
  BY DEF Shown, Show
<1>2. pc # "start" /\ pc' \notin {"start", "closed", "orphaned"}
  BY DEF Shown, Goto, Ground, FanOut, CollectFailure, Gathered, Accept, Raise, Announce,
         Collect, Score, Synthesize, Criticize, SendBack, Revise, AfterRevision, Persist,
         FailReport, Commit
<1>3. link' = "open" => desk'.status # "disconnected"
  BY <1>2 DEF Tally, Watched, StatusOfRun
<1> QED
  BY <1>0, <1>1, <1>2, <1>3 DEF Links, Watched

\* A step that is not shown.
LEMMA UnwatchedNext ==
    ASSUME VInv, Shown, link # "open"
    PROVE  DeskTyped' /\ Crew' /\ Tally'
<1>1. UNCHANGED page
  BY DEF Shown, Show, page
<1> QED
  BY <1>1 DEF page, VInv, DeskTyped, Crew, Tally, Watched

\* A step that is shown: what the desk is told is what the run did.
LEMMA WatchedNext ==
    ASSUME VInv, IInv', Shown, link = "open"
    PROVE  DeskTyped' /\ Crew' /\ Tally'
<1>0. /\ TypeOK /\ Path /\ Accounts /\ Collected /\ TypeOK'
      /\ desk \in RunState
      /\ \A p \in Pillars : desk.nodes[p] = "done" <=> p \in outputs
      /\ pc \in Live => \A a \in Agents : desk.nodes[a] = "working" <=> a \in AtDesk
      /\ desk.status = StatusOfRun
      /\ desk.verdicts = traces["critique"]
      /\ desk.drafts = traces["synthesis"] + traces["revision"]
      /\ desk.cost = traceCost + (IF desk.status = "complete" THEN embedding ELSE 0)
      /\ desk.status = "complete" => desk.drafts = reviewed + 1
      /\ link \in {"none", "asked", "open", "ended", "refused", "cut", "aborted"}
      /\ former \in {"none", "open", "aborted"}
  BY DEF VInv, IInv, DeskTyped, Crew, Tally, Watched
<1>n. /\ Synthesizer \in Agents /\ Critic \in Agents /\ Pillars \subseteq Agents
      /\ Synthesizer \notin Pillars /\ Critic \notin Pillars /\ Synthesizer # Critic
      /\ \A a \in Agents : a \in Pillars \/ a = Synthesizer \/ a = Critic
      /\ desk.nodes \in [Agents -> NodeState]
  BY <1>0, AgentNames DEF Agents, RunState
<1> DEFINE Staff == /\ \A p \in Pillars : desk'.nodes[p] = "done" <=> p \in outputs'
                    /\ pc' \in Live =>
                          \A a \in Agents : desk'.nodes[a] = "working" <=> a \in AtDesk'
           Books == /\ desk' \in RunState /\ link' = link /\ former' = former
                    /\ desk'.status = StatusOfRun'
                    /\ desk'.verdicts = traces'["critique"]
                    /\ desk'.drafts = traces'["synthesis"] + traces'["revision"]
                    /\ desk'.cost = traceCost'
                                    + (IF desk'.status = "complete" THEN embedding' ELSE 0)
                    /\ desk'.status = "complete" => desk'.drafts = reviewed' + 1
<1>q. Staff /\ Books => DeskTyped' /\ Crew' /\ Tally'
  BY <1>0 DEF DeskTyped, Crew, Tally, Watched
<1>s. \A d : Show(d) => desk' = d /\ link' = link /\ former' = former
  BY DEF Show
<1> USE DEF StatusOfRun, AtDesk, Live
<1>1. CASE Show(desk) /\ (Ground \/ FanOut \/ CollectFailure \/ Gathered \/ Accept \/ Raise)
  <2>1. /\ desk' = desk /\ UNCHANGED <<link, former, outputs, reviewed, traces, traceCost>>
        /\ desk.status = "running"
        /\ <<pc, pc'>> \in ({<<"grounding", "grounded">>, <<"grounded", "announcing">>,
                              <<"verdict", "persisting">>}
                             \cup ({"collecting", "cancelling", "synthesis", "critique", "revision"}
                                   \X {"cancelling", "failing"}))
    BY <1>0, <1>1, <1>s DEF Ground, FanOut, CollectFailure, Gathered, Accept, Raise, Goto, run, money
  <2>2. Staff
    BY <1>0, <2>1
  <2>3. Books
    BY <1>0, <2>1
  <2> QED
    BY <1>q, <2>2, <2>3
<1>2. CASE Announce /\ Show(AgentsStarted(desk, Pillars))
  <2>1. /\ desk' = AgentsStarted(desk, Pillars) /\ pc = "announcing" /\ pc' = "collecting"
        /\ UNCHANGED <<link, former, outputs, reviewed, traces, traceCost, embedding>>
        /\ outputs = {}
    BY <1>0, <1>2, <1>s DEF Announce, Goto, run, money, Collected, Early
  <2>2. /\ desk' \in RunState /\ desk'.status = desk.status /\ desk'.cost = desk.cost
        /\ desk'.nodes = [a \in Agents |-> IF a \in Pillars THEN "working" ELSE desk.nodes[a]]
        /\ desk'.verdicts = desk.verdicts /\ desk'.drafts = desk.drafts
    BY <1>0, <1>n, <2>1, Starts
  <2>3. AtDesk = {} /\ AtDesk' = Pillars /\ pc \in Live
    BY <2>1
  <2>4. Staff
    BY <1>0, <1>n, <2>1, <2>2, <2>3
  <2>5. Books
    BY <1>0, <2>1, <2>2
  <2> QED
    BY <1>q, <2>4, <2>5
<1>3. ASSUME NEW p \in Pillars, Collect(p), Show(AgentCompleted(desk, p, Cost)) PROVE Staff /\ Books
  <2>1. /\ desk' = AgentCompleted(desk, p, Cost) /\ pc = "collecting" /\ pc' = "collecting"
        /\ UNCHANGED <<link, former, reviewed, embedding>>
        /\ outputs' = outputs \cup {p}
        /\ traces' = [traces EXCEPT !["research"] = @ + 1] /\ traceCost' = traceCost + bill[p]
        /\ Cost = bill[p] /\ bill[p] \in Nat /\ traceCost \in Nat
    BY <1>0, <1>3, <1>s DEF Collect, Record, Goto, Cost, TypeOK
  <2>2. /\ traces'["critique"] = traces["critique"] /\ traces'["synthesis"] = traces["synthesis"]
        /\ traces'["revision"] = traces["revision"]
    BY <1>0, <2>1 DEF TypeOK, Phases
  <2>3. /\ desk' \in RunState /\ desk'.status = desk.status /\ desk'.cost = desk.cost + bill[p]
        /\ desk'.nodes = [desk.nodes EXCEPT ![p] = "done"]
        /\ desk'.verdicts = desk.verdicts /\ desk'.drafts = desk.drafts
    BY <1>0, <1>n, <2>1, Completes
  <2>4. AtDesk = Pillars \ outputs /\ AtDesk' = Pillars \ outputs' /\ pc \in Live
    BY <2>1
  <2>5. Staff
    BY <1>0, <1>n, <2>1, <2>3, <2>4
  <2>6. Books
    BY <1>0, <2>1, <2>2, <2>3
  <2> QED
    BY <2>5, <2>6
<1>4. CASE Score /\ Show(AgentsStarted(desk, {Synthesizer}))
  <2>1. /\ desk' = AgentsStarted(desk, {Synthesizer}) /\ pc = "collecting" /\ pc' = "synthesis"
        /\ UNCHANGED <<link, former, outputs, reviewed, traces, traceCost, embedding>>
        /\ outputs = Pillars
    BY <1>0, <1>4, <1>s DEF Score, Goto, run, money
  <2>2. /\ desk' \in RunState /\ desk'.status = desk.status /\ desk'.cost = desk.cost
        /\ desk'.nodes = [a \in Agents |-> IF a \in {Synthesizer} THEN "working" ELSE desk.nodes[a]]
        /\ desk'.verdicts = desk.verdicts /\ desk'.drafts = desk.drafts
    BY <1>0, <1>n, <2>1, Starts
  <2>3. AtDesk = {} /\ AtDesk' = {Synthesizer} /\ pc \in Live
    BY <2>1
  <2>4. Staff
    BY <1>0, <1>n, <2>1, <2>2, <2>3
  <2>5. Books
    BY <1>0, <2>1, <2>2
  <2> QED
    BY <1>q, <2>4, <2>5
<1>5. ASSUME NEW c \in Costs, pc \in {"synthesis", "revision"}, pc' = "critique",
             Record(pc, c), Show(AgentsStarted(Drafted(desk, Cost), {Critic})),
             UNCHANGED <<outputs, embedding>>
      PROVE  Staff /\ Books
  <2> DEFINE e == Drafted(desk, c)
  <2>1. /\ desk' = AgentsStarted(e, {Critic}) /\ UNCHANGED <<link, former, outputs, embedding>>
        /\ traces' = [traces EXCEPT ![pc] = @ + 1] /\ traceCost' = traceCost + c
        /\ c \in Nat /\ traceCost \in Nat
    <3>1. c \in Nat
      BY RunConstants
    <3>2. Cost = c
      BY <1>0, <1>5, <3>1 DEF Record, Cost, TypeOK
    <3> QED
      BY <1>0, <1>5, <1>s, <3>1, <3>2 DEF Record, TypeOK
  <2>2. /\ e \in RunState /\ e.status = desk.status /\ e.cost = desk.cost + c
        /\ e.nodes = [desk.nodes EXCEPT ![Synthesizer] = "done"]
        /\ e.verdicts = desk.verdicts /\ e.drafts = desk.drafts + 1
    BY <1>0, <2>1, Drafts
  <2> HIDE DEF e
  <2>3. /\ desk' \in RunState /\ desk'.status = desk.status /\ desk'.cost = desk.cost + c
        /\ desk'.nodes = [a \in Agents |-> IF a \in {Critic} THEN "working" ELSE e.nodes[a]]
        /\ desk'.verdicts = desk.verdicts /\ desk'.drafts = desk.drafts + 1
    BY <1>n, <2>1, <2>2, Starts
  <2>4. /\ traces'["critique"] = traces["critique"]
        /\ traces'["synthesis"] + traces'["revision"]
              = traces["synthesis"] + traces["revision"] + 1
    BY <1>0, <1>5, <2>1 DEF TypeOK, Phases
  <2>5. AtDesk = {Synthesizer} /\ AtDesk' = {Critic} /\ pc \in Live
    BY <1>5
  <2>6. outputs = Pillars
    BY <1>0, <1>5 DEF Path, Synthesis
  <2>7. \A a \in Agents : desk'.nodes[a] = IF a = Critic THEN "working"
                                           ELSE IF a = Synthesizer THEN "done"
                                           ELSE desk.nodes[a]
    BY <1>n, <2>2, <2>3
  <2>8. \A p \in Pillars : desk'.nodes[p] = desk.nodes[p]
    BY <1>n, <2>7
  <2>9. \A a \in Agents : desk.nodes[a] = "working" <=> a = Synthesizer
    BY <1>0, <2>5
  <2> HIDE DEF StatusOfRun, AtDesk, Live
  <2>10. Staff
    BY <1>0, <1>n, <2>1, <2>5, <2>7, <2>8, <2>9
  <2> USE DEF StatusOfRun
  <2>11. Books
    BY <1>0, <1>5, <2>1, <2>3, <2>4
  <2> QED
    BY <2>10, <2>11
<1>6. CASE Synthesize /\ Show(AgentsStarted(Drafted(desk, Cost), {Critic}))
  <2>1. PICK c \in Costs : Record("synthesis", c)
    BY <1>6 DEF Synthesize
  <2>2. /\ pc = "synthesis" /\ pc' = "critique" /\ UNCHANGED <<outputs, embedding>>
        /\ Show(AgentsStarted(Drafted(desk, Cost), {Critic}))
    BY <1>6 DEF Synthesize, Goto, run
  <2> QED
    BY <1>5, <1>q, <2>1, <2>2
<1>7. CASE Revise /\ Show(AgentsStarted(Drafted(desk, Cost), {Critic}))
  <2>1. PICK c \in Costs : Record("revision", c)
    BY <1>7 DEF Revise
  <2>2. /\ pc = "revision" /\ pc' = "critique" /\ UNCHANGED <<outputs, embedding>>
        /\ Show(AgentsStarted(Drafted(desk, Cost), {Critic}))
    BY <1>7 DEF Revise, Goto, AfterRevision
  <2> QED
    BY <1>5, <1>q, <2>1, <2>2
<1>8. CASE Criticize /\ Show(CriticVerdict(desk, blocked', Cost))
  <2>1. PICK c \in Costs : Record("critique", c)
    BY <1>8 DEF Criticize
  <2>2. /\ c \in Nat /\ traceCost \in Nat /\ Cost = c /\ traceCost' = traceCost + c
        /\ traces' = [traces EXCEPT !["critique"] = @ + 1]
    BY <1>0, <2>1, RunConstants DEF Record, Cost, TypeOK
  <2>3. /\ pc = "critique" /\ pc' = "verdict" /\ blocked' \in BOOLEAN
        /\ UNCHANGED <<link, former, outputs, embedding>>
        /\ desk' = CriticVerdict(desk, blocked', c)
    BY <1>8, <1>s, <2>2 DEF Criticize, Goto
  <2>4. /\ traces'["critique"] = traces["critique"] + 1
        /\ traces'["synthesis"] = traces["synthesis"] /\ traces'["revision"] = traces["revision"]
    BY <1>0, <2>2 DEF TypeOK, Phases
  <2>5. /\ desk' \in RunState /\ desk'.status = desk.status /\ desk'.cost = desk.cost + c
        /\ desk'.nodes = [desk.nodes EXCEPT ![Critic] = "done",
                                   ![Synthesizer] = IF blocked' THEN "idle"
                                                    ELSE desk.nodes[Synthesizer]]
        /\ desk'.verdicts = desk.verdicts + 1 /\ desk'.drafts = desk.drafts
    BY <1>0, <2>2, <2>3, Judges
  <2>6. AtDesk = {Critic} /\ AtDesk' = {} /\ pc \in Live
    BY <1>n, <2>3
  <2>7. Staff
    BY <1>0, <1>n, <2>3, <2>5, <2>6
  <2>8. Books
    BY <1>0, <2>2, <2>3, <2>4, <2>5
  <2> QED
    BY <1>q, <2>7, <2>8
<1>9. CASE SendBack /\ Show(AgentsStarted(desk, {Synthesizer}))
  <2>1. /\ desk' = AgentsStarted(desk, {Synthesizer}) /\ pc = "verdict" /\ pc' = "revision"
        /\ UNCHANGED <<link, former, outputs, reviewed, traces, traceCost, embedding>>
    BY <1>9, <1>s DEF SendBack, Goto, money
  <2>2. /\ desk' \in RunState /\ desk'.status = desk.status /\ desk'.cost = desk.cost
        /\ desk'.nodes = [a \in Agents |-> IF a \in {Synthesizer} THEN "working" ELSE desk.nodes[a]]
        /\ desk'.verdicts = desk.verdicts /\ desk'.drafts = desk.drafts
    BY <1>0, <1>n, <2>1, Starts
  <2>3. AtDesk = {} /\ AtDesk' = {Synthesizer} /\ pc \in Live
    BY <2>1
  <2>4. Staff
    BY <1>0, <1>n, <2>1, <2>2, <2>3
  <2>5. Books
    BY <1>0, <2>1, <2>2
  <2> QED
    BY <1>q, <2>4, <2>5
<1>10. CASE Persist /\ Show(Completed(desk, total_cost))
  <2>1. /\ desk' = Completed(desk, total_cost) /\ pc = "persisting" /\ pc' = "publishing"
        /\ UNCHANGED <<link, former, outputs, reviewed, traces, traceCost, embedding>>
    BY <1>10, <1>s DEF Persist, Goto, run, money
  <2>2. /\ total_cost \in Nat /\ total_cost = traceCost + embedding
        /\ traces["synthesis"] + traces["revision"] = reviewed + 1
    BY <1>0, <2>1 DEF TypeOK, Accounts, Path, Told, Reviewed
  <2>3. Staff
    BY <1>0, <2>1, <2>2, Publishes
  <2>4. Books
    BY <1>0, <2>1, <2>2, Publishes
  <2> QED
    BY <1>q, <2>3, <2>4
<1>11. CASE FailReport /\ Show(Become(desk, "error"))
  <2>1. /\ desk' = Become(desk, "error") /\ pc = "failing" /\ pc' = "raised"
        /\ UNCHANGED <<link, former, outputs, reviewed, traces, traceCost, embedding>>
    BY <1>11, <1>s DEF FailReport, Goto, run, money
  <2>2. Staff
    BY <1>0, <2>1, Becomes DEF Statuses
  <2>3. Books
    BY <1>0, <2>1, Becomes DEF Statuses
  <2> QED
    BY <1>q, <2>2, <2>3
<1>12. CASE (Commit("publishing", "completed") \/ Commit("raised", "failed")) /\ Show(desk)
  <2>1. /\ desk' = desk
        /\ UNCHANGED <<link, former, outputs, reviewed, traces, traceCost, embedding>>
        /\ <<pc, pc'>> \in {<<"publishing", "completed">>, <<"raised", "failed">>}
    BY <1>12, <1>s DEF Commit, Goto, run, money
  <2>2. Staff
    BY <1>0, <2>1
  <2>3. Books
    BY <1>0, <2>1
  <2> QED
    BY <1>q, <2>2, <2>3
<1> QED
  BY <1>1, <1>2, <1>3, <1>4, <1>6, <1>7, <1>8, <1>9, <1>10, <1>11, <1>12, <1>q DEF Shown
-----------------------------------------------------------------------------
(* The results.                                                            *)

\* Every step keeps the invariant.
LEMMA ViewNextInv == VInv /\ [ViewNext]_viewVars => VInv'
<1> SUFFICES ASSUME VInv, [ViewNext]_viewVars PROVE VInv'
  OBVIOUS
<1>1. IInv' /\ Collected'
  BY ViewStep, NextInv, CollectedNext DEF VInv
<1>2. CASE Shown
  BY <1>1, <1>2, WatchedNext, UnwatchedNext, ShownLinks DEF VInv
<1>3. CASE Admit \/ CloseRun \/ \E p \in Pillars : Research(p)
  BY <1>1, <1>3, AdmitNext, CloseNext, ResearchNext DEF VInv
<1>4. CASE Refused \/ Ask \/ CutOff \/ BodyEnds \/ NewResearch \/ FormerEnds
  BY <1>1, <1>4, PageNext DEF VInv
<1>5. CASE UNCHANGED viewVars
  BY <1>1, <1>5 DEF viewVars, vars, page, VInv, DeskTyped, Links, Crew, Tally, Watched,
                    AtDesk, Live, StatusOfRun
<1> QED
  BY <1>2, <1>3, <1>4, <1>5 DEF ViewNext, Served

\* While the response is open the desk shows this run's status, calls, cost, verdicts,
\* drafts and agents at work, and no inline run is shown as going on without its
\* connection, whatever aborts, breaks and former responses come in between.
THEOREM DeskIsTrue == ViewSpec => []DeskInv
<1>1. VInv => DeskInv
  <2> SUFFICES ASSUME VInv PROVE DeskInv
    OBVIOUS
  <2>1. desk \in RunState /\ DeskTyped /\ desk.status # "disconnected" /\ outputs \subseteq Pillars
    BY DEF VInv, Links, DeskTyped, IInv, TypeOK
  <2>2. ASSUME link = "open" PROVE Nodes("done") \cap Pillars = outputs
    BY <2>1, <2>2 DEF VInv, Crew, Watched, Nodes, Agents
  <2>3. ASSUME link = "open", pc \in Live PROVE Nodes("working") = AtDesk
    <3>1. AtDesk \subseteq Agents
      BY DEF AtDesk, Agents
    <3> QED
      BY <2>1, <2>3, <3>1 DEF VInv, Crew, Watched, Nodes
  <2>4. DeskTellsRun
    BY <2>2, <2>3 DEF VInv, Tally, Watched, DeskTellsRun, Live, AtDesk
  <2> QED
    BY <2>1, <2>4 DEF DeskInv
<1> QED
  BY <1>1, ViewInitInv, ViewNextInv, PTL DEF ViewSpec

\* The page in front of a run adds nothing to what the run can do: the run's
\* invariants hold of it, and its row still implements the life cycle.
THEOREM WatchedRunIsSound ==
    ViewSpec => [](RunInv /\ SpendBounded /\ NoAgentOutlivesRun) /\ ImplementsLifecycle
  BY ViewRun, TracesTell, SpendIsBounded, NoAgentOutlives, LifecycleImplemented, PTL
=============================================================================
