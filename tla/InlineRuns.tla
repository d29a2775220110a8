---------------------------- MODULE InlineRuns ----------------------------
(***************************************************************************)
(* Research runs executed inside the API process (queue disabled):         *)
(* POST /api/research ("sync"), POST /api/research/stream ("stream"), and  *)
(* the runs the chat assistant starts in the background ("chat").  They    *)
(* share one RunGate in memory, the usage counters in the database (one    *)
(* atomic step here; module Quota has the locking), and the report row     *)
(* each run creates.  A run itself is abstracted to completing or failing  *)
(* (module ResearchRun has its steps).                                     *)
(*                                                                         *)
(* dirty[r] is the status the run's session has flushed and not committed. *)
(***************************************************************************)
EXTENDS Naturals, FiniteSets

CONSTANTS Requests,          \* calls that start a run
          Users,
          Kind,              \* [Requests -> {"sync", "stream", "chat"}]
          Caller,            \* [Requests -> Users]
          Limit,             \* [Users -> Nat]: runs their plan includes
          NewThisMonth,      \* users without a counter row yet
          Capacity,          \* settings.max_concurrent_runs
          EarlyDisconnects,  \* may a client leave before its stream starts?
          CrashBound         \* bound: restarts of the API process

ASSUME InlineConstants ==
    /\ IsFiniteSet(Requests)
    /\ Kind \in [Requests -> {"sync", "stream", "chat"}]
    /\ Caller \in [Requests -> Users]
    /\ Limit \in [Users -> Nat]
    /\ NewThisMonth \subseteq Users
    /\ Capacity \in Nat
    /\ EarlyDisconnects \in BOOLEAN
    /\ CrashBound \in Nat

VARIABLES active,    \* RunGate.active
          counters,  \* users whose counter row exists
          drawn,     \* requests that drew a run from their user's counter
          pc,
          expired,   \* requests whose rollback expired the loaded user object
          row,       \* committed status of the run's report
          dirty,     \* its uncommitted status
          crashes

vars == <<active, counters, drawn, pc, expired, row, dirty, crashes>>

Gated(r) == Kind[r] # "chat"

Drawing == {"selecting", "counting", "inserting"}
Working == {"running", "failing", "publishing"}
Live    == Drawing \cup Working \cup {"paid", "responding", "abandoned"}
States  == Live \cup {"new", "busy", "overquota", "broke", "vanished", "left",
                      "done", "failed", "lost"}
Statuses == {"none", "running", "complete", "failed"}

TypeOK == /\ active \in 0 .. Cardinality(Requests)
          /\ counters \subseteq Users
          /\ drawn \subseteq Requests
          /\ pc \in [Requests -> States]
          /\ expired \subseteq Requests
          /\ row \in [Requests -> Statuses]
          /\ dirty \in [Requests -> Statuses]
          /\ crashes \in 0 .. CrashBound

Init == /\ active = 0
        /\ counters = Users \ NewThisMonth
        /\ drawn = {}
        /\ pc = [r \in Requests |-> "new"]
        /\ expired = {}
        /\ row = [r \in Requests |-> "none"]
        /\ dirty = [r \in Requests |-> "none"]
        /\ crashes = 0

Goto(r, to) == pc' = [pc EXCEPT ![r] = to]

Used(u) == Cardinality({r \in drawn : Caller[r] = u})

\* Plausible bugs, each a variant of the operator that follows it.
Full_OffByOne     == active > Capacity
Freed_Twice       == IF active < 2 THEN 0 ELSE active - 2
OnRefusal_Leak(r) == active
OnRefusal_All(r)  == active - 1
OnReturn_Free(r)  == IF Gated(r) THEN active - 1 ELSE active   \* finally around the endpoint
Stored_Never(r)   == IF dirty[r] = "failed" THEN row[r] ELSE dirty[r]

\* RunGate: acquire turns a caller away when full, release is clamped at 0.
Full  == active >= Capacity
Freed == IF active = 0 THEN 0 ELSE active - 1

\* Every exit of a gated endpoint before its run releases the slot ...
OnRefusal(r) == IF Gated(r) THEN Freed ELSE active

\* ... returning a StreamingResponse does not: its generator will.
OnReturn(r) == active

\* A stream and a background run commit what their pipeline flushed, also after
\* a failure.  The sync endpoint re-raises, and get_db rolls the failure back.
Stored(r) == IF Kind[r] = "sync" /\ dirty[r] = "failed" THEN row[r] ELSE dirty[r]
-----------------------------------------------------------------------------
(* The endpoint, up to the run.                                            *)

Admit(r) ==
    /\ pc[r] = "new"
    /\ Gated(r) => ~Full
    /\ active' = IF Gated(r) THEN active + 1 ELSE active
    /\ Goto(r, "selecting")
    /\ UNCHANGED <<counters, drawn, expired, row, dirty, crashes>>

\* A caller whose quota is drawn before the gate is asked (a plausible bug).
TurnAway_AfterQuota(r) ==
    /\ pc[r] = "new" /\ Gated(r) /\ Full
    /\ drawn' = drawn \cup {r}
    /\ Goto(r, "busy")
    /\ UNCHANGED <<active, counters, expired, row, dirty, crashes>>

\* 503 + Retry-After: gate before quota, so nothing is drawn.
TurnAway(r) ==
    /\ pc[r] = "new" /\ Gated(r) /\ Full
    /\ Goto(r, "busy")
    /\ UNCHANGED <<active, counters, drawn, expired, row, dirty, crashes>>

\* _locked_counter's first SELECT.
FindCounter(r) ==
    /\ pc[r] = "selecting"
    /\ Goto(r, IF Caller[r] \in counters THEN "counting" ELSE "inserting")
    /\ UNCHANGED <<active, counters, drawn, expired, row, dirty, crashes>>

\* An insert that meets a row committed meanwhile is rolled back, and the
\* rollback expires the user object the endpoint goes on to use.
Races(r) == pc[r] = "inserting" /\ Caller[r] \in counters

\* check_and_reserve_run succeeds and commits.
Draw(r) ==
    /\ pc[r] \in {"counting", "inserting"}
    /\ Used(Caller[r]) < Limit[Caller[r]]
    /\ drawn' = drawn \cup {r}
    /\ counters' = counters \cup {Caller[r]}
    /\ expired' = IF Races(r) THEN expired \cup {r} ELSE expired
    /\ Goto(r, "paid")
    /\ UNCHANGED <<active, row, dirty, crashes>>

\* 402 (402 or 500 for the loser of the race): nothing drawn, the slot given back.
OverQuota(r) ==
    /\ pc[r] \in {"counting", "inserting"}
    /\ Used(Caller[r]) >= Limit[Caller[r]]
    /\ active' = OnRefusal(r)
    /\ Goto(r, "overquota")
    /\ UNCHANGED <<counters, drawn, expired, row, dirty, crashes>>

\* user.id on an expired object raises; only the sync endpoint is inside a
\* try/finally at that point.  The chat tool kept the id in a local variable.
Break(r) ==
    /\ pc[r] = "paid" /\ Gated(r) /\ r \in expired
    /\ active' = IF Kind[r] = "sync" THEN Freed ELSE active
    /\ Goto(r, "broke")
    /\ UNCHANGED <<counters, drawn, expired, row, dirty, crashes>>

\* The sync run starts in the request, the background run as a task.
Start(r) ==
    /\ pc[r] = "paid"
    /\ \/ Kind[r] = "sync" /\ r \notin expired
       \/ Kind[r] = "chat"
    /\ row' = [row EXCEPT ![r] = "running"]
    /\ Goto(r, "running")
    /\ UNCHANGED <<active, counters, drawn, expired, dirty, crashes>>

\* The stream endpoint returns its response object.
Return(r) ==
    /\ pc[r] = "paid" /\ Kind[r] = "stream" /\ r \notin expired
    /\ active' = OnReturn(r)
    /\ Goto(r, "responding")
    /\ UNCHANGED <<counters, drawn, expired, row, dirty, crashes>>

\* The server starts iterating the generator, which starts the run.
Iterate(r) ==
    /\ pc[r] = "responding"
    /\ row' = [row EXCEPT ![r] = "running"]
    /\ Goto(r, "running")
    /\ UNCHANGED <<active, counters, drawn, expired, dirty, crashes>>

\* The client is gone by then: the generator is never started, so the finally
\* that releases the slot never runs.
Vanish(r) ==
    /\ EarlyDisconnects
    /\ pc[r] = "responding"
    /\ Goto(r, "vanished")
    /\ UNCHANGED <<active, counters, drawn, expired, row, dirty, crashes>>
-----------------------------------------------------------------------------
(* The run.                                                                *)

\* The pipeline flushes its outcome; the sync endpoint's finally releases the
\* slot as the pipeline returns or raises.
Finish(r, status, next) ==
    /\ pc[r] = "running"
    /\ dirty' = [dirty EXCEPT ![r] = status]
    /\ active' = IF Kind[r] = "sync" THEN Freed ELSE active
    /\ Goto(r, next)
    /\ UNCHANGED <<counters, drawn, expired, row, crashes>>

Complete(r) == Finish(r, "complete", "publishing")
Fail(r)     == Finish(r, "failed", "failing")

\* The session that ran the pipeline is closed and the caller has its answer.
Settle(r) ==
    /\ pc[r] \in {"publishing", "failing"}
    /\ row' = [row EXCEPT ![r] = Stored(r)]
    /\ dirty' = [dirty EXCEPT ![r] = "none"]
    /\ active' = IF Kind[r] = "stream" THEN Freed ELSE active
    /\ Goto(r, IF pc[r] = "publishing" THEN "done" ELSE "failed")
    /\ UNCHANGED <<counters, drawn, expired, crashes>>

\* The client of a started stream leaves: what the session flushed is lost.
Leave(r) ==
    /\ Kind[r] = "stream" /\ pc[r] \in Working
    /\ dirty' = [dirty EXCEPT ![r] = "none"]
    /\ Goto(r, "abandoned")
    /\ UNCHANGED <<active, counters, drawn, expired, row, crashes>>

\* Cancellation or the event loop's finalizer closes the started generator.
Close(r) ==
    /\ pc[r] = "abandoned"
    /\ active' = Freed
    /\ Goto(r, "left")
    /\ UNCHANGED <<counters, drawn, expired, row, dirty, crashes>>

\* The API process dies and comes back: the gate is memory, rows are not.
Crash ==
    /\ crashes < CrashBound
    /\ crashes' = crashes + 1
    /\ active' = 0
    /\ pc' = [r \in Requests |-> IF pc[r] \in Live \cup {"vanished"} THEN "lost" ELSE pc[r]]
    /\ dirty' = [r \in Requests |-> "none"]
    /\ UNCHANGED <<counters, drawn, expired, row>>

Step(r) == \/ FindCounter(r) \/ Draw(r) \/ OverQuota(r)
           \/ Break(r) \/ Start(r) \/ Return(r) \/ Iterate(r)
           \/ Complete(r) \/ Fail(r) \/ Settle(r) \/ Close(r)

Next == \/ \E r \in Requests : Admit(r) \/ TurnAway(r) \/ Step(r) \/ Vanish(r) \/ Leave(r)
        \/ Crash

Spec == Init /\ [][Next]_vars

\* The event loop keeps running every admitted request: agent calls time out
\* (traced_run), so a run ends, and abandoned generators are closed.
FairSpec == Spec /\ \A r \in Requests : WF_vars(Step(r))
-----------------------------------------------------------------------------
(* Properties.                                                             *)

\* Admitted requests still at work (a sync run has released before its commit).
AtWork == {r \in Requests :
              /\ Gated(r) /\ pc[r] \in Live
              /\ ~(Kind[r] = "sync" /\ pc[r] \in {"failing", "publishing"})}

\* "Raised by RunGate when all run slots are busy": the gate's count is the
\* number of admitted requests still at work, on every path through the
\* endpoints (refusal, failure, disconnect, restart).
BusyMeansRunning == active = Cardinality(AtWork)

\* Under every fault, a departure before the stream starts and the counter race
\* included, no exit frees a slot twice (the clamp in release would hide it) and
\* only those two leak one: what the gate loses is at most one slot per such request
\* until a restart, and the runs that passed it are never more than
\* MAX_CONCURRENT_RUNS ("capped at MAX_CONCURRENT_RUNS parallel runs").
Leaking   == {r \in Requests : Kind[r] = "stream" /\ pc[r] \in {"vanished", "broke"}}
Executing == {r \in Requests : pc[r] \in {"running", "abandoned"}}
SlotsAccountedFor ==
    /\ active \in Cardinality(AtWork) .. Cardinality(AtWork) + Cardinality(Leaking)
    /\ Cardinality({r \in Executing : Gated(r)}) <= Capacity

\* The endpoints' state is typed, and the slots are accounted for.
GateInv == TypeOK /\ SlotsAccountedFor

\* Every run that exists was drawn from its caller's quota, and a caller turned
\* away, at capacity or over quota, drew nothing, restarts included.
PaidIffAdmitted ==
    \A r \in Requests : /\ row[r] # "none" => r \in drawn
                        /\ pc[r] \in {"busy", "overquota"} => r \notin drawn

\* What a streaming caller is told is what the report says: completion and
\* failure are both committed before the stream's `done`.
StreamOutcomeStored ==
    \A r \in Requests : Kind[r] # "sync" =>
        /\ pc[r] = "done"   => row[r] = "complete"
        /\ pc[r] = "failed" => row[r] = "failed"

\* No slot is kept for ever but the leaked ones: once requests stop coming the
\* gate empties down to those.
GateEmpties == <>[](active <= Cardinality(Leaking))
=============================================================================
