------------------------------- MODULE Quota -------------------------------
(***************************************************************************)
(* Plan limits and usage metering (backend/billing/limits.py) as requests  *)
(* execute it concurrently on Postgres, READ COMMITTED.                    *)
(*                                                                         *)
(* A usage counter is a row of usage_counters, unique per (user, month).   *)
(* SELECT ... FOR UPDATE sees committed rows only and waits for the row    *)
(* lock; an INSERT of a key some open transaction has inserted waits for   *)
(* that transaction, and fails on the unique index once it has committed.  *)
(* lock[k] is the request whose open transaction holds row k, or has       *)
(* inserted it and not committed yet.                                      *)
(*                                                                         *)
(* research_runs_used is read into the session and written back as an      *)
(* absolute value at commit (counter.research_runs_used += 1 on a loaded   *)
(* ORM attribute); tokens_used is an additive UPDATE evaluated by the      *)
(* database.  Usage is counted in whole runs: one unit per completed run.  *)
(***************************************************************************)
EXTENDS Naturals, FiniteSets

CONSTANTS Users,       \* user rows
          Requests,    \* run requests; each asks once
          Plans,       \* names of plans
          MaxRuns,     \* [Plans -> Nat]: PLAN_LIMITS[plan].max_runs_per_period
          LastPeriod,  \* bound: the last month the clock reaches
          Nobody       \* no request holds the row

Periods  == 0 .. LastPeriod
Counters == Users \X Periods

ASSUME QuotaConstants ==
    /\ LastPeriod \in Nat
    /\ MaxRuns \in [Plans -> Nat]
    /\ IsFiniteSet(Requests)
    /\ Nobody \notin Requests

VARIABLES now,        \* the current calendar month
          plan,       \* committed users.plan
          rows,       \* committed usage_counters rows
          used,       \* research_runs_used of a committed row (0 while absent)
          tokens,     \* tokens_used of a committed row, in completed runs
          lock,       \* row lock or uncommitted insert
          pc,         \* what each request is doing
          key,        \* the (user, period) it reserves from
          allowance,  \* its plan limit, from the user row it loaded
          seen,       \* research_runs_used as its session loaded it
          account     \* the counters its accrual hit

vars == <<now, plan, rows, used, tokens, lock, pc, key, allowance, seen, account>>

Inside   == {"select", "insert", "reselect", "check"}
Reserved == {"reserved", "accruing", "completed", "failed"}
States   == {"idle", "loaded", "denied", "aborted"} \cup Inside \cup Reserved

TypeOK == /\ now \in Periods
          /\ plan \in [Users -> Plans]
          /\ rows \subseteq Counters
          /\ used \in [Counters -> Nat]
          /\ tokens \in [Counters -> Nat]
          /\ lock \in [Counters -> Requests \cup {Nobody}]
          /\ pc \in [Requests -> States]
          /\ key \in [Requests -> Counters]
          /\ allowance \in [Requests -> Nat]
          /\ seen \in [Requests -> Nat]
          /\ account \in [Requests -> SUBSET Counters]

Init == /\ now = 0
        /\ plan \in [Users -> Plans]
        /\ rows = {}
        /\ used = [k \in Counters |-> 0]
        /\ tokens = [k \in Counters |-> 0]
        /\ lock = [k \in Counters |-> Nobody]
        /\ pc = [r \in Requests |-> "idle"]
        /\ key \in [Requests -> Users \X {0}]
        /\ allowance = [r \in Requests |-> 0]
        /\ seen = [r \in Requests |-> 0]
        /\ account = [r \in Requests |-> {}]

Goto(r, from, to) == pc[r] = from /\ pc' = [pc EXCEPT ![r] = to]

database == <<now, plan, rows, used, tokens>>
request  == <<key, allowance, seen, account>>

\* Plausible bugs, each a variant of the operator that follows it.
Free_PlainSelect(k) == TRUE                             \* no FOR UPDATE
Taken_Dirty(k)      == k \in rows \/ lock[k] # Nobody    \* insert fails at once
Full_OffByOne(r)    == seen[r] > allowance[r]
Full_Early(r)       == seen[r] + 1 >= allowance[r]
Increment_Down(r)   == seen[r] - 1                      \* counts what is left
Released_Never(r)   == lock                             \* transaction left open
Billed_PeriodEnd    == IF now < LastPeriod THEN now + 1 ELSE now

\* The row lock: SELECT ... FOR UPDATE, UPDATE and INSERT wait for it.
Free(k) == lock[k] = Nobody

\* The unique index refuses a second row once the first is committed.
Taken(k) == k \in rows

\* check_and_reserve_run's test and its increment, on the value the session loaded.
Full(r)      == seen[r] >= allowance[r]
Increment(r) == seen[r] + 1

\* Commit and rollback release what the transaction holds.
Released(r) == [k \in Counters |-> IF lock[k] = r THEN Nobody ELSE lock[k]]
-----------------------------------------------------------------------------
(* check_and_reserve_run, step by step.                                    *)

\* The session loads the user row; plan_limits_for reads its plan from there on.
LoadUser(r) ==
    /\ Goto(r, "idle", "loaded")
    /\ allowance' = [allowance EXCEPT ![r] = MaxRuns[plan[key[r][1]]]]
    /\ UNCHANGED <<database, lock, key, seen, account>>

\* current_period(): the month is fixed when the reservation starts.
PickPeriod(r) ==
    /\ Goto(r, "loaded", "select")
    /\ key' = [key EXCEPT ![r] = <<@[1], now>>]
    /\ UNCHANGED <<database, lock, allowance, seen, account>>

\* _locked_counter: SELECT ... FOR UPDATE returns the row, locked ...
LockRow(r, from) ==
    /\ Goto(r, from, "check")
    /\ key[r] \in rows
    /\ Free(key[r])
    /\ lock' = [lock EXCEPT ![key[r]] = r]
    /\ seen' = [seen EXCEPT ![r] = used[key[r]]]
    /\ UNCHANGED <<database, key, allowance, account>>

\* ... or nothing, when no committed row exists.
NoRow(r) ==
    /\ Goto(r, "select", "insert")
    /\ key[r] \notin rows
    /\ UNCHANGED <<database, lock, request>>

\* The flushed INSERT goes in when nobody else has the key.
InsertRow(r) ==
    /\ Goto(r, "insert", "check")
    /\ ~Taken(key[r])
    /\ Free(key[r])
    /\ lock' = [lock EXCEPT ![key[r]] = r]
    /\ seen' = [seen EXCEPT ![r] = 0]
    /\ UNCHANGED <<database, key, allowance, account>>

\* The winner of the insert has committed: IntegrityError, roll back, re-select.
LoseInsertRace(r) ==
    /\ Goto(r, "insert", "reselect")
    /\ Taken(key[r])
    /\ UNCHANGED <<database, lock, request>>

\* Over quota: QuotaExceededError; get_db rolls the transaction back.
Deny(r) ==
    /\ Goto(r, "check", "denied")
    /\ Full(r)
    /\ lock' = Released(r)
    /\ UNCHANGED <<database, request>>

\* research_runs_used += 1 on the loaded row, then commit.
Reserve(r) ==
    /\ Goto(r, "check", "reserved")
    /\ ~Full(r)
    /\ used' = [used EXCEPT ![key[r]] = Increment(r)]
    /\ rows' = rows \cup {key[r]}
    /\ lock' = Released(r)
    /\ UNCHANGED <<now, plan, tokens, request>>

\* The connection or the process dies inside the reservation: rolled back.
Abort(r) ==
    /\ pc[r] \in Inside
    /\ pc' = [pc EXCEPT ![r] = "aborted"]
    /\ lock' = Released(r)
    /\ UNCHANGED <<database, request>>
-----------------------------------------------------------------------------
(* After the reservation: the run ends and its usage is accrued.           *)

\* accrue_usage bills the month it is when the run ends.
Billed == now

\* UPDATE ... WHERE user_id AND period_start.  No such committed row: the UPDATE
\* touches nothing.
Accrue(r) ==
    LET k == <<key[r][1], Billed>>
        hit == {k} \cap rows
    IN /\ Goto(r, "reserved", "accruing")
       /\ \A c \in hit : Free(c)
       /\ lock' = [c \in Counters |-> IF c \in hit THEN r ELSE lock[c]]
       /\ account' = [account EXCEPT ![r] = hit]
       /\ UNCHANGED <<database, key, allowance, seen>>

\* The commit that also publishes the completed report.
CommitUsage(r) ==
    /\ Goto(r, "accruing", "completed")
    /\ tokens' = [k \in Counters |-> IF k \in account[r] THEN tokens[k] + 1 ELSE tokens[k]]
    /\ lock' = Released(r)
    /\ UNCHANGED <<now, plan, rows, used, request>>

\* The run fails, or dies before that commit: the slot stays consumed, nothing accrues.
RunFails(r) ==
    /\ pc[r] \in {"reserved", "accruing"}
    /\ pc' = [pc EXCEPT ![r] = "failed"]
    /\ lock' = Released(r)
    /\ account' = [account EXCEPT ![r] = {}]
    /\ UNCHANGED <<database, key, allowance, seen>>
-----------------------------------------------------------------------------
(* The rest of the world.                                                  *)

\* Billing commits another plan for the user (module StripeMirror).
ChangePlan(u) ==
    /\ \E p \in Plans \ {plan[u]} : plan' = [plan EXCEPT ![u] = p]
    /\ UNCHANGED <<now, rows, used, tokens, lock, pc, request>>

NextMonth ==
    /\ now < LastPeriod
    /\ now' = now + 1
    /\ UNCHANGED <<plan, rows, used, tokens, lock, pc, request>>

Step(r) == \/ LoadUser(r) \/ PickPeriod(r)
           \/ LockRow(r, "select") \/ NoRow(r)
           \/ InsertRow(r) \/ LoseInsertRace(r) \/ LockRow(r, "reselect")
           \/ Deny(r) \/ Reserve(r)
           \/ Accrue(r) \/ CommitUsage(r)

Next == \/ \E r \in Requests : Step(r) \/ Abort(r) \/ RunFails(r)
        \/ \E u \in Users : ChangePlan(u)
        \/ NextMonth

Spec == Init /\ [][Next]_vars

\* Postgres grants a waited-for lock in queue order and a live request keeps
\* executing, so each request's own steps are weakly fair.  Nothing forces a
\* failure, a plan change or the end of the month.
FairSpec == Spec /\ \A r \in Requests : WF_vars(Step(r))
-----------------------------------------------------------------------------
(* Properties.                                                             *)

Drawn(k) == {r \in Requests : pc[r] \in Reserved /\ key[r] = k}

\* No reservation is lost and none is counted twice: a counter is exactly the
\* number of requests that drew from it, whatever their interleaving
\* (the row lock of _locked_counter, and the insert race it settles).
CounterCountsReservations == \A k \in Counters : used[k] = Cardinality(Drawn(k))

\* A counter never passes the allowance of every request that drew from it,
\* even when the user's plan changes under open requests
\* (check_and_reserve_run compares and increments under the lock).
NeverOverdrawn ==
    \A k \in Counters : used[k] > 0 => \E r \in Drawn(k) : used[k] <= allowance[r]

\* No spurious refusal: a request is denied only when the counter really is at
\* its allowance, and it stays there (QuotaExceededError is never the product
\* of a reservation that was later rolled back).
DenialIsFinal ==
    \A r \in Requests : pc[r] = "denied" => used[key[r]] >= allowance[r]

\* The loser of the insert race always finds the winner's row, so scalar_one()
\* in the except branch of _locked_counter cannot come back empty.
RaceLoserFindsRow == \A r \in Requests : pc[r] = "reselect" => key[r] \in rows

\* Nobody waits for a counter for ever: a request that started a reservation
\* is eventually answered (reserved, refused or aborted; the lock and the insert race are the only waits).
ReservationAnswered ==
    \A r \in Requests : (pc[r] = "select") ~> (pc[r] \notin Inside)

\* "Record actuals after a run completes" (accrue_usage): a completed run's usage
\* is in a counter of its user, unless a month has ended since it was reserved:
\* the new month may have no counter yet, and then the usage is recorded nowhere.
UsageRecorded ==
    \A r \in Requests : pc[r] = "completed" /\ now = key[r][2] => account[r] = {key[r]}
-----------------------------------------------------------------------------
(* The ledger this implements.                                             *)

CONSTANT NoAsk

ASSUME LedgerConstants == NoAsk \notin [counter : Counters, allowance : Nat]

\* What the ledger sees of a request: what it asks for, once its month is fixed, and
\* what came of that.
Asked(r)     == pc[r] \notin {"idle", "loaded"}
AskOf(r)     == IF Asked(r) THEN [counter |-> key[r], allowance |-> allowance[r]] ELSE NoAsk
OutcomeOf(r) == CASE pc[r] \in Reserved -> "granted"
                  [] pc[r] = "denied"   -> "refused"
                  [] pc[r] = "aborted"  -> "dropped"
                  [] OTHER              -> "waiting"
Asks     == [r \in Requests |-> AskOf(r)]
Outcomes == [r \in Requests |-> OutcomeOf(r)]

Ledger == INSTANCE QuotaLedger WITH count <- used, ask <- Asks, outcome <- Outcomes

\* Every behaviour of the row-locking protocol is one of the atomic ledger.
ImplementsLedger == Ledger!Spec
=============================================================================
