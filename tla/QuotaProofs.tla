---------------------------- MODULE QuotaProofs ----------------------------
(***************************************************************************)
(* Proofs about module Quota, for any finite set of requests, any plans    *)
(* and any allowances.  None of the properties of the counters is          *)
(* inductive by itself: what carries them is Fresh, that a request between *)
(* its SELECT ... FOR UPDATE and its commit still holds the row and still  *)
(* sees its current value.                                                 *)
(***************************************************************************)
EXTENDS Quota, FiniteSetTheorems, TLAPS

\* Between the locking read and the commit, the value read is the value stored.
Fresh == \A r \in Requests :
            pc[r] = "check" => lock[key[r]] = r /\ seen[r] = used[key[r]]

AbsentIsUnused == \A k \in Counters : k \notin rows => used[k] = 0

RowInv == TypeOK /\ Fresh /\ AbsentIsUnused

IInv == RowInv /\ RaceLoserFindsRow /\ DenialIsFinal
               /\ NeverOverdrawn /\ CounterCountsReservations
-----------------------------------------------------------------------------
(* TypeOK, Fresh and AbsentIsUnused.                                       *)

\* A counter is a (user, period) pair, so the period a request picks gives one.
LEMMA CounterPairs ==
    ASSUME NEW k \in Counters, NEW p \in Periods
    PROVE  k[1] \in Users /\ <<k[1], p>> \in Counters
  BY DEF Counters

\* The initial states of the row protocol.
LEMMA RowInit == Init => RowInv
<1> SUFFICES ASSUME Init PROVE RowInv
  OBVIOUS
<1> USE QuotaConstants DEF Init
<1>1. TypeOK
  BY DEF TypeOK, Counters, Periods, States, Inside, Reserved
<1>2. Fresh
  BY DEF Fresh
<1>3. AbsentIsUnused
  BY DEF AbsentIsUnused
<1> QED  BY <1>1, <1>2, <1>3 DEF RowInv

\* Every step of one request, of billing and of the clock keeps the row protocol.
LEMMA RowNext == RowInv /\ [Next]_vars => RowInv'
<1> SUFFICES ASSUME RowInv, [Next]_vars PROVE RowInv'
  OBVIOUS
<1> USE QuotaConstants DEF RowInv, TypeOK, Fresh, AbsentIsUnused, Goto, database, request
<1>1. ASSUME NEW r \in Requests, LoadUser(r) PROVE RowInv'
  <2>1. plan[key[r][1]] \in Plans
    BY CounterPairs, 0 \in Nat DEF Counters
  <2> QED  BY <1>1, <2>1 DEF LoadUser, States, Inside
<1>2. ASSUME NEW r \in Requests, PickPeriod(r) PROVE RowInv'
  <2>1. <<key[r][1], now>> \in Counters
    BY CounterPairs
  <2> QED  BY <1>2, <2>1 DEF PickPeriod, States, Inside
<1>3. ASSUME NEW r \in Requests, NEW from \in {"select", "reselect"}, LockRow(r, from)
      PROVE  RowInv'
  BY <1>3 DEF LockRow, Free, States, Inside
<1>4. ASSUME NEW r \in Requests, NoRow(r) PROVE RowInv'
  BY <1>4 DEF NoRow, States, Inside
<1>5. ASSUME NEW r \in Requests, InsertRow(r) PROVE RowInv'
  BY <1>5 DEF InsertRow, Free, Taken, States, Inside
<1>6. ASSUME NEW r \in Requests, LoseInsertRace(r) PROVE RowInv'
  BY <1>6 DEF LoseInsertRace, States, Inside
<1>7. ASSUME NEW r \in Requests, Deny(r) PROVE RowInv'
  BY <1>7 DEF Deny, Released, States
<1>8. ASSUME NEW r \in Requests, Reserve(r) PROVE RowInv'
  <2>1. TypeOK'
    BY <1>8 DEF Reserve, Increment, Released, States, Reserved
  <2>2. Fresh'
    BY <1>8 DEF Reserve, Increment, Released
  <2>3. AbsentIsUnused'
    BY <1>8 DEF Reserve
  <2> QED  BY <2>1, <2>2, <2>3
<1>9. ASSUME NEW r \in Requests, Abort(r) PROVE RowInv'
  BY <1>9 DEF Abort, Released, States
<1>10. ASSUME NEW r \in Requests, Accrue(r) PROVE RowInv'
  <2> DEFINE hit == {<<key[r][1], now>>} \cap rows
  <2>1. hit \in SUBSET Counters
    OBVIOUS
  <2>2. /\ pc[r] = "reserved" /\ pc' = [pc EXCEPT ![r] = "accruing"]
        /\ \A c \in hit : lock[c] = Nobody
        /\ lock' = [c \in Counters |-> IF c \in hit THEN r ELSE lock[c]]
        /\ account' = [account EXCEPT ![r] = hit]
        /\ UNCHANGED <<now, plan, rows, used, tokens, key, allowance, seen>>
    BY <1>10 DEF Accrue, Billed, Free
  <2> HIDE DEF hit
  <2>3. TypeOK'
    BY <2>1, <2>2 DEF States, Reserved
  <2>4. Fresh'
    BY <2>1, <2>2
  <2>5. AbsentIsUnused'
    BY <2>2
  <2> QED  BY <2>3, <2>4, <2>5
<1>11. ASSUME NEW r \in Requests, CommitUsage(r) PROVE RowInv'
  BY <1>11 DEF CommitUsage, Released, States, Reserved
<1>12. ASSUME NEW r \in Requests, RunFails(r) PROVE RowInv'
  BY <1>12 DEF RunFails, Released, States, Reserved
<1>13. ASSUME NEW u \in Users, ChangePlan(u) PROVE RowInv'
  BY <1>13 DEF ChangePlan
<1>14. CASE NextMonth
  BY <1>14 DEF NextMonth, Periods
<1>15. CASE UNCHANGED vars
  BY <1>15 DEF vars
<1> QED  BY <1>1, <1>2, <1>3, <1>4, <1>5, <1>6, <1>7, <1>8, <1>9, <1>10, <1>11,
            <1>12, <1>13, <1>14, <1>15 DEF Next, Step

\* Type correctness of the metering protocol (backend/billing/limits.py).
THEOREM TypeCorrect == Spec => []TypeOK
<1>1. RowInv => TypeOK
  BY DEF RowInv
<1> QED  BY RowInit, RowNext, <1>1, PTL DEF Spec
-----------------------------------------------------------------------------
(* The counters.  A step of one request either draws (Reserve) or leaves   *)
(* both the counters and the sets of requests that drew as they are.       *)

\* A set of requests is finite, and so counts to a natural number.
LEMMA DrawnFinite == \A k \in Counters : IsFiniteSet(Drawn(k))
  BY QuotaConstants, FS_Subset DEF Drawn

\* A step that neither draws nor commits a counter.
Bystander == /\ used' = used
             /\ rows' = rows
             /\ \A k \in Counters : Drawn(k)' = Drawn(k)
             /\ \A r \in Requests : pc[r] \in Reserved =>
                                       /\ pc'[r] \in Reserved
                                       /\ allowance'[r] = allowance[r]
             /\ \A r \in Requests : pc'[r] = "denied" =>
                                       /\ key'[r] = key[r]
                                       /\ allowance'[r] = allowance[r]
                                       /\ pc[r] = "denied" \/ (pc[r] = "check" /\ Full(r))
             /\ \A r \in Requests : pc'[r] = "reselect" =>
                                       /\ key'[r] = key[r]
                                       /\ pc[r] = "reselect" \/ key[r] \in rows

\* Every step but Reserve is a bystander's.
LEMMA OnlyReserveDraws ==
    ASSUME RowInv, [Next]_vars, \A r \in Requests : ~Reserve(r)
    PROVE  Bystander
<1> USE DEF RowInv, TypeOK, Goto, database, request, Bystander, Drawn, Reserved, Inside
<1>1. ASSUME NEW r \in Requests, LoadUser(r) PROVE Bystander
  BY <1>1 DEF LoadUser
<1>2. ASSUME NEW r \in Requests, PickPeriod(r) PROVE Bystander
  BY <1>2 DEF PickPeriod
<1>3. ASSUME NEW r \in Requests, NEW from \in {"select", "reselect"}, LockRow(r, from)
      PROVE  Bystander
  BY <1>3 DEF LockRow
<1>4. ASSUME NEW r \in Requests, NoRow(r) PROVE Bystander
  BY <1>4 DEF NoRow
<1>5. ASSUME NEW r \in Requests, InsertRow(r) PROVE Bystander
  BY <1>5 DEF InsertRow
<1>6. ASSUME NEW r \in Requests, LoseInsertRace(r) PROVE Bystander
  BY <1>6 DEF LoseInsertRace, Taken
<1>7. ASSUME NEW r \in Requests, Deny(r) PROVE Bystander
  BY <1>7 DEF Deny
<1>9. ASSUME NEW r \in Requests, Abort(r) PROVE Bystander
  BY <1>9 DEF Abort
<1>10. ASSUME NEW r \in Requests, Accrue(r) PROVE Bystander
  <2>1. /\ pc[r] = "reserved" /\ pc' = [pc EXCEPT ![r] = "accruing"]
        /\ UNCHANGED <<rows, used, key, allowance>>
    BY <1>10 DEF Accrue, Billed
  <2> QED  BY <2>1
<1>11. ASSUME NEW r \in Requests, CommitUsage(r) PROVE Bystander
  BY <1>11 DEF CommitUsage
<1>12. ASSUME NEW r \in Requests, RunFails(r) PROVE Bystander
  BY <1>12 DEF RunFails
<1>13. ASSUME NEW u \in Users, ChangePlan(u) PROVE Bystander
  BY <1>13 DEF ChangePlan
<1>14. CASE NextMonth
  BY <1>14 DEF NextMonth
<1>15. CASE UNCHANGED vars
  BY <1>15 DEF vars
<1> QED  BY <1>1, <1>2, <1>3, <1>4, <1>5, <1>6, <1>7, <1>9, <1>10, <1>11,
            <1>12, <1>13, <1>14, <1>15 DEF Next, Step

\* A reservation adds exactly one request to the ones that drew from its row,
\* and one to the count, because the value it read was still the value stored.
LEMMA ReserveDrawsOne ==
    ASSUME RowInv, NEW r \in Requests, Reserve(r)
    PROVE  /\ r \notin Drawn(key[r])
           /\ \A k \in Counters :
                 Drawn(k)' = IF k = key[r] THEN Drawn(k) \cup {r} ELSE Drawn(k)
           /\ used' = [used EXCEPT ![key[r]] = @ + 1]
           /\ used[key[r]] < allowance[r]
<1>1. /\ pc[r] = "check"
      /\ pc' = [pc EXCEPT ![r] = "reserved"]
      /\ UNCHANGED <<key, allowance>>
      /\ seen[r] = used[key[r]] /\ seen[r] < allowance[r]
      /\ used' = [used EXCEPT ![key[r]] = seen[r] + 1]
      /\ key[r] \in Counters
  BY DEF Reserve, Full, Increment, RowInv, TypeOK, Fresh, Goto, request
<1>2. \A q \in Requests : pc'[q] \in Reserved <=> (pc[q] \in Reserved \/ q = r)
  BY <1>1 DEF RowInv, TypeOK, Reserved
<1>3. r \notin Drawn(key[r])
  BY <1>1 DEF Drawn, Reserved
<1>4. \A k \in Counters : Drawn(k)' = IF k = key[r] THEN Drawn(k) \cup {r} ELSE Drawn(k)
  BY <1>1, <1>2 DEF Drawn
<1>5. used' = [used EXCEPT ![key[r]] = @ + 1]
  BY <1>1 DEF RowInv, TypeOK
<1> QED  BY <1>1, <1>3, <1>4, <1>5

\* The initial states of the counters.
LEMMA CounterInit == Init => IInv
<1> SUFFICES ASSUME Init PROVE IInv
  OBVIOUS
<1>1. \A k \in Counters : Drawn(k) = {} /\ used[k] = 0
  BY DEF Init, Drawn, Reserved
<1>2. CounterCountsReservations /\ NeverOverdrawn
  BY <1>1, FS_EmptySet DEF CounterCountsReservations, NeverOverdrawn
<1>3. RaceLoserFindsRow /\ DenialIsFinal
  BY DEF Init, RaceLoserFindsRow, DenialIsFinal
<1> QED  BY <1>2, <1>3, RowInit DEF IInv

\* A bystander's step keeps every property of the counters.
LEMMA BystanderNext == IInv /\ RowInv' /\ Bystander => IInv'
<1> SUFFICES ASSUME IInv, RowInv', Bystander PROVE IInv'
  OBVIOUS
<1> USE DEF Bystander
<1>1. CounterCountsReservations'
  BY DEF IInv, CounterCountsReservations
<1>2. NeverOverdrawn'
  BY DEF IInv, NeverOverdrawn, Drawn
<1>3. DenialIsFinal'
  BY DEF IInv, DenialIsFinal, RowInv, Fresh, TypeOK, Full
<1>4. RaceLoserFindsRow'
  BY DEF IInv, RaceLoserFindsRow
<1> QED  BY <1>1, <1>2, <1>3, <1>4 DEF IInv

\* A reservation keeps every property of the counters.
LEMMA ReserveNext ==
    ASSUME IInv, RowInv', NEW r \in Requests, Reserve(r)
    PROVE  IInv'
<1>1. /\ r \notin Drawn(key[r])
      /\ \A k \in Counters :
            Drawn(k)' = IF k = key[r] THEN Drawn(k) \cup {r} ELSE Drawn(k)
      /\ used' = [used EXCEPT ![key[r]] = @ + 1]
      /\ used[key[r]] < allowance[r]
  BY ReserveDrawsOne DEF IInv
<1>2. /\ pc' = [pc EXCEPT ![r] = "reserved"]
      /\ rows \subseteq rows'
      /\ UNCHANGED <<key, allowance>>
  BY DEF Reserve, Goto, request
<1> USE DEF RowInv, TypeOK
<1>3. CounterCountsReservations'
  <2>1. Cardinality(Drawn(key[r]) \cup {r}) = Cardinality(Drawn(key[r])) + 1
    BY <1>1, DrawnFinite, FS_AddElement DEF IInv
  <2> QED  BY <1>1, <2>1 DEF IInv, CounterCountsReservations
<1>4. NeverOverdrawn'
  <2> SUFFICES ASSUME NEW k \in Counters, used'[k] > 0
               PROVE  \E q \in Drawn(k)' : used'[k] <= allowance'[q]
    BY DEF NeverOverdrawn
  <2>1. CASE k = key[r]
    BY <1>1, <1>2, <2>1 DEF IInv
  <2>2. CASE k # key[r]
    BY <1>1, <1>2, <2>2 DEF IInv, NeverOverdrawn
  <2> QED  BY <2>1, <2>2
<1>5. DenialIsFinal'
  BY <1>1, <1>2 DEF IInv, DenialIsFinal
<1>6. RaceLoserFindsRow'
  BY <1>2 DEF IInv, RaceLoserFindsRow
<1> QED  BY <1>3, <1>4, <1>5, <1>6 DEF IInv

\* The counters' invariant is inductive.
LEMMA CounterNext == IInv /\ [Next]_vars => IInv'
<1> SUFFICES ASSUME IInv, [Next]_vars PROVE IInv'
  OBVIOUS
<1>1. RowInv'
  BY RowNext DEF IInv
<1>2. CASE \E r \in Requests : Reserve(r)
  BY <1>1, <1>2, ReserveNext
<1>3. CASE \A r \in Requests : ~Reserve(r)
  BY <1>1, <1>3, OnlyReserveDraws, BystanderNext DEF IInv
<1> QED  BY <1>2, <1>3

\* The invariant of every behaviour, from which each property follows.
LEMMA Invariance == Spec => []IInv
  BY CounterInit, CounterNext, PTL DEF Spec

\* A counter is exactly the number of requests that drew from it: no
\* reservation is lost and none counted twice (_locked_counter and
\* check_and_reserve_run).
THEOREM ReservationsCounted == Spec => []CounterCountsReservations
<1>1. IInv => CounterCountsReservations
  BY DEF IInv
<1> QED  BY Invariance, <1>1, PTL

\* A counter never passes the allowance of every request that drew from it,
\* whatever the plans and however they change (check_and_reserve_run).
THEOREM QuotaHolds == Spec => []NeverOverdrawn
<1>1. IInv => NeverOverdrawn
  BY DEF IInv
<1> QED  BY Invariance, <1>1, PTL

\* A denied request's counter stays at its allowance (QuotaExceededError is
\* never raised on a count that a rollback takes back).
THEOREM DenialsAreFinal == Spec => []DenialIsFinal
<1>1. IInv => DenialIsFinal
  BY DEF IInv
<1> QED  BY Invariance, <1>1, PTL

\* The loser of the insert race finds the winner's row (scalar_one in
\* _locked_counter).
THEOREM LoserFindsRow == Spec => []RaceLoserFindsRow
<1>1. IInv => RaceLoserFindsRow
  BY DEF IInv
<1> QED  BY Invariance, <1>1, PTL
-----------------------------------------------------------------------------
(* Accrual.                                                                *)

\* Why usage finds its counter: a reservation leaves a row behind, in a month that is
\* not in the future; and while that month lasts, accrual hits that row.
Billable(r) == /\ pc[r] \in Reserved => key[r] \in rows
               /\ key[r][2] <= now
               /\ pc[r] \in {"accruing", "completed"} /\ now = key[r][2] =>
                     account[r] = {key[r]}

UsageInv == RowInv /\ \A r \in Requests : Billable(r)

\* The initial states.
LEMMA UsageInit == Init => UsageInv
<1> SUFFICES ASSUME Init PROVE \A r \in Requests : Billable(r)
  BY RowInit DEF UsageInv
<1> QED
  BY DEF Init, Billable, Reserved

\* A step that leaves a request, its counter and the clock alone, or takes it to a place
\* where nothing is accrued yet.
LEMMA StillBillable ==
    ASSUME NEW r \in Requests, Billable(r), rows \subseteq rows', now' = now, key'[r] = key[r],
           \/ pc'[r] = pc[r] /\ account'[r] = account[r]
           \/ pc'[r] \notin {"accruing", "completed"} /\ (pc'[r] \in Reserved => pc[r] \in Reserved)
    PROVE  Billable(r)'
  BY DEF Billable, Reserved

\* Every step keeps reservations billable.
LEMMA UsageNext == UsageInv /\ [Next]_vars => UsageInv'
<1> SUFFICES ASSUME UsageInv, [Next]_vars, NEW q \in Requests PROVE Billable(q)'
  BY RowNext DEF UsageInv
<1>0. RowInv /\ Billable(q)
  BY DEF UsageInv
<1> USE QuotaConstants DEF RowInv, TypeOK, Goto, database, request
<1>1. ASSUME NEW r \in Requests,
             LoadUser(r) \/ LockRow(r, "select") \/ NoRow(r) \/ InsertRow(r)
                \/ LoseInsertRace(r) \/ LockRow(r, "reselect") \/ Deny(r) \/ Abort(r)
                \/ RunFails(r)
      PROVE  Billable(q)'
  BY <1>0, <1>1, StillBillable
     DEF LoadUser, LockRow, NoRow, InsertRow, LoseInsertRace, Deny, Abort, RunFails,
         Reserved, Inside
<1>2. ASSUME NEW r \in Requests, PickPeriod(r) PROVE Billable(q)'
  <2>1. /\ key' = [key EXCEPT ![r] = <<key[r][1], now>>]
        /\ pc' = [pc EXCEPT ![r] = "select"]
        /\ UNCHANGED <<now, rows, account>>
    BY <1>2 DEF PickPeriod
  <2>2. CASE q = r
    <3>1. key'[q] = <<key[r][1], now>> /\ pc'[q] = "select"
      BY <1>0, <2>1, <2>2
    <3>2. key'[q][2] = now /\ now \in Int
      BY <1>0, <3>1 DEF Periods
    <3> QED
      BY <2>1, <3>1, <3>2 DEF Billable, Reserved
  <2>3. CASE q # r
    BY <1>0, <2>1, <2>3 DEF Billable
  <2> QED
    BY <2>2, <2>3
<1>3. ASSUME NEW r \in Requests, Reserve(r) PROVE Billable(q)'
  BY <1>0, <1>3 DEF Reserve, Billable, Reserved
<1>4. ASSUME NEW r \in Requests, Accrue(r) PROVE Billable(q)'
  <2>1. /\ pc[r] = "reserved" /\ pc' = [pc EXCEPT ![r] = "accruing"]
        /\ account' = [account EXCEPT ![r] = {<<key[r][1], now>>} \cap rows]
        /\ UNCHANGED <<now, rows, key>>
    BY <1>4 DEF Accrue, Billed
  <2>2. key[r] = <<key[r][1], key[r][2]>>
    BY <1>0 DEF Counters
  <2>3. CASE q = r
    <3>1. account'[r] = {<<key[r][1], now>>} \cap rows /\ key[r] \in rows
      BY <1>0, <2>1, <2>3 DEF Billable, Reserved
    <3>2. now = key[r][2] => account'[r] = {key[r]}
      BY <2>2, <3>1
    <3>3. pc'[r] = "accruing" /\ key'[r] = key[r] /\ now' = now /\ rows' = rows
      BY <1>0, <2>1
    <3>4. key[r][2] <= now
      BY <1>0, <2>3 DEF Billable
    <3> QED
      BY <2>3, <3>1, <3>2, <3>3, <3>4 DEF Billable
  <2>4. CASE q # r
    BY <1>0, <2>1, <2>4 DEF Billable, Reserved
  <2> QED
    BY <2>3, <2>4
<1>5. ASSUME NEW r \in Requests, CommitUsage(r) PROVE Billable(q)'
  BY <1>0, <1>5 DEF CommitUsage, Billable, Reserved
<1>6. ASSUME NEW u \in Users, ChangePlan(u) PROVE Billable(q)'
  BY <1>0, <1>6 DEF ChangePlan, Billable
<1>7. CASE NextMonth
  <2>1. key[q][2] \in Periods
    BY <1>0 DEF Counters
  <2> QED
    BY <1>0, <1>7, <2>1 DEF NextMonth, Billable, Periods
<1>8. CASE UNCHANGED vars
  BY <1>0, <1>8 DEF vars, Billable
<1> QED
  BY <1>1, <1>2, <1>3, <1>4, <1>5, <1>6, <1>7, <1>8 DEF Next, Step

\* A completed run's usage is in a counter of its user, unless a month has ended since the
\* run was reserved (accrue_usage).
THEOREM UsageIsRecorded == Spec => []UsageRecorded
<1>1. UsageInv => UsageRecorded
  BY DEF UsageInv, Billable, UsageRecorded
<1> QED  BY UsageInit, UsageNext, <1>1, PTL DEF Spec
-----------------------------------------------------------------------------
(* The refinement of QuotaLedger.                                          *)

\* The ledger starts with nothing asked, granted or refused.
LEMMA LedgerInit == Init => Ledger!Init
  BY DEF Init, Ledger!Init, Asks, Outcomes, AskOf, OutcomeOf, Asked, Reserved

\* A request between its ask and its answer is a waiting one of the ledger.
LEMMA InsideWaits ==
    ASSUME RowInv, NEW r \in Requests, pc[r] \in Inside
    PROVE  Ledger!Waits(r) /\ Asks[r] = [counter |-> key[r], allowance |-> allowance[r]]
<1>1. [counter |-> key[r], allowance |-> allowance[r]] # NoAsk
  BY LedgerConstants DEF RowInv, TypeOK
<1> QED
  BY <1>1 DEF Ledger!Waits, Asks, Outcomes, AskOf, OutcomeOf, Asked, Inside, Reserved

\* A step in which no request asks or is answered leaves the ledger as it is.
LEMMA LedgerStutters ==
    ASSUME used' = used,
           \A q \in Requests : AskOf(q)' = AskOf(q) /\ OutcomeOf(q)' = OutcomeOf(q)
    PROVE  UNCHANGED Ledger!vars
  BY DEF Ledger!vars, Asks, Outcomes

\* Every step of the row-locking protocol is one atomic step of the ledger, or none.
LEMMA LedgerNext == RowInv /\ [Next]_vars => [Ledger!Next]_(Ledger!vars)
<1> SUFFICES ASSUME RowInv, [Next]_vars PROVE [Ledger!Next]_(Ledger!vars)
  OBVIOUS
<1> USE DEF RowInv, TypeOK, Goto, database, request
<1>1. ASSUME NEW r \in Requests,
             LoadUser(r) \/ LockRow(r, "select") \/ NoRow(r) \/ InsertRow(r)
                \/ LoseInsertRace(r) \/ LockRow(r, "reselect") \/ Accrue(r)
                \/ CommitUsage(r) \/ RunFails(r)
      PROVE  UNCHANGED Ledger!vars
  <2>1. /\ used' = used /\ key' = key
        /\ \A q \in Requests : allowance'[q] = allowance[q] \/ (pc[q] = "idle" /\ pc'[q] = "loaded")
        /\ \/ pc[r] = "idle" /\ pc' = [pc EXCEPT ![r] = "loaded"]
           \/ pc[r] \in Inside /\ \E to \in Inside : pc' = [pc EXCEPT ![r] = to]
           \/ pc[r] \in Reserved /\ \E to \in Reserved : pc' = [pc EXCEPT ![r] = to]
    BY <1>1 DEF LoadUser, LockRow, NoRow, InsertRow, LoseInsertRace, Accrue, CommitUsage,
                RunFails, Inside, Reserved
  <2>2. ASSUME NEW q \in Requests PROVE AskOf(q)' = AskOf(q) /\ OutcomeOf(q)' = OutcomeOf(q)
    BY <2>1 DEF AskOf, OutcomeOf, Asked, Inside, Reserved
  <2> QED
    BY <2>1, <2>2, LedgerStutters
<1>2. ASSUME NEW r \in Requests, PickPeriod(r) PROVE Ledger!Ask(r)
  <2>1. /\ pc[r] = "loaded" /\ pc' = [pc EXCEPT ![r] = "select"]
        /\ key' = [key EXCEPT ![r] = <<key[r][1], now>>]
        /\ UNCHANGED <<used, allowance>>
        /\ <<key[r][1], now>> \in Counters
    BY <1>2, CounterPairs DEF PickPeriod
  <2>2. AskOf(r) = NoAsk /\ OutcomeOf(r) = "waiting"
    BY <2>1 DEF AskOf, OutcomeOf, Asked, Reserved
  <2>3. AskOf(r)' \in [counter : Counters, allowance : Nat]
    BY <2>1 DEF AskOf, Asked
  <2>4. \A q \in Requests : q # r => AskOf(q)' = AskOf(q)
    BY <2>1 DEF AskOf, Asked
  <2>5. \A q \in Requests : OutcomeOf(q)' = OutcomeOf(q)
    BY <2>1 DEF OutcomeOf, Reserved
  <2>6. Asks' = [Asks EXCEPT ![r] = Asks'[r]]
    BY <2>4 DEF Asks
  <2>7. Outcomes' = Outcomes
    BY <2>5 DEF Outcomes
  <2>8. /\ Asks[r] = NoAsk /\ Outcomes[r] = "waiting"
        /\ Asks'[r] \in [counter : Counters, allowance : Nat]
    BY <2>2, <2>3 DEF Asks, Outcomes
  <2> QED
    BY <2>1, <2>6, <2>7, <2>8 DEF Ledger!Ask
<1>3. ASSUME NEW r \in Requests, Reserve(r) PROVE Ledger!Grant(r)
  <2>1. /\ used' = [used EXCEPT ![key[r]] = @ + 1]
        /\ used[key[r]] < allowance[r]
    BY <1>3, ReserveDrawsOne
  <2>2. /\ pc[r] = "check" /\ pc' = [pc EXCEPT ![r] = "reserved"]
        /\ UNCHANGED <<key, allowance>>
    BY <1>3 DEF Reserve
  <2>3. Ledger!Waits(r) /\ Asks[r] = [counter |-> key[r], allowance |-> allowance[r]]
    BY <2>2, InsideWaits DEF Inside
  <2>4. \A q \in Requests : AskOf(q)' = AskOf(q)
    BY <2>2 DEF AskOf, Asked
  <2>5. \A q \in Requests : OutcomeOf(q)' = IF q = r THEN "granted" ELSE OutcomeOf(q)
    BY <2>2 DEF OutcomeOf, Reserved
  <2>6. Asks' = Asks /\ Outcomes' = [Outcomes EXCEPT ![r] = "granted"]
    BY <2>4, <2>5 DEF Asks, Outcomes
  <2> QED
    BY <2>1, <2>3, <2>6 DEF Ledger!Grant
<1>4. ASSUME NEW r \in Requests, Deny(r) PROVE Ledger!Refuse(r)
  <2>1. /\ pc[r] = "check" /\ pc' = [pc EXCEPT ![r] = "denied"]
        /\ UNCHANGED <<used, key, allowance>>
        /\ used[key[r]] >= allowance[r]
    BY <1>4 DEF Deny, Full, Fresh
  <2>2. Ledger!Waits(r) /\ Asks[r] = [counter |-> key[r], allowance |-> allowance[r]]
    BY <2>1, InsideWaits DEF Inside
  <2>3. \A q \in Requests : AskOf(q)' = AskOf(q)
    BY <2>1 DEF AskOf, Asked
  <2>4. \A q \in Requests : OutcomeOf(q)' = IF q = r THEN "refused" ELSE OutcomeOf(q)
    BY <2>1 DEF OutcomeOf, Reserved
  <2>5. Asks' = Asks /\ Outcomes' = [Outcomes EXCEPT ![r] = "refused"]
    BY <2>3, <2>4 DEF Asks, Outcomes
  <2> QED
    BY <2>1, <2>2, <2>5 DEF Ledger!Refuse
<1>5. ASSUME NEW r \in Requests, Abort(r) PROVE Ledger!Drop(r)
  <2>1. /\ pc[r] \in Inside /\ pc' = [pc EXCEPT ![r] = "aborted"]
        /\ UNCHANGED <<used, key, allowance>>
    BY <1>5 DEF Abort
  <2>2. Ledger!Waits(r)
    BY <2>1, InsideWaits
  <2>3. \A q \in Requests : AskOf(q)' = AskOf(q)
    BY <2>1 DEF AskOf, Asked, Inside
  <2>4. \A q \in Requests : OutcomeOf(q)' = IF q = r THEN "dropped" ELSE OutcomeOf(q)
    BY <2>1 DEF OutcomeOf, Reserved
  <2>5. Asks' = Asks /\ Outcomes' = [Outcomes EXCEPT ![r] = "dropped"]
    BY <2>3, <2>4 DEF Asks, Outcomes
  <2> QED
    BY <2>1, <2>2, <2>5 DEF Ledger!Drop
<1>6. ASSUME (\E u \in Users : ChangePlan(u)) \/ NextMonth \/ UNCHANGED vars
      PROVE  UNCHANGED Ledger!vars
  <2>1. UNCHANGED <<used, pc, key, allowance>>
    BY <1>6 DEF ChangePlan, NextMonth, vars
  <2>2. ASSUME NEW q \in Requests PROVE AskOf(q)' = AskOf(q) /\ OutcomeOf(q)' = OutcomeOf(q)
    BY <2>1 DEF AskOf, OutcomeOf, Asked
  <2> QED
    BY <2>1, <2>2, LedgerStutters
<1> QED
  BY <1>1, <1>2, <1>3, <1>4, <1>5, <1>6 DEF Next, Step, Ledger!Next

\* The locking protocol of check_and_reserve_run implements the atomic ledger: however
\* transactions interleave, each request is granted, refused or dropped in one step.
THEOREM LedgerImplemented == Spec => ImplementsLedger
<1>1. Spec => []RowInv
  BY RowInit, RowNext, PTL DEF Spec
<1> QED
  BY <1>1, LedgerInit, LedgerNext, PTL DEF Spec, ImplementsLedger, Ledger!Spec
=============================================================================
