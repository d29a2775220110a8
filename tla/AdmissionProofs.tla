--------------------------- MODULE AdmissionProofs ---------------------------
(***************************************************************************)
(* The two gates of backend/api/limits.py that stand before a run.         *)
(*                                                                         *)
(* InlineRuns, for any number of requests, users and slots: GateInv,       *)
(* PaidIffAdmitted and StreamOutcomeStored from one invariant, and the two *)
(* conditions under which the gate's count is exact.                       *)
(*                                                                         *)
(* RateLimiter, for any callers, budget, window and length of a second:    *)
(* numbering a caller's grants, the deque holds the last of them, those it *)
(* has lost have expired, and so a grant and the one MaxRequests after it  *)
(* are a window apart.                                                     *)
(***************************************************************************)
EXTENDS InlineRuns, RateLimiter, SequenceTheorems, FiniteSetTheorems, WellFoundedInduction, TLAPS

\* A request at place p holds a slot, or has leaked one.
Holds(r, p) == /\ Gated(r) /\ p \in Live
               /\ ~(Kind[r] = "sync" /\ p \in {"failing", "publishing"})
Leaks(r, p) == Kind[r] = "stream" /\ p \in {"vanished", "broke"}

\* The gate counts the slots that are held, and may count leaked ones.
Slots == /\ active \in Cardinality(AtWork) .. Cardinality(AtWork) + Cardinality(Leaking)
         /\ active <= Capacity

\* Only streams answer before they run.
Places == \A r \in Requests :
              /\ pc[r] \in {"responding", "abandoned", "vanished"} => Kind[r] = "stream"
              /\ pc[r] = "broke" => Gated(r)

\* Who has drawn, place by place.
Drawers == \A r \in Requests :
               /\ pc[r] \in Drawing \cup {"new", "busy", "overquota"} =>
                      r \notin drawn /\ row[r] = "none"
               /\ pc[r] \in Working \cup {"paid", "responding"} => r \in drawn
               /\ row[r] # "none" => r \in drawn

\* What a run that has ended has flushed, and what has become of it.
Results == \A r \in Requests :
               /\ pc[r] = "publishing" => dirty[r] = "complete"
               /\ pc[r] = "failing" => dirty[r] = "failed"
               /\ Kind[r] # "sync" /\ pc[r] = "done" => row[r] = "complete"
               /\ Kind[r] # "sync" /\ pc[r] = "failed" => row[r] = "failed"

IInv == TypeOK /\ Slots /\ Places /\ Drawers /\ Results
-----------------------------------------------------------------------------
(* Counting slots.                                                         *)

\* The counted sets are finite, and no request both holds and leaks a slot.
LEMMA Counted ==
    /\ IsFiniteSet(AtWork) /\ IsFiniteSet(Leaking) /\ Cardinality(Requests) \in Nat
    /\ Cardinality(AtWork) \in Nat /\ Cardinality(Leaking) \in Nat
    /\ Cardinality(AtWork) + Cardinality(Leaking) <= Cardinality(Requests)
    /\ Cardinality({r \in Executing : Gated(r)}) <= Cardinality(AtWork)
    /\ Cardinality({r \in Executing : Gated(r)}) \in Nat
<1>1. IsFiniteSet(Requests) /\ AtWork \subseteq Requests /\ Leaking \subseteq Requests
  BY InlineConstants DEF AtWork, Leaking
<1>2. AtWork \cap Leaking = {}
  BY DEF AtWork, Leaking, Live, Drawing, Working
<1>3. {r \in Executing : Gated(r)} \subseteq AtWork
  BY DEF Executing, AtWork, Live, Working
<1>4. IsFiniteSet(AtWork) /\ IsFiniteSet(Leaking)
  BY <1>1, FS_Subset
<1>5. Cardinality(AtWork \cup Leaking) = Cardinality(AtWork) + Cardinality(Leaking)
  <2>1. Cardinality(AtWork \cup Leaking)
           = Cardinality(AtWork) + Cardinality(Leaking) - Cardinality(AtWork \cap Leaking)
    BY <1>4, FS_Union
  <2>2. Cardinality(AtWork \cap Leaking) = 0
    BY <1>2, FS_EmptySet
  <2>3. Cardinality(AtWork) \in Nat /\ Cardinality(Leaking) \in Nat
    BY <1>4, FS_CardinalityType
  <2> QED
    BY <2>1, <2>2, <2>3
<1>6. Cardinality(AtWork \cup Leaking) <= Cardinality(Requests)
  BY <1>1, FS_Subset
<1> QED
  BY <1>1, <1>3, <1>4, <1>5, <1>6, FS_Subset, FS_CardinalityType

\* The gate never counts more slots than there are requests.
LEMMA SlotsFit == Slots => active \in 0 .. Cardinality(Requests)
  BY Counted DEF Slots

\* Adding to a finite set and taking from it.
LEMMA OneMoreOrLess ==
    ASSUME NEW S, IsFiniteSet(S), NEW r
    PROVE  /\ r \notin S => Cardinality(S \cup {r}) = Cardinality(S) + 1
           /\ r \in S => Cardinality(S \ {r}) = Cardinality(S) - 1 /\ Cardinality(S) >= 1
           /\ r \in S => S \cup {r} = S
           /\ r \notin S => S \ {r} = S
<1>1. r \in S => Cardinality(S) >= 1
  BY FS_EmptySet, FS_CardinalityType
<1> QED
  BY <1>1, FS_AddElement, FS_RemoveElement

\* What a request that moves to place x must do to the gate's count.
Balanced(r, x) ==
    \/ /\ Holds(r, x) <=> Holds(r, pc[r])
       /\ Leaks(r, x) <=> Leaks(r, pc[r])
       /\ active' = active
    \/ /\ ~Holds(r, pc[r]) /\ ~Leaks(r, pc[r]) /\ Holds(r, x) /\ ~Leaks(r, x)
       /\ active < Capacity /\ active' = active + 1
    \/ /\ Holds(r, pc[r]) /\ ~Holds(r, x) /\ ~Leaks(r, x)
       /\ active' = Freed
    \/ /\ Holds(r, pc[r]) /\ ~Holds(r, x) /\ Leaks(r, x)
       /\ active' = active

\* One request moves, and the count follows.
LEMMA SlotsMove ==
    ASSUME TypeOK, Slots, NEW r \in Requests, NEW x, pc' = [pc EXCEPT ![r] = x], Balanced(r, x)
    PROVE  Slots'
<1>1. /\ AtWork' = IF Holds(r, x) THEN AtWork \cup {r} ELSE AtWork \ {r}
      /\ Leaking' = IF Leaks(r, x) THEN Leaking \cup {r} ELSE Leaking \ {r}
      /\ r \in AtWork <=> Holds(r, pc[r])
      /\ r \in Leaking <=> Leaks(r, pc[r])
  BY DEF TypeOK, AtWork, Leaking, Holds, Leaks
<1>2. ~(Holds(r, pc[r]) /\ Leaks(r, pc[r]))
  BY DEF Holds, Leaks, Live, Drawing, Working
<1> DEFINE a == Cardinality(AtWork)
           k == Cardinality(Leaking)
<1>3. /\ a \in Nat /\ k \in Nat /\ Capacity \in Nat /\ active \in Nat
      /\ active \in a .. a + k /\ active <= Capacity
  BY Counted, InlineConstants DEF Slots
<1>4. /\ r \notin AtWork => Cardinality(AtWork \cup {r}) = a + 1 /\ AtWork \ {r} = AtWork
      /\ r \in AtWork => Cardinality(AtWork \ {r}) = a - 1 /\ a >= 1 /\ AtWork \cup {r} = AtWork
      /\ r \notin Leaking => Cardinality(Leaking \cup {r}) = k + 1 /\ Leaking \ {r} = Leaking
      /\ r \in Leaking => Leaking \cup {r} = Leaking
  BY Counted, OneMoreOrLess
<1> HIDE DEF a, k
<1>5. Slots' <=> /\ active' \in Cardinality(AtWork') .. Cardinality(AtWork') + Cardinality(Leaking')
                 /\ active' <= Capacity
  BY DEF Slots
<1>6. CASE /\ Holds(r, x) <=> Holds(r, pc[r])
           /\ Leaks(r, x) <=> Leaks(r, pc[r])
           /\ active' = active
  <2>1. AtWork' = AtWork /\ Leaking' = Leaking
    BY <1>1, <1>4, <1>6
  <2> QED
    BY <1>3, <1>5, <1>6, <2>1 DEF a, k
<1>7. CASE /\ ~Holds(r, pc[r]) /\ ~Leaks(r, pc[r]) /\ Holds(r, x) /\ ~Leaks(r, x)
           /\ active < Capacity /\ active' = active + 1
  <2>1. Cardinality(AtWork') = a + 1 /\ Cardinality(Leaking') = k
    BY <1>1, <1>4, <1>7 DEF k
  <2> QED
    BY <1>3, <1>5, <1>7, <2>1
<1>8. CASE Holds(r, pc[r]) /\ ~Holds(r, x) /\ ~Leaks(r, x) /\ active' = Freed
  <2>1. Cardinality(AtWork') = a - 1 /\ Cardinality(Leaking') = k /\ a >= 1
    BY <1>1, <1>2, <1>4, <1>8 DEF k
  <2> QED
    BY <1>3, <1>5, <1>8, <2>1 DEF Freed
<1>9. CASE Holds(r, pc[r]) /\ ~Holds(r, x) /\ Leaks(r, x) /\ active' = active
  <2>1. Cardinality(AtWork') = a - 1 /\ Cardinality(Leaking') = k + 1 /\ a >= 1
    BY <1>1, <1>2, <1>4, <1>9
  <2> QED
    BY <1>3, <1>5, <1>9, <2>1
<1> QED
  BY <1>6, <1>7, <1>8, <1>9 DEF Balanced
-----------------------------------------------------------------------------
(* The initial states and the steps.                                       *)

\* No request has come, no slot is taken.
LEMMA InitInv == Init => IInv
<1> SUFFICES ASSUME Init PROVE IInv
  OBVIOUS
<1> USE InlineConstants DEF Init
<1>1. TypeOK
  BY Counted DEF TypeOK, States, Statuses
<1>2. Slots
  <2>1. AtWork = {} /\ Leaking = {}
    BY DEF AtWork, Leaking, Live, Drawing, Working
  <2> QED
    BY <2>1, FS_EmptySet DEF Slots
<1>3. Places /\ Drawers /\ Results
  BY DEF Places, Drawers, Results, Drawing, Working
<1> QED
  BY <1>1, <1>2, <1>3 DEF IInv

\* Every step of a request moves it alone, and does to the gate's count what the
\* move calls for: no exit frees a slot twice, and only two of them leak one.
LEMMA StepBalanced ==
    ASSUME IInv, NEW r \in Requests,
           Admit(r) \/ TurnAway(r) \/ Step(r) \/ Vanish(r) \/ Leave(r)
    PROVE  \E x \in States : pc' = [pc EXCEPT ![r] = x] /\ Balanced(r, x)
<1>0. /\ TypeOK /\ Places /\ Kind[r] \in {"sync", "stream", "chat"}
      /\ active \in Nat /\ Capacity \in Nat /\ pc[r] \in States
  BY InlineConstants, Counted DEF IInv, TypeOK
<1> USE DEF Balanced, Holds, Leaks, Gated, Live, Drawing, Working, States, Goto
<1>1. CASE Admit(r)
  BY <1>0, <1>1 DEF Admit, Full
<1>2. CASE TurnAway(r) \/ FindCounter(r) \/ Draw(r) \/ Start(r) \/ Return(r) \/ Iterate(r)
  BY <1>0, <1>2 DEF TurnAway, FindCounter, Draw, Start, Return, Iterate, OnReturn, Places
<1>3. CASE OverQuota(r) \/ Break(r)
  BY <1>0, <1>3 DEF OverQuota, OnRefusal, Break
<1>4. CASE Vanish(r) \/ Leave(r) \/ Close(r)
  BY <1>0, <1>4 DEF Vanish, Leave, Close, Places
<1>5. CASE Complete(r) \/ Fail(r)
  BY <1>0, <1>5 DEF Complete, Fail, Finish
<1>6. CASE Settle(r)
  <2> DEFINE x == IF pc[r] = "publishing" THEN "done" ELSE "failed"
  <2>1. pc' = [pc EXCEPT ![r] = x] /\ x \in States /\ ~Holds(r, x) /\ ~Leaks(r, x)
    BY <1>6 DEF Settle
  <2>2. /\ ~Leaks(r, pc[r])
        /\ Holds(r, pc[r]) <=> Kind[r] = "stream"
        /\ active' = IF Kind[r] = "stream" THEN Freed ELSE active
    BY <1>0, <1>6 DEF Settle
  <2> QED
    BY <2>1, <2>2
<1> QED
  BY <1>1, <1>2, <1>3, <1>4, <1>5, <1>6 DEF Step

\* Every step keeps the account of the slots; a restart starts a new one.
LEMMA SlotsNext == IInv /\ [Next]_vars => Slots'
<1> SUFFICES ASSUME IInv, [Next]_vars PROVE Slots'
  OBVIOUS
<1>1. ASSUME NEW r \in Requests,
             Admit(r) \/ TurnAway(r) \/ Step(r) \/ Vanish(r) \/ Leave(r)
      PROVE  Slots'
  BY <1>1, StepBalanced, SlotsMove DEF IInv
<1>2. CASE Crash
  <2>1. AtWork' = {} /\ active' = 0
    BY <1>2 DEF Crash, AtWork, Live, Drawing, Working
  <2>2. IsFiniteSet(Leaking')
    BY InlineConstants, FS_Subset DEF Leaking
  <2> QED
    BY <2>1, <2>2, InlineConstants, FS_EmptySet, FS_CardinalityType DEF Slots
<1>3. CASE UNCHANGED vars
  BY <1>3 DEF vars, IInv, Slots, AtWork, Leaking
<1> QED
  BY <1>1, <1>2, <1>3 DEF Next

\* Every step keeps the types.
LEMMA TypeNext == IInv /\ [Next]_vars => TypeOK'
<1> SUFFICES ASSUME IInv, [Next]_vars PROVE TypeOK'
  OBVIOUS
<1>1. (active \in 0 .. Cardinality(Requests))'
  <2>1. Slots'
    BY SlotsNext
  <2> QED
    BY <2>1, SlotsFit, PTL
<1>0. TypeOK
  BY DEF IInv
<1>2. ASSUME NEW r \in Requests,
             Admit(r) \/ TurnAway(r) \/ Step(r) \/ Vanish(r) \/ Leave(r)
      PROVE  TypeOK'
  <2>1. pc' \in [Requests -> States] /\ crashes' = crashes
    <3>1. \E x \in States : pc' = [pc EXCEPT ![r] = x]
      BY <1>2, StepBalanced
    <3>2. crashes' = crashes
      BY <1>2 DEF Admit, TurnAway, Step, Vanish, Leave, FindCounter, Draw, OverQuota, Break, Start,
                  Return, Iterate, Complete, Fail, Finish, Settle, Close
    <3> QED
      BY <1>0, <3>1, <3>2 DEF TypeOK
  <2>2. /\ counters' \subseteq Users /\ drawn' \subseteq Requests /\ expired' \subseteq Requests
    BY <1>0, <1>2, InlineConstants
       DEF TypeOK, Admit, TurnAway, Step, Vanish, Leave, FindCounter, Draw, OverQuota, Break,
           Start, Return, Iterate, Complete, Fail, Finish, Settle, Close
  <2>3. row' \in [Requests -> Statuses] /\ dirty' \in [Requests -> Statuses]
    BY <1>0, <1>2
       DEF TypeOK, Statuses, Stored, Admit, TurnAway, Step, Vanish, Leave, FindCounter, Draw,
           OverQuota, Break, Start, Return, Iterate, Complete, Fail, Finish, Settle, Close
  <2> QED
    BY <1>0, <1>1, <2>1, <2>2, <2>3 DEF TypeOK
<1>3. CASE Crash
  BY <1>0, <1>1, <1>3, InlineConstants DEF TypeOK, Crash, States, Statuses
<1>4. CASE UNCHANGED vars
  BY <1>0, <1>4 DEF vars, TypeOK
<1> QED
  BY <1>2, <1>3, <1>4 DEF Next

\* Only a stream answers, leaves or is abandoned.
LEMMA PlacesNext == IInv /\ [Next]_vars => Places'
<1> SUFFICES ASSUME TypeOK, Places, [Next]_vars PROVE Places'
  BY DEF IInv
<1>k. \A r \in Requests : Kind[r] \in {"sync", "stream", "chat"}
  BY InlineConstants
<1>1. ASSUME NEW r \in Requests, NEW x, pc' = [pc EXCEPT ![r] = x],
             x \in {"responding", "abandoned", "vanished"} => Kind[r] = "stream",
             x = "broke" => Gated(r)
      PROVE  Places'
  BY <1>1 DEF TypeOK, Places, Gated
<1>2. ASSUME NEW r \in Requests,
             Admit(r) \/ TurnAway(r) \/ Step(r) \/ Vanish(r) \/ Leave(r)
      PROVE  Places'
  BY <1>1, <1>2
     DEF Places, Goto, Admit, TurnAway, Step, Vanish, Leave, FindCounter, Draw, OverQuota, Break,
         Start, Return, Iterate, Complete, Fail, Finish, Settle, Close
<1>3. CASE Crash \/ UNCHANGED vars
  BY <1>3 DEF Places, Crash, vars, Gated
<1> QED
  BY <1>2, <1>3 DEF Next

\* What one request does leaves the others as they are.
Alone(r) == \A q \in Requests : q # r =>
                /\ pc'[q] = pc[q] /\ row'[q] = row[q] /\ dirty'[q] = dirty[q]
                /\ (q \in drawn') <=> (q \in drawn)

\* Every step of a request is such.
LEMMA StepsAlone ==
    ASSUME TypeOK, NEW r \in Requests,
           Admit(r) \/ TurnAway(r) \/ Step(r) \/ Vanish(r) \/ Leave(r)
    PROVE  Alone(r)
<1> USE DEF TypeOK, Alone, Goto
<1>1. CASE Admit(r) \/ TurnAway(r) \/ FindCounter(r) \/ OverQuota(r) \/ Break(r) \/ Return(r)
           \/ Vanish(r) \/ Close(r)
  BY <1>1 DEF Admit, TurnAway, FindCounter, OverQuota, Break, Return, Vanish, Close
<1>2. CASE Draw(r) \/ Start(r) \/ Iterate(r) \/ Leave(r)
  BY <1>2 DEF Draw, Start, Iterate, Leave
<1>3. CASE Complete(r) \/ Fail(r) \/ Settle(r)
  BY <1>3 DEF Complete, Fail, Finish, Settle
<1> QED
  BY <1>1, <1>2, <1>3 DEF Step

\* A run is drawn before it exists, and a refusal draws nothing.
LEMMA DrawersNext == IInv /\ [Next]_vars => Drawers'
<1> SUFFICES ASSUME TypeOK, Drawers, Results, [Next]_vars PROVE Drawers'
  BY DEF IInv
<1> DEFINE D(r) == /\ pc[r] \in Drawing \cup {"new", "busy", "overquota"} =>
                          r \notin drawn /\ row[r] = "none"
                   /\ pc[r] \in Working \cup {"paid", "responding"} => r \in drawn
                   /\ row[r] # "none" => r \in drawn
<1>0. \A r \in Requests : D(r)
  BY DEF Drawers
<1> SUFFICES ASSUME NEW q \in Requests PROVE D(q)'
  BY DEF Drawers
<1>1. ASSUME NEW r \in Requests,
             Admit(r) \/ TurnAway(r) \/ Step(r) \/ Vanish(r) \/ Leave(r)
      PROVE  D(q)'
  <2>1. CASE q # r
    <3>1. /\ pc'[q] = pc[q] /\ row'[q] = row[q] /\ dirty'[q] = dirty[q]
          /\ (q \in drawn') <=> (q \in drawn)
      <4>1. Alone(r)
        BY <1>1, StepsAlone
      <4> QED
        BY <2>1, <4>1 DEF Alone
    <3> QED
      BY <1>0, <3>1
  <2>2. CASE q = r
    <3>0. D(r) /\ pc[r] \in States
      BY <1>0 DEF TypeOK
    <3> USE DEF Drawing, Working, Goto, TypeOK
    <3>1. CASE Admit(r) \/ TurnAway(r) \/ FindCounter(r) \/ OverQuota(r) \/ Break(r) \/ Return(r)
               \/ Vanish(r) \/ Close(r)
      BY <2>2, <3>0, <3>1 DEF Admit, TurnAway, FindCounter, OverQuota, Break, Return, Vanish, Close
    <3>2. CASE Draw(r) \/ Start(r) \/ Iterate(r) \/ Leave(r)
      BY <2>2, <3>0, <3>2 DEF Draw, Start, Iterate, Leave
    <3>3. CASE Complete(r) \/ Fail(r)
      BY <2>2, <3>0, <3>3 DEF Complete, Fail, Finish
    <3>4. CASE Settle(r)
      BY <2>2, <3>0, <3>4 DEF Settle
    <3> QED
      BY <1>1, <3>1, <3>2, <3>3, <3>4 DEF Step
  <2> QED
    BY <2>1, <2>2
<1>2. CASE Crash
  BY <1>0, <1>2 DEF Crash, Live, Drawing, Working, TypeOK
<1>3. CASE UNCHANGED vars
  BY <1>0, <1>3 DEF vars
<1> QED
  BY <1>1, <1>2, <1>3 DEF Next

\* An outcome is flushed with the last event, and committed before the answer ends.
LEMMA ResultsNext == IInv /\ [Next]_vars => Results'
<1> SUFFICES ASSUME TypeOK, Results, [Next]_vars PROVE Results'
  BY DEF IInv
<1> DEFINE R(r) == /\ pc[r] = "publishing" => dirty[r] = "complete"
                   /\ pc[r] = "failing" => dirty[r] = "failed"
                   /\ Kind[r] # "sync" /\ pc[r] = "done" => row[r] = "complete"
                   /\ Kind[r] # "sync" /\ pc[r] = "failed" => row[r] = "failed"
<1>0. \A r \in Requests : R(r)
  BY DEF Results
<1> SUFFICES ASSUME NEW q \in Requests PROVE R(q)'
  BY DEF Results
<1>1. ASSUME NEW r \in Requests,
             Admit(r) \/ TurnAway(r) \/ Step(r) \/ Vanish(r) \/ Leave(r)
      PROVE  R(q)'
  <2>1. CASE q # r
    <3>1. /\ pc'[q] = pc[q] /\ row'[q] = row[q] /\ dirty'[q] = dirty[q]
          /\ (q \in drawn') <=> (q \in drawn)
      <4>1. Alone(r)
        BY <1>1, StepsAlone
      <4> QED
        BY <2>1, <4>1 DEF Alone
    <3> QED
      BY <1>0, <3>1
  <2>2. CASE q = r
    <3>0. R(r)
      BY <1>0
    <3> USE DEF Goto, TypeOK
    <3>1. CASE Admit(r) \/ TurnAway(r) \/ FindCounter(r) \/ OverQuota(r) \/ Break(r) \/ Return(r)
               \/ Vanish(r) \/ Close(r)
      BY <2>2, <3>0, <3>1 DEF Admit, TurnAway, FindCounter, OverQuota, Break, Return, Vanish, Close
    <3>2. CASE Draw(r) \/ Start(r) \/ Iterate(r) \/ Leave(r)
      BY <2>2, <3>0, <3>2 DEF Draw, Start, Iterate, Leave
    <3>3. CASE Complete(r) \/ Fail(r)
      BY <2>2, <3>0, <3>3 DEF Complete, Fail, Finish
    <3>4. CASE Settle(r)
      BY <2>2, <3>0, <3>4 DEF Settle, Stored
    <3> QED
      BY <1>1, <3>1, <3>2, <3>3, <3>4 DEF Step
  <2> QED
    BY <2>1, <2>2
<1>2. CASE Crash
  BY <1>0, <1>2 DEF Crash, Live, Working, TypeOK
<1>3. CASE UNCHANGED vars
  BY <1>0, <1>3 DEF vars
<1> QED
  BY <1>1, <1>2, <1>3 DEF Next

\* The invariant holds of every behaviour.
LEMMA Invariance == Spec => []IInv
<1>1. IInv /\ [Next]_vars => IInv'
  BY TypeNext, SlotsNext, PlacesNext, DrawersNext, ResultsNext DEF IInv
<1> QED
  BY <1>1, InitInv, PTL DEF Spec
-----------------------------------------------------------------------------
(* The results.                                                            *)

\* Whatever refusals, failures, departures, races and restarts happen, no exit frees a
\* slot twice, the slots the gate has lost are those of the two faults, and the gated
\* runs are never more than the capacity.
THEOREM SlotsAreAccountedFor == Spec => []GateInv
<1>1. IInv => GateInv
  <2> SUFFICES ASSUME TypeOK, Slots PROVE GateInv
    BY DEF IInv
  <2>1. Cardinality({r \in Executing : Gated(r)}) <= Capacity
    BY Counted, InlineConstants DEF Slots
  <2> QED
    BY <2>1 DEF GateInv, SlotsAccountedFor, Slots
<1> QED
  BY <1>1, Invariance, PTL

\* No run exists that was not drawn from its caller's quota, and no caller who was
\* turned away has drawn one.
THEOREM RunsArePaid == Spec => []PaidIffAdmitted
<1>1. IInv => PaidIffAdmitted
  BY DEF IInv, Drawers, PaidIffAdmitted
<1> QED
  BY <1>1, Invariance, PTL

\* A stream or a background run that has told its outcome has committed it.
THEOREM OutcomesAreStored == Spec => []StreamOutcomeStored
<1>1. IInv => StreamOutcomeStored
  BY DEF IInv, Results, StreamOutcomeStored
<1> QED
  BY <1>1, Invariance, PTL
-----------------------------------------------------------------------------
(* When the count is exact.                                                *)

\* Nobody has met the race for a counter row, nobody has left before the stream.
Orderly == counters = Users /\ expired = {} /\ \A r \in Requests : pc[r] \notin {"inserting", "vanished", "broke"}

\* Without the two faults nobody meets the race or leaves early.
LEMMA OrderlyNext ==
    ASSUME ~EarlyDisconnects, IInv, Orderly, [Next]_vars
    PROVE  Orderly'
<1>0. TypeOK /\ counters = Users /\ expired = {} /\ \A r \in Requests : pc[r] \notin {"inserting", "vanished", "broke"}
  BY DEF IInv, Orderly
<1>1. ASSUME NEW r \in Requests,
             Admit(r) \/ TurnAway(r) \/ Step(r) \/ Vanish(r) \/ Leave(r)
      PROVE  Orderly'
  <2> USE DEF Orderly, TypeOK, Goto
  <2>1. CASE Draw(r)
    <3>1. pc[r] = "counting" \/ pc[r] = "inserting"
      BY <2>1 DEF Draw
    <3> QED
      BY <1>0, <2>1, <3>1, InlineConstants DEF Draw, Races
  <2>2. CASE \/ Admit(r) \/ TurnAway(r) \/ FindCounter(r) \/ OverQuota(r) \/ Break(r) \/ Start(r)
             \/ Return(r) \/ Iterate(r) \/ Vanish(r) \/ Leave(r) \/ Close(r)
    BY <1>0, <2>2, InlineConstants
       DEF Admit, TurnAway, FindCounter, OverQuota, Break, Start, Return, Iterate, Vanish,
           Leave, Close
  <2>3. CASE Complete(r) \/ Fail(r) \/ Settle(r)
    BY <1>0, <2>3 DEF Complete, Fail, Finish, Settle
  <2> QED
    BY <1>1, <2>1, <2>2, <2>3 DEF Step
<1>2. CASE Crash
  BY <1>0, <1>2 DEF Crash, Orderly, TypeOK
<1>3. CASE UNCHANGED vars
  BY <1>0, <1>3 DEF vars, Orderly
<1> QED
  BY <1>1, <1>2, <1>3 DEF Next

\* Without those two faults the gate's count is exactly the number of admitted
\* requests at work, on every other path through the endpoints, restarts included.
THEOREM CountIsExact ==
    ASSUME ~EarlyDisconnects, NewThisMonth = {}
    PROVE  Spec => []BusyMeansRunning
<1>1. Init => Orderly
  BY DEF Init, Orderly
<1>2. IInv /\ Orderly /\ [Next]_vars => Orderly'
  BY OrderlyNext
<1>3. IInv /\ Orderly => BusyMeansRunning
  <2> SUFFICES ASSUME IInv, Orderly PROVE BusyMeansRunning
    OBVIOUS
  <2>1. Leaking = {}
    BY DEF Orderly, Leaking
  <2>2. Cardinality(Leaking) = 0
    BY <2>1, FS_EmptySet
  <2> QED
    BY <2>2, Counted DEF IInv, Slots, BusyMeansRunning
<1> QED
  BY <1>1, <1>2, <1>3, Invariance, PTL DEF Spec
-----------------------------------------------------------------------------
(* The sliding window.                                                     *)

\* The runs of a caller; the third component of a grant numbers them.
Of(c)    == {g \in granted : g[1] = c}
Count(c) == Cardinality(Of(c))

Numbered(c) ==
    /\ IsFiniteSet(Of(c))
    /\ \A g \in Of(c) : g[2] <= now /\ g[3] < Count(c)
    /\ \A g, h \in Of(c) : /\ g[3] = h[3] => g = h
                           /\ g[3] <= h[3] => g[2] <= h[2]

\* What the budget says of two grants.
Spaced(c) == \A g, h \in Of(c) : g[3] + MaxRequests <= h[3] => g[2] + WindowTicks <= h[2]

\* The deque w holds the last runs, in their order, and what it has lost has expired.
Logs(w, c) ==
    /\ Len(w) <= Count(c)
    /\ \A i \in 1 .. Len(w) : <<c, w[i], Count(c) - Len(w) + i - 1>> \in Of(c)
    /\ \A g \in Of(c) : g[3] < Count(c) - Len(w) => Expired(g[2])

\* A promise is for the time the oldest run leaves the window, or later.
Promise(c) ==
    promised[c] > 0 => Len(Deque(c)) < MaxRequests \/ Deque(c)[1] + WindowTicks <= promised[c]

Exact(c) == Numbered(c) /\ Spaced(c) /\ Logs(Deque(c), c) /\ Promise(c)

LimiterIInv == LimiterTypeOK /\ \A c \in Callers : Exact(c)
-----------------------------------------------------------------------------
(* Numbers, windows and deques.                                            *)

\* A set of numbers has a least one,
LEMMA Least ==
    ASSUME NEW S \in SUBSET Nat, S # {}
    PROVE  \E m \in S : \A n \in S : m <= n
<1>1. PICK m \in S : \A n \in S : ~(<<n, m>> \in OpToRel(<, Nat))
  BY NatLessThanWellFounded, WFMin, Zenon
<1>2. \A n \in S : ~(n < m)
  BY <1>1 DEF OpToRel
<1> QED
  BY <1>2

\* which is its minimum.
LEMMA Minimum ==
    ASSUME NEW S \in SUBSET Nat, S # {}
    PROVE  Min(S) \in S /\ \A n \in S : Min(S) <= n
BY Least DEF Min

\* int(x) + 1 seconds are more than x ticks, by at most a second.
LEMMA WholeSeconds ==
    ASSUME NEW x \in Nat
    PROVE  /\ Second * (x \div Second + 1) \in Nat
           /\ x < Second * (x \div Second + 1)
           /\ Second * (x \div Second + 1) <= x + Second
<1>1. Second \in Nat /\ Second > 0
  BY LimiterConstants
<1> DEFINE q == x \div Second
           r == x % Second
<1>2. q \in Nat /\ r \in 0 .. Second - 1 /\ x = Second * q + r
  BY <1>1
<1> HIDE DEF q, r
<1>3. Second * (q + 1) = Second * q + Second
  BY <1>1, <1>2
<1>4. Second * q \in Nat
  BY <1>1, <1>2
<1> QED
  BY <1>1, <1>2, <1>3, <1>4 DEF q

\* The windows, as sequences.
LEMMA WindowsAreSequences ==
    /\ \A w \in Windows : /\ w \in Seq(Clock) /\ DOMAIN w = 1 .. Len(w)
                          /\ Len(w) \in 0 .. MaxRequests /\ \A i \in 1 .. Len(w) : w[i] \in Clock
    /\ \A w \in Seq(Clock) : Len(w) <= MaxRequests => w \in Windows
    /\ <<>> \in Windows
<1>1. ASSUME NEW w \in Windows
      PROVE  /\ w \in Seq(Clock) /\ DOMAIN w = 1 .. Len(w)
             /\ Len(w) \in 0 .. MaxRequests /\ \A i \in 1 .. Len(w) : w[i] \in Clock
  <2>1. PICK n \in 0 .. MaxRequests : w \in [1 .. n -> Clock]
    BY DEF Windows
  <2>2. n \in Nat
    BY LimiterConstants
  <2>3. w \in Seq(Clock)
    BY <2>1, <2>2, SeqDef
  <2>4. Len(w) = n
    BY <2>1, <2>2, <2>3, LenProperties
  <2> QED
    BY <2>1, <2>3, <2>4
<1>2. ASSUME NEW w \in Seq(Clock), Len(w) <= MaxRequests PROVE w \in Windows
  <2>1. Len(w) \in 0 .. MaxRequests /\ w \in [1 .. Len(w) -> Clock]
    BY <1>2, LenProperties, LimiterConstants
  <2> QED
    BY <2>1 DEF Windows
<1>3. <<>> \in Windows
  <2>1. 0 \in 0 .. MaxRequests
    BY LimiterConstants
  <2>2. <<>> \in [1 .. 0 -> Clock]
    OBVIOUS
  <2> QED
    BY <2>1, <2>2 DEF Windows
<1> QED
  BY <1>1, <1>2, <1>3

\* popleft takes a prefix of expired runs, and stops at one that has not expired.
LEMMA Suffix ==
    ASSUME NEW w \in Windows
    PROVE  \E k \in 0 .. Len(w) :
              /\ Cleaned(w) \in Windows
              /\ Len(Cleaned(w)) = Len(w) - k
              /\ \A i \in 1 .. Len(w) - k : Cleaned(w)[i] = w[k + i]
              /\ \A i \in 1 .. k : Expired(w[i])
              /\ k < Len(w) => ~Expired(w[k + 1])
<1> DEFINE live == {i \in DOMAIN w : ~Expired(w[i])}
<1>1. w \in Seq(Clock) /\ DOMAIN w = 1 .. Len(w) /\ Len(w) \in 0 .. MaxRequests
      /\ \A i \in 1 .. Len(w) : w[i] \in Clock
  BY WindowsAreSequences
<1>2. MaxRequests \in Nat /\ Len(w) \in Nat
  BY <1>1, LimiterConstants
<1>3. CASE live = {}
  <2>1. Cleaned(w) = <<>>
    BY <1>3 DEF Cleaned
  <2>2. <<>> \in Windows /\ Len(<<>>) = 0
    <3>1. <<>> \in Windows
      BY WindowsAreSequences
    <3> QED
      BY <3>1, EmptySeq
  <2>3. \A i \in 1 .. Len(w) : Expired(w[i])
    BY <1>1, <1>3
  <2> WITNESS Len(w) \in 0 .. Len(w)
  <2> QED
    BY <2>1, <2>2, <2>3, <1>2
<1>4. CASE live # {}
  <2> DEFINE m == Min(live)
  <2>1. m \in live /\ \A n \in live : m <= n
    <3>1. live \in SUBSET Nat
      BY <1>1, <1>2
    <3> HIDE DEF live
    <3> QED
      BY <3>1, <1>4, Minimum
  <2>2. Cleaned(w) = SubSeq(w, m, Len(w))
    BY <1>4 DEF Cleaned
  <2>3. m \in 1 .. Len(w) /\ ~Expired(w[m])
    BY <2>1, <1>1
  <2> HIDE DEF m
  <2>4. /\ Cleaned(w) \in Seq(Clock)
        /\ Len(Cleaned(w)) = Len(w) - m + 1
        /\ \A i \in 1 .. Len(w) - m + 1 : Cleaned(w)[i] = w[m + i - 1]
    BY <2>2, <2>3, <1>1, <1>2, SubSeqProperties
  <2>5. Cleaned(w) \in Windows
    BY <2>3, <2>4, <1>1, <1>2, WindowsAreSequences
  <2>6. \A i \in 1 .. m - 1 : Expired(w[i])
    <3> SUFFICES ASSUME NEW i \in 1 .. m - 1, ~Expired(w[i]) PROVE FALSE
      OBVIOUS
    <3>1. i \in live
      BY <2>3, <1>1, <1>2
    <3> QED
      BY <3>1, <2>1, <2>3
  <2>7. /\ m - 1 \in 0 .. Len(w)
        /\ Len(Cleaned(w)) = Len(w) - (m - 1)
        /\ \A i \in 1 .. Len(w) - (m - 1) : Cleaned(w)[i] = w[(m - 1) + i]
        /\ m - 1 < Len(w) => ~Expired(w[(m - 1) + 1])
    BY <2>3, <2>4, <1>2
  <2> QED
    BY <2>5, <2>6, <2>7
<1> QED
  BY <1>3, <1>4

\* Coming back cleans the deque: it still logs the caller's runs, only those of the
\* window, and it has lost its oldest run if that had expired.
LEMMA Cleaning ==
    ASSUME LimiterTypeOK, NEW c \in Callers, Numbered(c), Logs(Deque(c), c)
    PROVE  /\ Deque(c) \in Windows /\ Window(c) \in Windows
           /\ Logs(Window(c), c)
           /\ \A i \in 1 .. Len(Window(c)) : ~Expired(Window(c)[i])
           /\ Len(Window(c)) <= Len(Deque(c))
           /\ Len(Deque(c)) > 0 /\ Expired(Deque(c)[1]) => Len(Window(c)) < Len(Deque(c))
<1> DEFINE w == Deque(c)
           v == Window(c)
<1>1. w \in Windows
  BY WindowsAreSequences DEF LimiterTypeOK, Deque
<1>2. /\ Len(w) \in Nat /\ \A i \in 1 .. Len(w) : w[i] \in Clock
  BY <1>1, WindowsAreSequences, LimiterConstants
<1>3. PICK k \in 0 .. Len(w) :
              /\ v \in Windows
              /\ Len(v) = Len(w) - k
              /\ \A i \in 1 .. Len(w) - k : v[i] = w[k + i]
              /\ \A i \in 1 .. k : Expired(w[i])
              /\ k < Len(w) => ~Expired(w[k + 1])
  BY <1>1, Suffix DEF Window
<1>4. Count(c) \in Nat
  BY FS_CardinalityType DEF Numbered, Count
<1>5. /\ Len(w) <= Count(c)
      /\ \A i \in 1 .. Len(w) : <<c, w[i], Count(c) - Len(w) + i - 1>> \in Of(c)
      /\ \A g \in Of(c) : g[3] < Count(c) - Len(w) => Expired(g[2])
  BY DEF Logs
<1>6. \A g \in Of(c) : g[3] \in Nat
  BY DEF LimiterTypeOK, Of
<1> HIDE DEF w, v
<1>7. Len(v) \in Nat /\ Len(v) <= Len(w) /\ Len(v) <= Count(c)
  BY <1>2, <1>3, <1>4, <1>5
<1>8. ASSUME NEW i \in 1 .. Len(v)
      PROVE  <<c, v[i], Count(c) - Len(v) + i - 1>> \in Of(c) /\ ~Expired(v[i])
  <2>1. k + i \in 1 .. Len(w) /\ v[i] = w[k + i]
    BY <1>2, <1>3
  <2>2. Count(c) - Len(w) + (k + i) - 1 = Count(c) - Len(v) + i - 1
    BY <1>2, <1>3, <1>4
  <2>3. <<c, v[i], Count(c) - Len(v) + i - 1>> \in Of(c)
    BY <2>1, <2>2, <1>5
  <2>4. k < Len(w) /\ k + 1 \in 1 .. Len(w) /\ ~Expired(w[k + 1])
    BY <1>2, <1>3
  <2>5. w[k + 1] <= w[k + i]
    <3> DEFINE g == <<c, w[k + 1], Count(c) - Len(w) + (k + 1) - 1>>
               h == <<c, w[k + i], Count(c) - Len(w) + (k + i) - 1>>
    <3>1. g \in Of(c) /\ h \in Of(c)
      BY <2>1, <2>4, <1>5
    <3>2. g[3] <= h[3]
      BY <1>2, <1>4
    <3> QED
      BY <3>1, <3>2 DEF Numbered
  <2>6. w[k + 1] \in Nat /\ w[k + i] \in Nat /\ now \in Nat /\ WindowTicks \in Nat
    BY <2>1, <2>4, <1>2, LimiterConstants DEF LimiterTypeOK, Clock
  <2> QED
    BY <2>1, <2>3, <2>4, <2>5, <2>6 DEF Expired
<1>9. ASSUME NEW g \in Of(c), g[3] < Count(c) - Len(v) PROVE Expired(g[2])
  <2>1. CASE g[3] < Count(c) - Len(w)
    BY <2>1, <1>5
  <2>2. CASE ~(g[3] < Count(c) - Len(w))
    <3> DEFINE i == g[3] - (Count(c) - Len(w)) + 1
    <3>1. i \in 1 .. k /\ i \in 1 .. Len(w)
      BY <2>2, <1>2, <1>3, <1>4, <1>6, <1>9
    <3>2. Count(c) - Len(w) + i - 1 = g[3]
      BY <1>2, <1>4, <1>6
    <3>3. <<c, w[i], g[3]>> \in Of(c)
      BY <3>1, <3>2, <1>5
    <3> HIDE DEF i
    <3>4. g = <<c, w[i], g[3]>>
      BY <3>3 DEF Numbered
    <3> QED
      BY <3>1, <3>4, <1>3
  <2> QED
    BY <2>1, <2>2
<1>10. Len(w) > 0 /\ Expired(w[1]) => Len(v) < Len(w)
  BY <1>2, <1>3
<1> QED
  BY <1>1, <1>3, <1>7, <1>8, <1>9, <1>10 DEF Logs, w, v
-----------------------------------------------------------------------------
(* The invariant.                                                          *)

\* The invariant holds at first.
LEMMA LimiterStart == LimiterInit => LimiterIInv
<1> SUFFICES ASSUME LimiterInit PROVE LimiterIInv
  OBVIOUS
<1>1. LimiterTypeOK
  BY LimiterConstants DEF LimiterInit, LimiterTypeOK, Clock
<1>2. ASSUME NEW c \in Callers PROVE Exact(c)
  <2>1. Of(c) = {} /\ Deque(c) = <<>> /\ promised[c] = 0
    BY DEF LimiterInit, Of, Deque
  <2>2. Count(c) = 0 /\ IsFiniteSet(Of(c))
    BY <2>1, FS_EmptySet DEF Count
  <2> QED
    BY <2>1, <2>2 DEF Exact, Numbered, Spaced, Logs, Promise
<1> QED
  BY <1>1, <1>2 DEF LimiterIInv

\* A grant is the caller's last, and changes nobody else's.
LEMMA Granting ==
    ASSUME LimiterTypeOK, NEW c \in Callers, Numbered(c), Allow(c)
    PROVE  /\ Count(c) \in Nat /\ now \in Clock
           /\ Of(c)' = Of(c) \cup {<<c, now, Count(c)>>}
           /\ Count(c)' = Count(c) + 1 /\ IsFiniteSet(Of(c)')
           /\ \A d \in Callers \ {c} : Of(d)' = Of(d)
<1>1. Count(c) \in Nat
  BY FS_CardinalityType DEF Numbered, Count
<1>2. granted' = granted \cup {<<c, now, Count(c)>>}
  BY DEF Allow, Count, Of
<1>3. Of(c)' = Of(c) \cup {<<c, now, Count(c)>>}
  BY <1>2 DEF Of
<1>4. <<c, now, Count(c)>> \notin Of(c)
  BY <1>1 DEF Numbered
<1>5. Count(c)' = Count(c) + 1 /\ IsFiniteSet(Of(c)')
  BY <1>3, <1>4, FS_AddElement DEF Numbered, Count
<1>6. \A d \in Callers \ {c} : Of(d)' = Of(d)
  BY <1>2 DEF Of
<1> QED
  BY <1>1, <1>3, <1>5, <1>6 DEF LimiterTypeOK

\* Every step keeps the types.
LEMMA LimiterTypeNext == LimiterIInv /\ [LimiterNext]_limiterVars => LimiterTypeOK'
<1> SUFFICES ASSUME LimiterIInv, [LimiterNext]_limiterVars PROVE LimiterTypeOK'
  OBVIOUS
<1> USE LimiterConstants
<1>0. LimiterTypeOK
  BY DEF LimiterIInv
<1>1. CASE UNCHANGED limiterVars
  BY <1>0, <1>1 DEF LimiterTypeOK, limiterVars
<1>2. CASE Tick
  BY <1>0, <1>2 DEF Tick, LimiterTypeOK, Clock
<1>3. CASE Prune
  <2>1. /\ DOMAIN events' \subseteq DOMAIN events
        /\ \A c \in DOMAIN events' : events'[c] = events[c]
    BY <1>3 DEF Prune, Restrict
  <2> QED
    BY <2>1, <1>0, <1>3 DEF Prune, LimiterTypeOK
<1>4. ASSUME NEW c \in Callers, Allow(c) PROVE LimiterTypeOK'
  <2>1. Numbered(c) /\ Logs(Deque(c), c)
    BY DEF LimiterIInv, Exact
  <2>2. /\ Window(c) \in Windows /\ Len(Window(c)) < MaxRequests
        /\ Len(Window(c)) \in Nat /\ Window(c) \in Seq(Clock)
    BY <1>0, <1>4, <2>1, Cleaning, WindowsAreSequences DEF Allow, Spent
  <2>3. Append(Window(c), now) \in Windows
    <3>1. now \in Clock
      BY <1>0 DEF LimiterTypeOK
    <3>2. /\ Append(Window(c), now) \in Seq(Clock)
          /\ Len(Append(Window(c), now)) <= MaxRequests
      BY <2>2, <3>1, AppendProperties
    <3> QED
      BY <3>2, WindowsAreSequences, Zenon
  <2>4. /\ DOMAIN events' = DOMAIN events \cup {c}
        /\ \A d \in DOMAIN events' : events'[d] = IF d = c THEN Append(Window(c), now) ELSE events[d]
    BY <1>4 DEF Allow, Keep
  <2>5. granted' \subseteq Callers \X Clock \X Nat
    <3>1. granted' = granted \cup {<<c, now, Count(c)>>}
      BY <1>4 DEF Allow, Count, Of
    <3>2. Count(c) \in Nat
      BY <1>0, <1>4, <2>1, Granting
    <3> QED
      BY <3>1, <3>2, <1>0 DEF LimiterTypeOK
  <2>6. promised' \in [Callers -> 0 .. LastTick + WindowTicks + Second]
    BY <1>0, <1>4 DEF Allow, LimiterTypeOK
  <2> QED
    BY <1>0, <1>4, <2>3, <2>4, <2>5, <2>6 DEF Allow, LimiterTypeOK
<1>5. ASSUME NEW c \in Callers, Refuse(c) PROVE LimiterTypeOK'
  <2>1. Numbered(c) /\ Logs(Deque(c), c)
    BY DEF LimiterIInv, Exact
  <2>2. Window(c) \in Windows
    BY <1>0, <2>1, Cleaning
  <2>3. /\ DOMAIN events' = DOMAIN events \cup {c}
        /\ \A d \in DOMAIN events' : events'[d] = IF d = c THEN Window(c) ELSE events[d]
    BY <1>5 DEF Refuse, Keep
  <2>4. promised' \in [Callers -> 0 .. LastTick + WindowTicks + Second]
    <3> DEFINE h == Window(c)[1]
               x == h + WindowTicks - now
    <3>1. Len(Window(c)) \in Nat /\ Len(Window(c)) >= MaxRequests
      BY <2>2, <1>5, WindowsAreSequences DEF Refuse, Spent
    <3>2. h \in Clock /\ ~Expired(h)
      BY <3>1, <2>2, <1>0, <2>1, Cleaning, WindowsAreSequences
    <3>3. now \in Clock
      BY <1>0 DEF LimiterTypeOK
    <3>4. x \in Nat /\ x <= LastTick + WindowTicks - now
      BY <3>2, <3>3 DEF Expired, Clock
    <3>5. RetryAfter(Window(c)) = x \div Second + 1
      BY DEF RetryAfter
    <3>6. now + Second * RetryAfter(Window(c)) \in 0 .. LastTick + WindowTicks + Second
      <4>1. /\ Second * (x \div Second + 1) \in Nat
            /\ Second * (x \div Second + 1) <= x + Second
        BY <3>4, WholeSeconds
      <4> DEFINE wait == Second * (x \div Second + 1)
      <4>2. Second * RetryAfter(Window(c)) = wait
        BY <3>5
      <4> HIDE DEF wait
      <4>3. wait \in Nat /\ wait <= x + Second
        BY <4>1 DEF wait
      <4> HIDE DEF x
      <4>4. now + wait \in 0 .. LastTick + WindowTicks + Second
        BY <4>3, <3>3, <3>4 DEF Clock
      <4> QED
        BY <4>2, <4>4
    <3> QED
      BY <3>6, <1>0, <1>5 DEF Refuse, LimiterTypeOK
  <2> QED
    BY <1>0, <1>5, <2>2, <2>3, <2>4 DEF Refuse, LimiterTypeOK
<1> QED
  BY <1>1, <1>2, <1>3, <1>4, <1>5 DEF LimiterNext

\* What does not concern a caller leaves its invariant alone.
LEMMA Others ==
    ASSUME NEW c \in Callers, Exact(c), now' = now,
           Of(c)' = Of(c), Deque(c)' = Deque(c), promised'[c] = promised[c]
    PROVE  Exact(c)'
<1>1. Count(c)' = Count(c)
  BY DEF Count
<1>2. Numbered(c)' /\ Spaced(c)' /\ Promise(c)'
  BY <1>1 DEF Exact, Numbered, Spaced, Promise
<1>3. Logs(Deque(c), c)'
  BY <1>1 DEF Exact, Logs, Expired
<1> QED
  BY <1>2, <1>3 DEF Exact

\* Time passing keeps a caller's books exact,
LEMMA TickNext ==
    ASSUME LimiterTypeOK, NEW c \in Callers, Exact(c), Tick
    PROVE  Exact(c)'
<1>1. /\ Of(c)' = Of(c) /\ Deque(c)' = Deque(c) /\ promised' = promised
      /\ now' = now + 1 /\ now \in Nat /\ WindowTicks \in Nat
  BY LimiterConstants DEF Tick, Of, Deque, LimiterTypeOK, Clock
<1>2. Count(c)' = Count(c)
  BY <1>1 DEF Count
<1>3. \A g \in Of(c) : g[2] \in Nat
  BY DEF LimiterTypeOK, Clock, Of
<1>4. Numbered(c)' /\ Spaced(c)' /\ Promise(c)'
  BY <1>1, <1>2, <1>3 DEF Exact, Numbered, Spaced, Promise
<1>5. Logs(Deque(c), c)'
  <2>1. \A g \in Of(c) : Expired(g[2]) => Expired(g[2])'
    BY <1>1, <1>3 DEF Expired
  <2> QED
    BY <2>1, <1>1, <1>2 DEF Exact, Logs
<1> QED
  BY <1>4, <1>5 DEF Exact

\* A caller that is forgotten has no run left in the window.
LEMMA PruneNext ==
    ASSUME LimiterTypeOK, NEW c \in Callers, Exact(c), Prune
    PROVE  Exact(c)'
<1>1. Of(c)' = Of(c) /\ now' = now /\ promised' = promised
  BY DEF Prune, Of
<1>2. CASE Deque(c)' = Deque(c)
  BY <1>1, <1>2, Others
<1>3. CASE Deque(c)' # Deque(c)
  <2>1. c \in DOMAIN events /\ Idle(c) /\ Deque(c)' = <<>>
    BY <1>3 DEF Prune, Restrict, Deque
  <2> DEFINE w == Deque(c)
  <2>2. w = events[c]
    BY <2>1 DEF Deque
  <2>3. w \in Windows /\ Len(w) \in Nat /\ DOMAIN w = 1 .. Len(w)
        /\ \A i \in 1 .. Len(w) : w[i] \in Clock
    BY <2>1, <2>2, WindowsAreSequences DEF LimiterTypeOK
  <2>4. w # <<>> => Len(w) > 0 /\ w[Len(w)] <= now - WindowTicks
    <3>1. w # <<>> => Len(w) > 0
      BY <2>3, WindowsAreSequences, EmptySeq
    <3> QED
      BY <3>1, <2>1, <2>2 DEF Idle, Last
  <2>5. Count(c) \in Nat /\ \A g \in Of(c) : g[3] \in Nat /\ g[2] \in Nat
    BY FS_CardinalityType DEF Exact, Numbered, Count, LimiterTypeOK, Of, Clock
  <2>6. Numbered(c) /\ Logs(w, c)
    BY DEF Exact
  <2> HIDE DEF w
  <2>7. ASSUME NEW g \in Of(c) PROVE Expired(g[2])
    <3>1. CASE g[3] < Count(c) - Len(w)
      BY <3>1, <2>6 DEF Logs
    <3>2. CASE ~(g[3] < Count(c) - Len(w))
      <4>1. g[3] < Count(c)
        BY <2>6 DEF Numbered
      <4>2. Len(w) > 0
        BY <4>1, <3>2, <2>3, <2>5
      <4> DEFINE h == <<c, w[Len(w)], Count(c) - Len(w) + Len(w) - 1>>
      <4>3. h \in Of(c)
        BY <4>2, <2>3, <2>6 DEF Logs
      <4>4. g[3] <= h[3]
        BY <4>1, <2>3, <2>5
      <4>5. g[2] <= w[Len(w)]
        BY <4>3, <4>4, <2>6 DEF Numbered
      <4>6. w # <<>>
        BY <4>2
      <4>7. /\ w[Len(w)] \in Nat /\ now \in Nat /\ WindowTicks \in Nat
            /\ w[Len(w)] <= now - WindowTicks
        BY <4>2, <4>6, <2>3, <2>4, LimiterConstants DEF LimiterTypeOK, Clock
      <4> QED
        BY <4>5, <4>7, <2>5 DEF Expired
    <3> QED
      BY <3>1, <3>2
  <2>8. Count(c)' = Count(c)
    BY <1>1 DEF Count
  <2>9. Logs(Deque(c), c)'
    <3>1. \A g \in Of(c)' : Expired(g[2])'
      BY <1>1, <2>7 DEF Expired
    <3>2. Len(Deque(c)') = 0
      BY <2>1
    <3> QED
      BY <3>1, <3>2, <2>5, <2>8 DEF Logs
  <2>10. Numbered(c)' /\ Spaced(c)'
    BY <1>1, <2>8 DEF Exact, Numbered, Spaced
  <2>11. Promise(c)'
    BY <2>1, LimiterConstants DEF Promise
  <2> QED
    BY <2>9, <2>10, <2>11 DEF Exact
<1> QED
  BY <1>2, <1>3

\* What Allow and Refuse leave in the deque of their caller, and of the others.
LEMMA Kept ==
    ASSUME NEW c \in Callers, NEW w, events' = Keep(c, w)
    PROVE  Deque(c)' = w /\ \A d \in Callers \ {c} : Deque(d)' = Deque(d)
BY DEF Keep, Deque

\* and so does a refusal.
LEMMA RefuseNext ==
    ASSUME LimiterTypeOK, NEW c \in Callers, Exact(c), Refuse(c)
    PROVE  Exact(c)'
<1> DEFINE v == Window(c)
<1>1. /\ Of(c)' = Of(c) /\ now' = now /\ Deque(c)' = v
      /\ promised' = [promised EXCEPT ![c] = now + Second * RetryAfter(v)]
  BY Kept DEF Refuse, Of
<1>2. Count(c)' = Count(c)
  BY <1>1 DEF Count
<1>3. /\ v \in Windows /\ Logs(v, c) /\ \A i \in 1 .. Len(v) : ~Expired(v[i])
  BY Cleaning DEF Exact
<1>4. Numbered(c)' /\ Spaced(c)'
  BY <1>1, <1>2 DEF Exact, Numbered, Spaced
<1> HIDE DEF v
<1>5. Logs(Deque(c), c)'
  BY <1>1, <1>2, <1>3 DEF Logs, Expired
<1>6. v[1] + WindowTicks <= promised'[c]
  <2> DEFINE x == v[1] + WindowTicks - now
             wait == Second * (x \div Second + 1)
  <2>1. Len(v) >= MaxRequests
    BY DEF Refuse, Spent, v
  <2>2. 1 \in 1 .. Len(v)
    BY <2>1, <1>3, LimiterConstants, WindowsAreSequences
  <2>3. v[1] \in Nat /\ now \in Nat /\ ~Expired(v[1])
    BY <2>2, <1>3, WindowsAreSequences DEF Clock, LimiterTypeOK
  <2>4. x \in Nat
    BY <2>3, LimiterConstants DEF Expired
  <2>5. wait \in Nat /\ x < wait
    BY <2>4, WholeSeconds
  <2>6. promised'[c] = now + wait
    BY <1>1 DEF RetryAfter, LimiterTypeOK
  <2> HIDE DEF wait
  <2> QED
    BY <2>3, <2>4, <2>5, <2>6, LimiterConstants
<1>7. Promise(c)'
  BY <1>1, <1>6 DEF Promise
<1> QED
  BY <1>4, <1>5, <1>7 DEF Exact

\* The run let through is the caller's last; the one MaxRequests before it is no longer
\* in the deque, and so has expired.
LEMMA AllowNext ==
    ASSUME LimiterTypeOK, NEW c \in Callers, Exact(c), Allow(c)
    PROVE  Exact(c)'
<1> DEFINE v == Window(c)
           n == Count(c)
           last == <<c, now, n>>
<1>1. /\ v \in Windows /\ Logs(v, c)
      /\ Len(v) \in Nat /\ Len(v) < MaxRequests /\ v \in Seq(Clock)
      /\ now' = now /\ promised'[c] = 0 /\ events' = Keep(c, Append(v, now))
  <2>1. Numbered(c) /\ Logs(Deque(c), c)
    BY DEF Exact
  <2>2. v \in Windows /\ Logs(v, c)
    BY <2>1, Cleaning
  <2>3. ~Spent(v) /\ now' = now /\ events' = Keep(c, Append(v, now))
    BY DEF Allow
  <2>4. promised'[c] = 0
    BY DEF Allow, LimiterTypeOK
  <2> HIDE DEF v
  <2>5. Len(v) \in Nat /\ Len(v) < MaxRequests /\ v \in Seq(Clock)
    BY <2>2, <2>3, LimiterConstants, WindowsAreSequences DEF Spent
  <2> QED
    BY <2>2, <2>3, <2>4, <2>5
<1>2. /\ n \in Nat /\ now \in Nat /\ now \in Clock
      /\ Of(c)' = Of(c) \cup {last} /\ Count(c)' = n + 1 /\ IsFiniteSet(Of(c)')
  BY Granting DEF Exact, Clock
<1>3. \A g \in Of(c) : g[3] \in Nat /\ g[2] \in Nat
  BY DEF LimiterTypeOK, Of, Clock
<1>4. Numbered(c) /\ Spaced(c)
  BY DEF Exact
<1>5. last[2] = now /\ last[3] = n
  OBVIOUS
<1>6. WindowTicks \in Nat /\ MaxRequests \in Nat /\ MaxRequests > 0
  BY LimiterConstants
<1>7. Deque(c)' = Append(v, now)
  BY <1>1, Kept
<1> HIDE DEF v, n, last
<1>8. \A g \in Of(c) : g[2] <= now /\ g[3] < n
  BY <1>4 DEF Numbered, n
<1>9. Numbered(c)'
  <2>1. ASSUME NEW g \in Of(c)' PROVE g[2] <= now /\ g[3] < n + 1
    BY <1>2, <1>3, <1>5, <1>8
  <2>2. ASSUME NEW g \in Of(c)', NEW h \in Of(c)'
        PROVE  (g[3] = h[3] => g = h) /\ (g[3] <= h[3] => g[2] <= h[2])
    <3>1. CASE g \in Of(c) /\ h \in Of(c)
      BY <3>1, <1>4 DEF Numbered
    <3>2. CASE g = last \/ h = last
      BY <3>2, <1>2, <1>3, <1>5, <1>8
    <3> QED
      BY <3>1, <3>2, <1>2
  <2> QED
    BY <2>1, <2>2, <1>1, <1>2 DEF Numbered
<1>10. Spaced(c)'
  <2> SUFFICES ASSUME NEW g \in Of(c)', NEW h \in Of(c)', g[3] + MaxRequests <= h[3]
               PROVE  g[2] + WindowTicks <= h[2]
    BY DEF Spaced
  <2>1. CASE g \in Of(c) /\ h \in Of(c)
    BY <2>1, <1>4 DEF Spaced
  <2>2. CASE g \in Of(c) /\ h = last
    <3>1. g[3] < n - Len(v)
      BY <2>2, <1>1, <1>2, <1>3, <1>5, <1>6
    <3>2. Expired(g[2])
      BY <2>2, <3>1, <1>1 DEF Logs, n
    <3> QED
      BY <2>2, <3>2, <1>2, <1>3, <1>5, <1>6 DEF Expired
  <2>3. CASE g = last
    BY <2>3, <1>2, <1>3, <1>5, <1>6, <1>8
  <2> QED
    BY <2>1, <2>2, <2>3, <1>2
<1>11. Logs(Deque(c), c)'
  <2> DEFINE u == Append(v, now)
  <2>1. /\ Len(u) = Len(v) + 1 /\ u[Len(v) + 1] = now
        /\ \A i \in 1 .. Len(v) : u[i] = v[i]
    BY <1>1, <1>2, AppendProperties
  <2> HIDE DEF u
  <2>2. /\ Len(v) <= n
        /\ \A i \in 1 .. Len(v) : <<c, v[i], n - Len(v) + i - 1>> \in Of(c)
        /\ \A g \in Of(c) : g[3] < n - Len(v) => Expired(g[2])
    BY <1>1 DEF Logs, n
  <2>3. ASSUME NEW i \in 1 .. Len(u)
        PROVE  <<c, u[i], (n + 1) - Len(u) + i - 1>> \in Of(c)'
    <3>1. CASE i = Len(v) + 1
      <4>1. (n + 1) - Len(u) + i - 1 = n
        BY <3>1, <2>1, <1>1, <1>2
      <4> QED
        BY <4>1, <3>1, <2>1, <1>2 DEF last
    <3>2. CASE i \in 1 .. Len(v)
      <4>1. (n + 1) - Len(u) + i - 1 = n - Len(v) + i - 1
        BY <3>2, <2>1, <1>1, <1>2
      <4> QED
        BY <4>1, <3>2, <2>1, <2>2, <1>2
    <3> QED
      BY <3>1, <3>2, <2>1, <1>1
  <2>4. ASSUME NEW g \in Of(c)', g[3] < (n + 1) - Len(u) PROVE Expired(g[2])'
    <3>1. g \in Of(c)
      BY <2>4, <2>1, <1>1, <1>2, <1>5
    <3>2. Expired(g[2])
      BY <3>1, <2>4, <2>1, <2>2, <1>1, <1>2, <1>3
    <3> QED
      BY <3>2, <1>1 DEF Expired
  <2>5. Len(u) <= n + 1
    BY <2>1, <2>2, <1>1, <1>2
  <2>6. Deque(c)' = u
    BY <1>7 DEF u
  <2> QED
    BY <2>3, <2>4, <2>5, <2>6, <1>2 DEF Logs
<1>12. Promise(c)'
  BY <1>1 DEF Promise
<1> QED
  BY <1>9, <1>10, <1>11, <1>12 DEF Exact

\* The limiter's invariant is inductive.
LEMMA LimiterInvariance == LimiterSpec => []LimiterIInv
<1>1. LimiterIInv /\ [LimiterNext]_limiterVars => LimiterIInv'
  <2> SUFFICES ASSUME LimiterIInv, [LimiterNext]_limiterVars PROVE LimiterIInv'
    OBVIOUS
  <2>1. LimiterTypeOK /\ LimiterTypeOK' /\ \A c \in Callers : Exact(c)
    BY LimiterTypeNext DEF LimiterIInv
  <2> SUFFICES ASSUME NEW c \in Callers PROVE Exact(c)'
    BY <2>1 DEF LimiterIInv
  <2>2. CASE UNCHANGED limiterVars
    <3>1. now' = now /\ Of(c)' = Of(c) /\ Deque(c)' = Deque(c) /\ promised'[c] = promised[c]
      BY <2>2 DEF limiterVars, Of, Deque
    <3> QED
      BY <3>1, <2>1, Others
  <2>3. CASE Tick
    BY <2>1, <2>3, TickNext
  <2>4. CASE Prune
    BY <2>1, <2>4, PruneNext
  <2>5. ASSUME NEW d \in Callers, Allow(d) \/ Refuse(d) PROVE Exact(c)'
    <3>1. CASE d = c
      BY <3>1, <2>1, <2>5, AllowNext, RefuseNext
    <3>2. CASE d # c
      <4>1. Of(c)' = Of(c)
        <5>1. CASE Allow(d)
          BY <5>1, <3>2, <2>1, Granting DEF Exact
        <5>2. CASE Refuse(d)
          BY <5>2 DEF Refuse, Of
        <5> QED
          BY <5>1, <5>2, <2>5
      <4>2. Deque(c)' = Deque(c) /\ now' = now
        BY <2>5, <3>2, Kept DEF Allow, Refuse
      <4>3. promised'[c] = promised[c]
        BY <2>1, <2>5, <3>2 DEF Allow, Refuse, LimiterTypeOK
      <4> QED
        BY <4>1, <4>2, <4>3, <2>1, Others
    <3> QED
      BY <3>1, <3>2
  <2> QED
    BY <2>2, <2>3, <2>4, <2>5 DEF LimiterNext
<1> QED
  BY <1>1, LimiterStart, PTL DEF LimiterSpec
-----------------------------------------------------------------------------
(* The budget.                                                             *)

\* The runs of a window have numbers less than MaxRequests apart.
LEMMA Budget == LimiterIInv => NeverOverBudget
<1> SUFFICES ASSUME LimiterIInv, NEW c \in Callers, NEW t \in Clock
             PROVE  Cardinality(Grants(c, t, t + WindowTicks - 1)) <= MaxRequests
  BY DEF NeverOverBudget
<1> DEFINE S == Grants(c, t, t + WindowTicks - 1)
           numbers == {g[3] : g \in S}
<1>1. /\ S \subseteq Of(c)
      /\ \A g \in S : g[3] \in Nat /\ g[2] \in Nat /\ t <= g[2] /\ g[2] < t + WindowTicks
  <2>1. /\ WindowTicks \in Nat /\ t \in Nat
    BY LimiterConstants DEF Clock
  <2>2. \A g \in Of(c) : g[3] \in Nat /\ g[2] \in Nat
    BY DEF LimiterIInv, LimiterTypeOK, Of, Clock
  <2>3. S \subseteq Of(c) /\ \A g \in S : g[2] \in t .. t + WindowTicks - 1
    BY DEF Grants, Of
  <2> QED
    BY <2>1, <2>2, <2>3
<1>2. /\ MaxRequests \in Nat /\ WindowTicks \in Nat /\ t \in Nat
  BY LimiterConstants DEF Clock
<1>3. Numbered(c) /\ Spaced(c)
  BY DEF LimiterIInv, Exact
<1> HIDE DEF S
<1>4. CASE S = {}
  BY <1>2, <1>4, FS_EmptySet DEF S
<1>5. CASE S # {}
  <2>1. numbers \in SUBSET Nat /\ numbers # {}
    BY <1>1, <1>5
  <2>2. PICK m \in numbers : \A k \in numbers : m <= k
    BY <2>1, Least, Zenon
  <2>3. PICK first \in S : first[3] = m
    BY <2>2
  <2>4. ASSUME NEW g \in S PROVE g[3] \in m .. m + MaxRequests - 1
    <3>1. g[3] \in Nat /\ m \in Nat /\ m <= g[3]
      BY <1>1, <2>1, <2>2
    <3>2. first[2] + WindowTicks > g[2]
      BY <1>1, <1>2, <2>3
    <3>3. ~(first[3] + MaxRequests <= g[3])
      BY <3>2, <1>1, <1>2, <1>3, <2>3 DEF Spaced
    <3> QED
      BY <3>1, <3>3, <2>3, <1>2
  <2> DEFINE T == m .. m + MaxRequests - 1
             f == [g \in S |-> g[3]]
  <2>5. f \in Injection(S, T)
    <3>1. f \in [S -> T]
      BY <2>4
    <3>2. \A g, h \in S : f[g] = f[h] => g = h
      BY <1>1, <1>3 DEF Numbered
    <3> QED
      BY <3>1, <3>2 DEF Injection, IsInjective
  <2>6. IsFiniteSet(T) /\ Cardinality(T) = MaxRequests
    <3> DEFINE top == m + MaxRequests - 1
    <3>1. m \in Int /\ top \in Int /\ ~(m > top) /\ top - m + 1 = MaxRequests
      <4>1. m \in Nat
        BY <2>1
      <4>2. MaxRequests \in Nat \ {0}
        BY LimiterConstants
      <4> HIDE DEF numbers
      <4> QED
        BY <4>1, <4>2
    <3>2. T = m .. top
      OBVIOUS
    <3> HIDE DEF top, T
    <3>3. IsFiniteSet(m .. top) /\ Cardinality(m .. top) = top - m + 1
      BY <3>1, FS_Interval
    <3> QED
      BY <3>1, <3>2, <3>3
  <2> HIDE DEF T, f
  <2>7. Cardinality(S) <= Cardinality(T)
    BY <2>5, <2>6, FS_Injection
  <2> QED
    BY <2>6, <2>7 DEF S
<1> QED
  BY <1>4, <1>5

\* A full deque is that many runs of the window.
LEMMA Refusals == LimiterIInv => RefusedOnlyWhenSpent
<1> SUFFICES ASSUME LimiterIInv, NEW c \in Callers, Spent(Window(c))
             PROVE  Cardinality(Grants(c, now - WindowTicks + 1, now)) >= MaxRequests
  BY DEF RefusedOnlyWhenSpent
<1> DEFINE v == Window(c)
           n == Count(c)
           S == Grants(c, now - WindowTicks + 1, now)
           f == [i \in 1 .. MaxRequests |-> <<c, v[i], n - Len(v) + i - 1>>]
<1>1. LimiterTypeOK /\ Numbered(c) /\ Logs(Deque(c), c)
  BY DEF LimiterIInv, Exact
<1>2. /\ v \in Windows /\ Logs(v, c) /\ \A i \in 1 .. Len(v) : ~Expired(v[i])
      /\ Len(v) \in Nat /\ \A i \in 1 .. Len(v) : v[i] \in Nat
  BY <1>1, Cleaning, WindowsAreSequences DEF Clock
<1>3. Len(v) >= MaxRequests
  BY DEF Spent
<1>4. /\ MaxRequests \in Nat /\ WindowTicks \in Nat /\ now \in Nat /\ n \in Nat
  BY <1>1, LimiterConstants, FS_CardinalityType DEF LimiterTypeOK, Clock, Numbered, Count
<1>5. ASSUME NEW i \in 1 .. MaxRequests PROVE <<c, v[i], n - Len(v) + i - 1>> \in S
  <2>1. i \in 1 .. Len(v)
    BY <1>2, <1>3, <1>4
  <2> DEFINE g == <<c, v[i], n - Len(v) + i - 1>>
  <2>2. g \in Of(c) /\ g \in granted
    BY <2>1, <1>2 DEF Logs, Of
  <2>3. v[i] <= now /\ v[i] \in Nat
    BY <2>1, <2>2, <1>1, <1>2 DEF Numbered
  <2>4. v[i] \in now - WindowTicks + 1 .. now
    BY <2>1, <2>3, <1>2, <1>4 DEF Expired
  <2> QED
    BY <2>2, <2>4 DEF Grants
<1>6. f \in Injection(1 .. MaxRequests, S)
  <2>1. f \in [1 .. MaxRequests -> S]
    BY <1>5
  <2>2. ASSUME NEW i \in 1 .. MaxRequests, NEW j \in 1 .. MaxRequests, f[i] = f[j] PROVE i = j
    <3>1. n - Len(v) + i - 1 = n - Len(v) + j - 1
      BY <2>2
    <3> QED
      BY <3>1, <1>2, <1>4
  <2> QED
    BY <2>1, <2>2 DEF Injection, IsInjective
<1>7. IsFiniteSet(S)
  <2>1. S \subseteq Of(c)
    BY DEF Grants, Of
  <2> QED
    BY <2>1, <1>1, FS_Subset DEF Numbered
<1>8. Cardinality(1 .. MaxRequests) = MaxRequests
  BY <1>4, FS_Interval
<1> HIDE DEF f, S
<1>9. Cardinality(1 .. MaxRequests) <= Cardinality(S)
  BY <1>6, <1>7, FS_Injection
<1>10. Cardinality(S) \in Nat
  BY <1>7, FS_CardinalityType
<1> QED
  BY <1>4, <1>8, <1>9, <1>10 DEF S
-----------------------------------------------------------------------------
(* The theorems.                                                           *)

\* "Exact (no fixed-window boundary bursts)" (SlidingWindowLimiter.check and prune): for
\* any budget and window, no window_seconds of time, wherever it starts, holds more
\* than max_requests runs of a caller, and a caller is refused only while the last
\* window_seconds hold its whole budget.
THEOREM WindowIsExact == LimiterSpec => []BudgetExact
<1>1. LimiterIInv => BudgetExact
  BY Budget, Refusals DEF LimiterIInv, BudgetExact
<1> QED
  BY <1>1, LimiterInvariance, PTL

\* Retry-After is honest (the int(...) + 1 of check): whoever comes back no sooner than
\* the last refusal said is let through, whatever the others did meanwhile.
THEOREM RetryAfterSuffices == LimiterSpec => []RetryAfterIsEnough
<1>1. LimiterIInv => RetryAfterIsEnough
  <2> SUFFICES ASSUME LimiterIInv, NEW c \in Callers, promised[c] \in 1 .. now
               PROVE  ~Spent(Window(c))
    BY DEF RetryAfterIsEnough
  <2>1. LimiterTypeOK /\ Numbered(c) /\ Logs(Deque(c), c) /\ Promise(c)
    BY DEF LimiterIInv, Exact
  <2>2. /\ Deque(c) \in Windows /\ Window(c) \in Windows
        /\ Len(Window(c)) <= Len(Deque(c))
        /\ Len(Deque(c)) > 0 /\ Expired(Deque(c)[1]) => Len(Window(c)) < Len(Deque(c))
    BY <2>1, Cleaning
  <2>3. /\ Len(Deque(c)) \in 0 .. MaxRequests /\ Len(Window(c)) \in 0 .. MaxRequests
        /\ MaxRequests \in Nat /\ MaxRequests > 0
    BY <2>2, WindowsAreSequences, LimiterConstants
  <2>4. CASE Len(Deque(c)) < MaxRequests
    BY <2>2, <2>3, <2>4 DEF Spent
  <2>5. CASE Len(Deque(c)) = MaxRequests
    <3>1. Deque(c)[1] + WindowTicks <= promised[c] /\ promised[c] <= now
      BY <2>1, <2>3, <2>5 DEF Promise, LimiterTypeOK
    <3>2. Deque(c)[1] \in Nat /\ now \in Nat /\ WindowTicks \in Nat /\ promised[c] \in Nat
      BY <2>1, <2>2, <2>3, <2>5, WindowsAreSequences, LimiterConstants DEF LimiterTypeOK, Clock
    <3>3. Expired(Deque(c)[1])
      BY <3>1, <3>2 DEF Expired
    <3> QED
      BY <3>3, <2>2, <2>3, <2>5 DEF Spent
  <2> QED
    BY <2>3, <2>4, <2>5
<1> QED
  BY <1>1, LimiterInvariance, PTL
=============================================================================
