---------------------------- MODULE QuotaLedger ----------------------------
(***************************************************************************)
(* What plan metering promises (backend/billing/limits.py), without saying *)
(* how: each request asks to draw one run from one counter under the       *)
(* allowance of the plan it was loaded with, and in one atomic step is     *)
(* either granted (the counter, still below the allowance, goes up by one) *)
(* or refused (the counter has reached the allowance) or dropped, which    *)
(* leaves the counter alone.  Module Quota implements this.                *)
(***************************************************************************)
EXTENDS Naturals

CONSTANTS Requests,   \* run requests
          Counters,   \* (user, period) pairs
          NoAsk       \* the request has not asked yet

VARIABLES count,      \* [Counters -> Nat]
          ask,        \* [Requests -> {NoAsk} or [counter, allowance]]
          outcome     \* [Requests -> {"waiting", "granted", "refused", "dropped"}]

vars == <<count, ask, outcome>>

Init == /\ count = [c \in Counters |-> 0]
        /\ ask = [r \in Requests |-> NoAsk]
        /\ outcome = [r \in Requests |-> "waiting"]

Ask(r) == /\ ask[r] = NoAsk
          /\ outcome[r] = "waiting"
          /\ ask' = [ask EXCEPT ![r] = ask'[r]]
          /\ ask'[r] \in [counter : Counters, allowance : Nat]
          /\ UNCHANGED <<count, outcome>>

Waits(r) == ask[r] # NoAsk /\ outcome[r] = "waiting"

Grant(r) == /\ Waits(r)
            /\ count[ask[r].counter] < ask[r].allowance
            /\ count' = [count EXCEPT ![ask[r].counter] = @ + 1]
            /\ outcome' = [outcome EXCEPT ![r] = "granted"]
            /\ UNCHANGED ask

Refuse(r) == /\ Waits(r)
             /\ count[ask[r].counter] >= ask[r].allowance
             /\ outcome' = [outcome EXCEPT ![r] = "refused"]
             /\ UNCHANGED <<count, ask>>

Drop(r) == /\ Waits(r)
           /\ outcome' = [outcome EXCEPT ![r] = "dropped"]
           /\ UNCHANGED <<count, ask>>

Next == \E r \in Requests : Ask(r) \/ Grant(r) \/ Refuse(r) \/ Drop(r)

Spec == Init /\ [][Next]_vars
=============================================================================
