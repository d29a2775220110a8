--------------------------- MODULE StripeMirror ---------------------------
(***************************************************************************)
(* The local mirror of one user's Stripe state: checkout and webhook       *)
(* handlers (backend/billing/stripe_client.py) and the reconciler          *)
(* (backend/billing/reconcile.py), on the user's subscriptions row and the *)
(* plan denormalized onto the users row.                                   *)
(*                                                                         *)
(* A handler loads the two rows with two SELECTs (READ COMMITTED: each     *)
(* sees what is committed when it runs) and commits the columns whose      *)
(* value differs from the one it loaded, as the ORM's unit of work does.   *)
(*                                                                         *)
(* Stripe is modelled from how the code uses it: subscriptions change      *)
(* state there, every change sends events carrying the state of the        *)
(* moment, and events are delivered in any order, repeatedly, or never.    *)
(***************************************************************************)
EXTENDS Naturals, FiniteSets

CONSTANTS Handlers,      \* concurrent handlers: requests, webhooks, runs of the reconciler
          Subs,          \* subscriptions the user may buy, one after the other
          Customers,     \* Stripe customers that may get created for the user
          Stranger,      \* a customer of the account that is no user of ours
          None,
          Overlapping,   \* bound: sets of types of handlers that run at the same time
          Redeliveries,  \* bound: repeated deliveries and failed handlers
          Renewals,      \* bound: changes of payment state at Stripe
          Opens          \* bound: times the user opens a billing page

ASSUME MirrorConstants ==
    /\ None \notin Subs \cup Customers \cup Handlers \cup {Stranger}
    /\ Stranger \notin Customers
    /\ Redeliveries \in Nat /\ Renewals \in Nat /\ Opens \in Nat

VARIABLES remote,     \* status of each subscription at Stripe
          owner,      \* the customer it belongs to
          sessions,   \* customers with a checkout session
          made,       \* customers created
          sent,       \* events Stripe has emitted
          delivered,  \* ... and delivered at least once
          mirror,     \* committed subscriptions row
          userPlan,   \* committed users.plan
          inserter,   \* the handler that has inserted the row and not committed
          hpc, ev, loaded, loadedPlan,  \* each handler's progress and what it read
          overtaken,  \* history: handlers at work that had read the rows when another
                      \* one committed a plan
          raced,      \* history: was the last plan committed by one of those?
          redelivered, renewed, opened

stripe  == <<remote, owner, sessions, made, sent, renewed>>
handler == <<inserter, hpc, ev, loaded, loadedPlan, overtaken>>
rows    == <<mirror, userPlan, raced>>
vars    == <<stripe, delivered, rows, handler, redelivered, opened>>

Plans    == {"free", "pro"}
RemoteStatuses == {"none", "active", "past_due", "unpaid", "canceled", "deleted"}
Idle     == [type |-> "idle", sub |-> None, customer |-> None, status |-> "none"]
Event(type, s, status) ==
    [type |-> type, sub |-> s, customer |-> owner[s], status |-> status]
Events == [type : {"idle", "open", "checkout", "subscription", "payment_failed", "reconcile"},
           sub : Subs \cup {None}, customer : Customers \cup {Stranger, None},
           status : RemoteStatuses]
Rows   == [customer : Customers \cup {None}, sub : Subs \cup {None},
           plan : Plans, status : {"active", "past_due", "canceled"}]

TypeOK == /\ remote \in [Subs -> RemoteStatuses]
          /\ owner \in [Subs -> Customers \cup {None}]
          /\ sessions \subseteq made /\ made \subseteq Customers
          /\ sent \subseteq Events /\ delivered \subseteq sent
          /\ mirror \in Rows /\ userPlan \in Plans
          /\ inserter \in Handlers \cup {None}
          /\ hpc \in [Handlers -> {"idle", "first", "second", "ready", "created"}]
          /\ ev \in [Handlers -> Events]
          /\ loaded \in [Handlers -> Rows] /\ loadedPlan \in [Handlers -> Plans]
          /\ overtaken \subseteq Handlers /\ raced \in BOOLEAN
          /\ redelivered \in 0 .. Redeliveries /\ renewed \in 0 .. Renewals
          /\ opened \in 0 .. Opens

NewRow == [customer |-> None, sub |-> None, plan |-> "free", status |-> "active"]

Init == /\ remote = [s \in Subs |-> "none"]
        /\ owner = [s \in Subs |-> None]
        /\ sessions = {} /\ made = {}
        /\ sent = {[type |-> "subscription", sub |-> None, customer |-> Stranger,
                    status |-> "canceled"]}
        /\ delivered = sent
        /\ mirror = NewRow /\ userPlan = "free"
        /\ inserter = None
        /\ hpc = [h \in Handlers |-> "idle"]
        /\ ev = [h \in Handlers |-> Idle]
        /\ loaded = [h \in Handlers |-> NewRow]
        /\ loadedPlan = [h \in Handlers |-> "free"]
        /\ overtaken = {} /\ raced = FALSE
        /\ redelivered = 0 /\ renewed = 0 /\ opened = 0

Live(s)   == remote[s] \in {"active", "past_due"}

\* Plausible bugs, each a variant of the operator that follows it.
StatusOf_Raw(st)            == st
UserPlanAfter_Forgotten(h)  == loadedPlan[h]
Drifted_Never(h, st)        == FALSE
RowTaken_NotUnique          == FALSE

\* What a subscription's status at Stripe means for the mirror.
Ended(st)    == st \in {"canceled", "unpaid", "deleted"}
PlanOf(st)   == IF Ended(st) THEN "free" ELSE "pro"
StatusOf(st) == IF Ended(st) THEN "canceled"
                ELSE IF st = "past_due" THEN "past_due" ELSE "active"

\* subscriptions.user_id is unique; a row is committed with its customer.
RowTaken == mirror.customer # None
-----------------------------------------------------------------------------
(* Stripe.                                                                 *)

Change(s, status, events) ==
    /\ remote' = [remote EXCEPT ![s] = status]
    /\ sent' = sent \cup events
    /\ UNCHANGED <<owner, sessions, made, delivered, rows, handler, redelivered, opened>>

\* The user completes a checkout session.
Buy(s) ==
    /\ remote[s] = "none" /\ \A t \in Subs : ~Live(t)
    /\ \E c \in sessions :
         /\ owner' = [owner EXCEPT ![s] = c]
         /\ sent' = sent \cup {[type |-> "checkout", sub |-> s, customer |-> c,
                                status |-> "active"]}
    /\ remote' = [remote EXCEPT ![s] = "active"]
    /\ UNCHANGED <<sessions, made, delivered, rows, handler, redelivered, renewed, opened>>

PaymentFails(s) ==
    /\ remote[s] = "active" /\ renewed < Renewals /\ renewed' = renewed + 1
    /\ Change(s, "past_due", {Event("subscription", s, "past_due"),
                              Event("payment_failed", s, "past_due")})

Renew(s) ==
    /\ Live(s) /\ renewed < Renewals /\ renewed' = renewed + 1
    /\ Change(s, "active", {Event("subscription", s, "active")})

GiveUp(s) ==
    /\ remote[s] = "past_due" /\ UNCHANGED renewed
    /\ Change(s, "unpaid", {Event("subscription", s, "unpaid")})

Cancel(s) ==
    /\ Live(s) /\ UNCHANGED renewed
    /\ Change(s, "canceled", {Event("subscription", s, "canceled")})

\* Stripe no longer knows the subscription: InvalidRequestError, and no event.  (One that
\* has ended may be forgotten too, which is the same to the reconciler.)
Erase(s) ==
    /\ Live(s) /\ UNCHANGED renewed
    /\ Change(s, "deleted", {})
-----------------------------------------------------------------------------
(* Handlers.                                                               *)

\* Handlers are interchangeable, and so are new customers: one stands for all.
Start(h, e) ==
    /\ hpc[h] = "idle" /\ h = CHOOSE g \in Handlers : hpc[g] = "idle"
    /\ \A g \in Handlers :
          hpc[g] = "idle" \/ \E types \in Overlapping : {e.type, ev[g].type} \subseteq types
    /\ hpc' = [hpc EXCEPT ![h] = "first"]
    /\ ev' = [ev EXCEPT ![h] = e]
    /\ UNCHANGED <<inserter, loaded, loadedPlan, overtaken>>

\* The transaction is over, one way or the other.
EndHandler(h) ==
    /\ inserter' = IF inserter = h THEN None ELSE inserter
    /\ hpc' = [hpc EXCEPT ![h] = "idle"]
    /\ ev' = [ev EXCEPT ![h] = Idle]
    /\ loaded' = [loaded EXCEPT ![h] = NewRow]
    /\ loadedPlan' = [loadedPlan EXCEPT ![h] = "free"]

Finish(h) == EndHandler(h) /\ overtaken' = overtaken \ {h}

\* A webhook arrives, for the first time or again.
Deliver(h, e) ==
    /\ e \in sent \ delivered
    /\ Start(h, e)
    /\ delivered' = delivered \cup {e}
    /\ UNCHANGED <<stripe, rows, redelivered, opened>>

Redeliver(h, e) ==
    /\ e \in delivered /\ redelivered < Redeliveries
    /\ Start(h, e)
    /\ redelivered' = redelivered + 1
    /\ UNCHANGED <<stripe, delivered, rows, opened>>

\* The user opens the checkout or the portal page.
Open(h) ==
    /\ opened < Opens /\ opened' = opened + 1
    /\ Start(h, [Idle EXCEPT !.type = "open"])
    /\ UNCHANGED <<stripe, delivered, rows, redelivered>>

\* reconcile_subscriptions selects the rows that know a subscription.
Reconcile(h) ==
    /\ mirror.sub # None
    /\ Start(h, [Idle EXCEPT !.type = "reconcile"])
    /\ UNCHANGED <<stripe, delivered, rows, redelivered, opened>>

LoadRow(h, to) ==
    /\ loaded' = [loaded EXCEPT ![h] = mirror]
    /\ hpc' = [hpc EXCEPT ![h] = to]
    /\ UNCHANGED <<stripe, delivered, rows, inserter, ev, loadedPlan, overtaken, redelivered, opened>>

LoadUser(h, to) ==
    /\ loadedPlan' = [loadedPlan EXCEPT ![h] = userPlan]
    /\ hpc' = [hpc EXCEPT ![h] = to]
    /\ UNCHANGED <<stripe, delivered, rows, inserter, ev, loaded, overtaken, redelivered, opened>>

\* checkout.session.completed finds the user by our own reference, then the row;
\* everybody else starts with the row.
LoadFirst(h) ==
    /\ hpc[h] = "first"
    /\ IF ev[h].type = "checkout" THEN LoadUser(h, "second") ELSE LoadRow(h, "second")

\* Subscription and invoice events are for the customer the row knows.
Known(h) == loaded[h].customer = ev[h].customer

LoadSecond(h) ==
    /\ hpc[h] = "second"
    /\ \/ ev[h].type = "checkout" /\ LoadRow(h, "ready")
       \/ ev[h].type \in {"subscription", "payment_failed"} /\ Known(h) /\ LoadUser(h, "ready")

\* ignored:unknown-customer
Ignore(h) ==
    /\ hpc[h] = "second"
    /\ ev[h].type \in {"subscription", "payment_failed"} /\ ~Known(h)
    /\ Finish(h)
    /\ UNCHANGED <<stripe, delivered, rows, redelivered, opened>>

\* reconcile fetches the subscription the row names and compares plan and
\* status; the user is loaded only if they differ.
Drifted(h, st) == <<loaded[h].plan, loaded[h].status>> # <<PlanOf(st), StatusOf(st)>>

Fetch(h) ==
    LET st == remote[loaded[h].sub]
    IN  /\ hpc[h] = "second" /\ ev[h].type = "reconcile"
        /\ \/ /\ Drifted(h, st)
              /\ ev' = [ev EXCEPT ![h].status = st]
              /\ loadedPlan' = [loadedPlan EXCEPT ![h] = userPlan]
              /\ hpc' = [hpc EXCEPT ![h] = "ready"]
              /\ UNCHANGED <<stripe, delivered, rows, inserter, loaded, overtaken, redelivered, opened>>
           \/ /\ ~Drifted(h, st)
              /\ Finish(h)
              /\ UNCHANGED <<stripe, delivered, rows, redelivered, opened>>

\* The row and the user's plan as the handler leaves them in its session.
RowAfter(h) ==
    LET e == ev[h]
        synced == [loaded[h] EXCEPT !.plan = PlanOf(e.status), !.status = StatusOf(e.status)]
    IN  CASE e.type = "checkout"       -> [customer |-> e.customer, sub |-> e.sub,
                                           plan |-> "pro", status |-> "active"]
          [] e.type = "subscription"   -> [synced EXCEPT !.sub = e.sub]
          [] e.type = "payment_failed" -> [loaded[h] EXCEPT !.status = "past_due"]
          [] e.type = "reconcile"      -> synced

UserPlanAfter(h) ==
    IF ev[h].type = "payment_failed" THEN loadedPlan[h] ELSE RowAfter(h).plan

\* Commit: an UPDATE of the columns that differ from what was loaded.
Changed(old, new, now) == IF new = old THEN now ELSE new

WritesPlan(h) == ev[h].type # "payment_failed"
AtWork        == {h \in Handlers : ev[h].type # "open" /\ hpc[h] \in {"second", "ready"}}

Write(h) ==
    /\ hpc[h] = "ready" /\ ev[h].type # "open"
    /\ mirror' = [f \in DOMAIN mirror |-> Changed(loaded[h][f], RowAfter(h)[f], mirror[f])]
    /\ userPlan' = Changed(loadedPlan[h], UserPlanAfter(h), userPlan)
    /\ raced' = IF WritesPlan(h) THEN h \in overtaken ELSE raced
    /\ EndHandler(h)
    /\ overtaken' = (IF WritesPlan(h) THEN overtaken \cup AtWork ELSE overtaken) \ {h}
    /\ UNCHANGED <<stripe, delivered, redelivered, opened>>

\* _ensure_stripe_customer: the row knows the customer ...
KnownCustomer(h) ==
    /\ hpc[h] = "second" /\ ev[h].type = "open" /\ loaded[h].customer # None
    /\ sessions' = sessions \cup {loaded[h].customer}
    /\ Finish(h)
    /\ UNCHANGED <<remote, owner, made, sent, renewed, delivered, rows, redelivered, opened>>

\* ... or there was no row: the flushed INSERT waits for the one another
\* transaction has inserted, and fails once that is committed.
InsertRow(h) ==
    /\ hpc[h] = "second" /\ ev[h].type = "open" /\ loaded[h].customer = None
    /\ inserter = None
    /\ \/ /\ ~RowTaken
          /\ inserter' = h
          /\ hpc' = [hpc EXCEPT ![h] = "ready"]
          /\ UNCHANGED <<ev, loaded, loadedPlan, overtaken>>
       \/ RowTaken /\ Finish(h)
    /\ UNCHANGED <<stripe, delivered, rows, redelivered, opened>>

\* The customer is created at Stripe ...
CreateCustomer(h) ==
    /\ hpc[h] = "ready" /\ ev[h].type = "open"
    /\ Customers # made
    /\ LET c == CHOOSE c \in Customers : c \notin made
       IN  made' = made \cup {c} /\ ev' = [ev EXCEPT ![h].customer = c]
    /\ hpc' = [hpc EXCEPT ![h] = "created"]
    /\ UNCHANGED <<remote, owner, sessions, sent, renewed, delivered, rows,
                   inserter, loaded, loadedPlan, overtaken, redelivered, opened>>

\* ... and its id committed with the row, before the session is created.
CommitCustomer(h) ==
    /\ hpc[h] = "created"
    /\ mirror' = [mirror EXCEPT !.customer = ev[h].customer]
    /\ sessions' = sessions \cup {ev[h].customer}
    /\ Finish(h)
    /\ UNCHANGED <<remote, owner, made, sent, renewed, delivered, userPlan, raced, redelivered, opened>>

\* The handler dies: its transaction is rolled back, and Stripe sends an event
\* it got no answer to again.
Abort(h) ==
    /\ hpc[h] # "idle" /\ redelivered < Redeliveries
    /\ redelivered' = redelivered + 1
    /\ delivered' = delivered \ {ev[h]}
    /\ Finish(h)
    /\ UNCHANGED <<stripe, rows, opened>>

Continue(h) == LoadFirst(h) \/ LoadSecond(h) \/ Ignore(h) \/ Fetch(h) \/ Write(h)
               \/ KnownCustomer(h) \/ InsertRow(h) \/ CreateCustomer(h)
               \/ CommitCustomer(h)
Next == \/ \E s \in Subs : Buy(s) \/ PaymentFails(s) \/ Renew(s) \/ GiveUp(s) \/ Cancel(s) \/ Erase(s)
        \/ \E h \in Handlers :
              \/ \E e \in sent : Deliver(h, e) \/ Redeliver(h, e)
              \/ Open(h) \/ Reconcile(h) \/ Continue(h) \/ Abort(h)

Spec == Init /\ [][Next]_vars

\* Handlers run to their end.  Nothing in the repository calls the reconciler, and
\* Stripe does not promise that an event arrives.
FairSpec == Spec /\ \A h \in Handlers : WF_vars(Continue(h))
-----------------------------------------------------------------------------
(* Properties.                                                             *)

\* "Denormalized from Subscription": the plan requests are metered by is the
\* plan of the mirrored subscription.
PlansAgree == userPlan = mirror.plan

\* "Catches drift": if somebody runs the reconciler again and again, then whatever events
\* were lost, repeated, reordered or handled at once, the plan and status of the row of
\* the subscription the mirror knows end up as they are at Stripe.
DriftCorrected ==
    ([]<><<\E h \in Handlers : Reconcile(h)>>_vars) =>
        <>[](mirror.sub # None => /\ mirror.plan = PlanOf(remote[mirror.sub])
                                  /\ mirror.status = StatusOf(remote[mirror.sub]))

\* "The user's Stripe customer id, creating the customer on first use": however
\* many checkout and portal requests race or die, everything the user buys is
\* billed to one customer.
OneCustomer == Cardinality(sessions) <= 1

\* The mirror is well formed and belongs to the one customer the user is billed as, and
\* its two copies of the plan agree unless the last handler to commit a plan had read the
\* rows before another one committed one: any commit without such a race mends them.
MirrorConsistent == TypeOK /\ OneCustomer /\ (~raced => PlansAgree)
=============================================================================
