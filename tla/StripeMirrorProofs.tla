------------------------ MODULE StripeMirrorProofs ------------------------
(***************************************************************************)
(* What holds of a user's Stripe mirror for any handlers, subscriptions,   *)
(* customers and bounds: the user is billed as one customer however the    *)
(* handlers overlap, and the two copies of the plan differ only after a    *)
(* handler that had read the rows before another one committed a plan.     *)
(***************************************************************************)
EXTENDS StripeMirror, FiniteSetTheorems, TLAPS

\* What Stripe announces is about a subscription of the user or a stranger, and
\* a completed checkout about a customer that had a session.
Announced ==
    \A e \in sent :
        /\ e.type \in {"checkout", "subscription", "payment_failed"}
        /\ e.sub \in Subs \/ e.customer = Stranger
        /\ e.type = "checkout" => e.sub \in Subs /\ e.customer \in sessions

\* Sessions are opened for the customer of the committed row only; no row that
\* was read names another, and a row is inserted only while there is none.
OneBilled ==
    /\ sessions \subseteq {mirror.customer}
    /\ mirror.customer \in made \cup {None}
    /\ \A h \in Handlers : loaded[h].customer \in {None, mirror.customer}
    /\ inserter # None => mirror.customer = None

\* What a handler works on, and what it has established on its way.
Handling(h) ==
    /\ hpc[h] = "idle" <=> ev[h].type = "idle"
    /\ ev[h].type \in {"checkout", "subscription", "payment_failed"} => ev[h] \in sent
    /\ hpc[h] = "created" => ev[h].type = "open" /\ ev[h].customer \in made
    /\ ev[h].type = "open" /\ hpc[h] \in {"ready", "created"} => inserter = h
    /\ ev[h].type \in {"subscription", "payment_failed"} /\ hpc[h] = "ready" =>
           ev[h].customer = loaded[h].customer
    /\ ev[h].type = "reconcile" =>
           mirror.sub # None /\ (hpc[h] # "first" => loaded[h].sub # None)

Billed == TypeOK /\ Announced /\ OneBilled /\ \A h \in Handlers : Handling(h)

\* A handler that nobody overtook has read the plan that is committed.
UpToDate(h) ==
    /\ ev[h].type \in {"subscription", "payment_failed", "reconcile"} /\ hpc[h] = "second" =>
           loaded[h].plan = mirror.plan
    /\ ev[h].type = "checkout" /\ hpc[h] = "second" => loadedPlan[h] = userPlan
    /\ ev[h].type # "open" /\ hpc[h] = "ready" =>
           loaded[h].plan = mirror.plan /\ loadedPlan[h] = userPlan

Synced == /\ ~raced => PlansAgree
          /\ \A h \in Handlers : h \notin overtaken => UpToDate(h)

USE DEF RemoteStatuses, Plans, rows
-----------------------------------------------------------------------------
(* The rows and the events.                                                *)

\* A handler that starts, and one that ends.
LEMMA NewRowTyped == NewRow \in Rows /\ Idle \in Events
  BY DEF NewRow, Rows, Idle, Events

\* What a status at Stripe means for the row.
LEMMA StatusTypes ==
  ASSUME NEW st
  PROVE  PlanOf(st) \in Plans /\ StatusOf(st) \in {"active", "past_due", "canceled"}
  BY DEF PlanOf, StatusOf

\* The row a handler is about to write: it keeps the customer, and it names a
\* subscription if the row it read did.
LEMMA RowAfterKeeps ==
  ASSUME Billed, NEW h \in Handlers, hpc[h] = "ready", ev[h].type # "open"
  PROVE  /\ RowAfter(h) \in Rows
         /\ RowAfter(h).customer \in {loaded[h].customer, mirror.customer}
         /\ RowAfter(h).sub = None => loaded[h].sub = None
         /\ ev[h].type = "payment_failed" => RowAfter(h).plan = loaded[h].plan
<1> DEFINE e == ev[h]  old == loaded[h]  p == PlanOf(e.status)  s == StatusOf(e.status)
<1>1. e \in Events /\ old \in Rows
  BY DEF Billed, TypeOK
<1>2. p \in Plans /\ s \in {"active", "past_due", "canceled"}
  BY StatusTypes
<1>3. e.type \in {"checkout", "subscription", "payment_failed", "reconcile"}
  BY <1>1 DEF Billed, Handling, Events
<1>4. e.type = "checkout" => e.sub \in Subs /\ e.customer = mirror.customer
  BY DEF Billed, Announced, OneBilled, Handling
<1>5. mirror \in Rows
  BY DEF Billed, TypeOK
<1>6. e.type = "subscription" => e.sub \in Subs
  <2> SUFFICES ASSUME e.type = "subscription", e.sub \notin Subs PROVE FALSE
    OBVIOUS
  <2>1. e.customer = Stranger /\ e.customer = old.customer
    BY DEF Billed, Announced, Handling
  <2> QED BY <2>1, <1>1, MirrorConstants DEF Rows
<1>7. RowAfter(h) = CASE e.type = "checkout"       -> [customer |-> e.customer, sub |-> e.sub,
                                                       plan |-> "pro", status |-> "active"]
                      [] e.type = "subscription"   -> [[old EXCEPT !.plan = p, !.status = s] EXCEPT !.sub = e.sub]
                      [] e.type = "payment_failed" -> [old EXCEPT !.status = "past_due"]
                      [] e.type = "reconcile"      -> [old EXCEPT !.plan = p, !.status = s]
  BY DEF RowAfter
<1> HIDE DEF e, old, p, s
<1>8. CASE e.type = "checkout"
  BY <1>1, <1>4, <1>5, <1>7, <1>8, MirrorConstants DEF Rows, e
<1>9. CASE e.type = "subscription"
  BY <1>1, <1>2, <1>6, <1>7, <1>9, MirrorConstants DEF Rows, e, old
<1>10. CASE e.type = "payment_failed"
  BY <1>1, <1>7, <1>10 DEF Rows, e, old
<1>11. CASE e.type = "reconcile"
  BY <1>1, <1>2, <1>7, <1>11 DEF Rows, e, old
<1> QED BY <1>3, <1>8, <1>9, <1>10, <1>11

\* A commit never changes the customer, and never forgets the subscription.
LEMMA CommitKeeps ==
  ASSUME Billed, NEW h \in Handlers, Write(h)
  PROVE  /\ mirror' \in Rows /\ userPlan' \in Plans
         /\ mirror'.customer = mirror.customer
         /\ mirror.sub # None => mirror'.sub # None
<1> DEFINE r == RowAfter(h)  old == loaded[h]
<1>1. hpc[h] = "ready" /\ ev[h].type # "open"
  BY DEF Write
<1>2. /\ r \in Rows /\ r.customer \in {old.customer, mirror.customer}
      /\ r.sub = None => old.sub = None
  BY <1>1, RowAfterKeeps
<1>3. old \in Rows /\ mirror \in Rows /\ loadedPlan[h] \in Plans /\ userPlan \in Plans
  BY DEF Billed, TypeOK
<1>4. /\ mirror' = [f \in DOMAIN mirror |-> Changed(old[f], r[f], mirror[f])]
      /\ userPlan' = Changed(loadedPlan[h], UserPlanAfter(h), userPlan)
  BY DEF Write
<1>5. UserPlanAfter(h) \in Plans
  BY <1>2, <1>3 DEF UserPlanAfter, Rows
<1> HIDE DEF r, old
<1>6. mirror' = [customer |-> Changed(old.customer, r.customer, mirror.customer),
                 sub      |-> Changed(old.sub, r.sub, mirror.sub),
                 plan     |-> Changed(old.plan, r.plan, mirror.plan),
                 status   |-> Changed(old.status, r.status, mirror.status)]
  BY <1>3, <1>4 DEF Rows
<1>7. userPlan' \in Plans
  BY <1>3, <1>4, <1>5 DEF Changed
<1> QED BY <1>2, <1>3, <1>6, <1>7 DEF Rows, Changed
-----------------------------------------------------------------------------
(* One step.                                                               *)

\* What a step leaves true of the rows and of Stripe's books: the customer is
\* chosen once, sessions are opened for it, nothing known is forgotten.
Booked == /\ mirror' \in Rows /\ userPlan' \in Plans
          /\ mirror.customer # None => mirror'.customer = mirror.customer
          /\ mirror.sub # None => mirror'.sub # None
          /\ made \subseteq made' /\ made' \subseteq Customers
          /\ sessions \subseteq sessions' /\ sessions' \subseteq made'
          /\ sessions' \subseteq {mirror'.customer}
          /\ mirror'.customer \in made' \cup {None}
          /\ sent \subseteq sent'

\* Every step books as Booked says.
LEMMA StepsBook ==
  ASSUME Billed, Next
  PROVE  Booked
<1> USE DEF Booked
<1>0. /\ sessions \subseteq {mirror.customer} /\ mirror.customer \in made \cup {None}
      /\ \A h \in Handlers : loaded[h].customer \in {None, mirror.customer}
      /\ inserter # None => mirror.customer = None
  BY DEF Billed, OneBilled
<1>1. mirror \in Rows /\ userPlan \in Plans /\ sessions \subseteq made /\ made \subseteq Customers
  BY DEF Billed, TypeOK
<1>2. ASSUME UNCHANGED <<sessions, made, mirror, userPlan>>, sent \subseteq sent' PROVE Booked
  BY <1>0, <1>1, <1>2
<1>3. ASSUME NEW s \in Subs, Buy(s) \/ PaymentFails(s) \/ Renew(s) \/ GiveUp(s) \/ Cancel(s) \/ Erase(s)
      PROVE  Booked
  BY <1>2, <1>3 DEF Buy, PaymentFails, Renew, GiveUp, Cancel, Erase, Change
<1>4. ASSUME NEW h \in Handlers,
             (\E e \in sent : Deliver(h, e) \/ Redeliver(h, e)) \/ Open(h) \/ Reconcile(h) \/ Abort(h)
      PROVE  Booked
  BY <1>2, <1>4 DEF Deliver, Redeliver, Open, Reconcile, Abort, stripe
<1>5. ASSUME NEW h \in Handlers, LoadFirst(h) \/ LoadSecond(h) \/ Ignore(h) \/ Fetch(h) \/ InsertRow(h)
      PROVE  Booked
  BY <1>2, <1>5 DEF LoadFirst, LoadSecond, Ignore, Fetch, InsertRow, LoadRow, LoadUser, stripe
<1>6. ASSUME NEW h \in Handlers, Write(h) PROVE Booked
  <2>1. UNCHANGED <<sessions, made, sent>>
    BY <1>6 DEF Write, stripe
  <2> QED BY <1>0, <1>1, <1>6, <2>1, CommitKeeps
<1>7. ASSUME NEW h \in Handlers, KnownCustomer(h) PROVE Booked
  <2>1. loaded[h].customer = mirror.customer /\ mirror.customer \in made
    BY <1>0, <1>7 DEF KnownCustomer
  <2> QED BY <1>0, <1>1, <1>7, <2>1 DEF KnownCustomer
<1>8. ASSUME NEW h \in Handlers, CreateCustomer(h) PROVE Booked
  <2>1. \E c \in Customers : c \notin made
    BY <1>1, <1>8 DEF CreateCustomer
  <2>2. made \subseteq made' /\ made' \subseteq Customers
    BY <1>1, <1>8, <2>1 DEF CreateCustomer
  <2> QED BY <1>0, <1>1, <1>8, <2>2 DEF CreateCustomer
<1>9. ASSUME NEW h \in Handlers, CommitCustomer(h) PROVE Booked
  <2>1. ev[h].customer \in made /\ inserter = h /\ mirror.customer = None
    BY <1>0, <1>9, MirrorConstants DEF CommitCustomer, Billed, Handling
  <2>2. mirror' = [mirror EXCEPT !.customer = ev[h].customer]
    BY <1>9 DEF CommitCustomer
  <2>3. mirror' \in Rows /\ mirror'.customer = ev[h].customer /\ mirror'.sub = mirror.sub
    BY <1>1, <2>1, <2>2 DEF Rows
  <2>4. sessions = {}
    BY <1>0, <1>1, <2>1, MirrorConstants
  <2> QED BY <1>1, <1>9, <2>1, <2>3, <2>4 DEF CommitCustomer
<1> QED BY <1>3, <1>4, <1>5, <1>6, <1>7, <1>8, <1>9 DEF Next, Continue

\* A handler is touched by its own steps only.
Kept(h) == /\ hpc'[h] = hpc[h] /\ ev'[h] = ev[h]
           /\ loaded'[h] = loaded[h] /\ loadedPlan'[h] = loadedPlan[h]
           /\ inserter = h => inserter' = h

Receives(h) == \/ \E e \in sent : Deliver(h, e) \/ Redeliver(h, e)
               \/ Open(h) \/ Reconcile(h)

StripeMoves == \E s \in Subs : Buy(s) \/ PaymentFails(s) \/ Renew(s) \/ GiveUp(s) \/ Cancel(s) \/ Erase(s)

\* A step is Stripe's or one handler's.
LEMMA Steps ==
  ASSUME Next
  PROVE  StripeMoves \/ \E h \in Handlers : Receives(h) \/ Continue(h) \/ Abort(h)
  BY DEF Next, StripeMoves, Receives

\* A handler's step leaves what the others have read alone.
LEMMA OwnSteps ==
  ASSUME TypeOK, NEW h \in Handlers, Receives(h) \/ Continue(h) \/ Abort(h),
         NEW g \in Handlers, g # h
  PROVE  Kept(g)
<1>1. /\ hpc \in [Handlers -> {"idle", "first", "second", "ready", "created"}]
      /\ ev \in [Handlers -> Events]
      /\ loaded \in [Handlers -> Rows] /\ loadedPlan \in [Handlers -> Plans]
  BY DEF TypeOK
<1>2. ASSUME EndHandler(h) PROVE Kept(g)
  BY <1>1, <1>2 DEF EndHandler, Kept
<1>3. ASSUME NEW e, Start(h, e) PROVE Kept(g)
  BY <1>1, <1>3 DEF Start, Kept
<1>4. CASE Receives(h)
  BY <1>3, <1>4 DEF Receives, Deliver, Redeliver, Open, Reconcile
<1>5. CASE LoadFirst(h) \/ LoadSecond(h) \/ CreateCustomer(h)
  BY <1>1, <1>5 DEF LoadFirst, LoadSecond, LoadRow, LoadUser, CreateCustomer, Kept
<1>6. CASE Ignore(h) \/ Write(h) \/ KnownCustomer(h) \/ CommitCustomer(h) \/ Abort(h)
  BY <1>2, <1>6 DEF Ignore, Write, KnownCustomer, CommitCustomer, Abort, Finish
<1>7. CASE Fetch(h)
  BY <1>1, <1>2, <1>7 DEF Fetch, Kept, Finish
<1>8. CASE InsertRow(h)
  BY <1>1, <1>2, <1>8, MirrorConstants DEF InsertRow, Kept, Finish
<1> QED BY <1>4, <1>5, <1>6, <1>7, <1>8 DEF Continue

\* Stripe does not write to the database.
LEMMA StripeLeaves ==
  ASSUME TypeOK, StripeMoves
  PROVE  UNCHANGED <<mirror, userPlan, raced, inserter, hpc, ev, loaded, loadedPlan, overtaken>>
  BY DEF StripeMoves, Buy, PaymentFails, Renew, GiveUp, Cancel, Erase, Change, handler
-----------------------------------------------------------------------------
(* Types.                                                                  *)

\* Stripe's own steps keep the types.
LEMMA StripeTypes ==
  ASSUME TypeOK, StripeMoves
  PROVE  TypeOK'
<1>1. PICK s \in Subs : Buy(s) \/ PaymentFails(s) \/ Renew(s) \/ GiveUp(s) \/ Cancel(s) \/ Erase(s)
  BY DEF StripeMoves
<1>2. UNCHANGED <<sessions, made, delivered, mirror, userPlan, raced, inserter, hpc, ev, loaded,
                  loadedPlan, overtaken, redelivered, opened>>
  BY <1>1 DEF Buy, PaymentFails, Renew, GiveUp, Cancel, Erase, Change, handler
<1>3. renewed' \in 0 .. Renewals
  BY <1>1, MirrorConstants DEF Buy, PaymentFails, Renew, GiveUp, Cancel, Erase, TypeOK
<1>4. remote' \in [Subs -> RemoteStatuses]
  BY <1>1 DEF Buy, PaymentFails, Renew, GiveUp, Cancel, Erase, Change, TypeOK
<1>5. owner' \in [Subs -> Customers \cup {None}]
  BY <1>1 DEF Buy, PaymentFails, Renew, GiveUp, Cancel, Erase, Change, TypeOK
<1>6. \A type \in {"subscription", "payment_failed"}, status \in RemoteStatuses :
          Event(type, s, status) \in Events
  BY DEF Event, Events, TypeOK
<1>7. sent \subseteq sent' /\ sent' \subseteq Events
  <2>1. CASE Buy(s)
    BY <2>1 DEF Buy, TypeOK, Events
  <2>2. CASE PaymentFails(s) \/ Renew(s) \/ GiveUp(s) \/ Cancel(s) \/ Erase(s)
    BY <1>6, <2>2 DEF PaymentFails, Renew, GiveUp, Cancel, Erase, Change, TypeOK
  <2> QED BY <1>1, <2>1, <2>2
<1> QED BY <1>2, <1>3, <1>4, <1>5, <1>7 DEF TypeOK

\* What the functions and the counter of the handlers hold.
HandlersTyped == /\ inserter \in Handlers \cup {None}
                 /\ hpc \in [Handlers -> {"idle", "first", "second", "ready", "created"}]
                 /\ ev \in [Handlers -> Events]
                 /\ loaded \in [Handlers -> Rows] /\ loadedPlan \in [Handlers -> Plans]
                 /\ overtaken \subseteq Handlers

\* So does the end of a handler,
LEMMA FinishTypes ==
  ASSUME HandlersTyped, NEW h \in Handlers, Finish(h) \/ Write(h)
  PROVE  HandlersTyped'
<1>1. EndHandler(h)
  BY DEF Finish, Write
<1>2. overtaken' \subseteq Handlers
  BY DEF Finish, Write, AtWork, HandlersTyped
<1> QED BY <1>1, <1>2, NewRowTyped DEF HandlersTyped, EndHandler

\* its start,
LEMMA StartTypes ==
  ASSUME HandlersTyped, NEW h \in Handlers, NEW e \in Events, Start(h, e)
  PROVE  HandlersTyped'
  BY DEF HandlersTyped, Start

\* and each of its steps.
LEMMA HandlerTypes ==
  ASSUME Billed, NEW h \in Handlers, Receives(h) \/ Continue(h) \/ Abort(h)
  PROVE  HandlersTyped'
<1>1. /\ HandlersTyped /\ mirror \in Rows /\ userPlan \in Plans
      /\ sent \subseteq Events /\ delivered \subseteq sent
      /\ Customers # made => \E c \in Customers : c \notin made
  BY DEF Billed, TypeOK, HandlersTyped
<1>2. CASE Receives(h)
  <2>1. [Idle EXCEPT !.type = "open"] \in Events /\ [Idle EXCEPT !.type = "reconcile"] \in Events
    BY DEF Idle, Events
  <2> QED BY <1>1, <1>2, <2>1, StartTypes DEF Receives, Deliver, Redeliver, Open, Reconcile
<1>3. CASE LoadFirst(h) \/ LoadSecond(h)
  BY <1>1, <1>3 DEF LoadFirst, LoadSecond, LoadRow, LoadUser, HandlersTyped
<1>4. CASE Ignore(h) \/ Write(h) \/ KnownCustomer(h) \/ CommitCustomer(h) \/ Abort(h)
  BY <1>1, <1>4, FinishTypes DEF Ignore, KnownCustomer, CommitCustomer, Abort
<1>5. CASE Fetch(h)
  <2> DEFINE st == remote[loaded[h].sub]
  <2>1. loaded[h].sub \in Subs
    BY <1>1, <1>5 DEF Fetch, Billed, Handling, HandlersTyped, Rows
  <2>2. st \in RemoteStatuses
    BY <2>1 DEF Billed, TypeOK
  <2>3. CASE Finish(h)
    BY <1>1, <2>3, FinishTypes
  <2>4. ASSUME ev' = [ev EXCEPT ![h].status = st], loadedPlan' = [loadedPlan EXCEPT ![h] = userPlan],
               hpc' = [hpc EXCEPT ![h] = "ready"], UNCHANGED <<inserter, loaded, overtaken>>
        PROVE  HandlersTyped'
    <3> HIDE DEF st
    <3>1. ev[h] \in Events
      BY <1>1 DEF HandlersTyped
    <3>2. [ev[h] EXCEPT !.status = st] \in Events
      BY <2>2, <3>1 DEF Events
    <3>3. ev' = [ev EXCEPT ![h] = [ev[h] EXCEPT !.status = st]]
      BY <1>1, <2>4 DEF HandlersTyped
    <3> QED BY <1>1, <2>4, <3>2, <3>3 DEF HandlersTyped
  <2> QED BY <1>5, <2>3, <2>4 DEF Fetch
<1>6. CASE InsertRow(h)
  BY <1>1, <1>6, FinishTypes DEF InsertRow, HandlersTyped
<1>7. CASE CreateCustomer(h)
  <2>1. PICK c \in Customers : ev' = [ev EXCEPT ![h].customer = c]
    BY <1>1, <1>7 DEF CreateCustomer
  <2>2. [ev[h] EXCEPT !.customer = c] \in Events
    BY <1>1 DEF Events, HandlersTyped
  <2>3. ev' = [ev EXCEPT ![h] = [ev[h] EXCEPT !.customer = c]]
    BY <1>1, <2>1 DEF HandlersTyped
  <2> QED BY <1>1, <1>7, <2>2, <2>3 DEF CreateCustomer, HandlersTyped
<1> QED BY <1>2, <1>3, <1>4, <1>5, <1>6, <1>7 DEF Continue

\* Every step keeps the types.
LEMMA TypeOKNext ==
  ASSUME Billed, Next
  PROVE  TypeOK'
<1>1. TypeOK /\ Booked
  BY StepsBook DEF Billed
<1>2. CASE StripeMoves
  BY <1>1, <1>2, StripeTypes
<1>3. ASSUME NEW h \in Handlers, Receives(h) \/ Continue(h) \/ Abort(h) PROVE TypeOK'
  <2>1. HandlersTyped'
    BY <1>3, HandlerTypes
  <2>2. UNCHANGED <<remote, owner, sent, renewed>>
    BY <1>3 DEF Receives, Continue, Deliver, Redeliver, Open, Reconcile, LoadFirst, LoadSecond, LoadRow, LoadUser,
       Ignore, Fetch, Write, KnownCustomer, InsertRow, CreateCustomer, CommitCustomer, Abort, stripe
  <2>3. delivered' \subseteq sent
    BY <1>1, <1>3 DEF Receives, Continue, Deliver, Redeliver, Open, Reconcile, LoadFirst, LoadSecond, LoadRow, LoadUser,
       Ignore, Fetch, Write, KnownCustomer, InsertRow, CreateCustomer, CommitCustomer, Abort, TypeOK
  <2>4. redelivered' \in 0 .. Redeliveries /\ opened' \in 0 .. Opens
    BY <1>1, <1>3, MirrorConstants
       DEF Receives, Continue, Deliver, Redeliver, Open, Reconcile, LoadFirst, LoadSecond, LoadRow, LoadUser,
       Ignore, Fetch, Write, KnownCustomer, InsertRow, CreateCustomer, CommitCustomer, Abort, TypeOK
  <2>5. CASE Write(h)
    <3>1. raced' \in BOOLEAN
      <4>1. raced \in BOOLEAN
        BY <1>1 DEF TypeOK
      <4>2. (h \in overtaken) \in BOOLEAN
        OBVIOUS
      <4>3. raced' = (h \in overtaken) \/ raced' = raced
        BY <2>5, Zenon DEF Write
      <4> QED BY <4>1, <4>2, <4>3, Zenon
    <3> QED BY <1>1, <2>1, <2>2, <2>3, <2>4, <3>1 DEF TypeOK, HandlersTyped, Booked
  <2>6. CASE ~Write(h)
    <3>1. raced' = raced
      BY <1>3, <2>6 DEF Receives, Continue, Deliver, Redeliver, Open, Reconcile, LoadFirst, LoadSecond, LoadRow,
         LoadUser, Ignore, Fetch, KnownCustomer, InsertRow, CreateCustomer, CommitCustomer, Abort
    <3> QED BY <1>1, <2>1, <2>2, <2>3, <2>4, <3>1 DEF TypeOK, HandlersTyped, Booked
  <2> QED BY <2>5, <2>6
<1> QED BY <1>2, <1>3, Steps
-----------------------------------------------------------------------------
(* One customer.                                                           *)

\* Stripe only announces what is the user's or a stranger's.
LEMMA AnnouncedNext ==
  ASSUME Billed, Next
  PROVE  Announced'
<1>1. Announced /\ Booked
  BY StepsBook DEF Billed
<1>2. ASSUME sent' = sent PROVE Announced'
  BY <1>1, <1>2 DEF Announced, Booked
<1>3. CASE StripeMoves
  <2>1. PICK s \in Subs : Buy(s) \/ PaymentFails(s) \/ Renew(s) \/ GiveUp(s) \/ Cancel(s) \/ Erase(s)
    BY <1>3 DEF StripeMoves
  <2>2. \A e \in sent' \ sent : e.type \in {"checkout", "subscription", "payment_failed"} /\ e.sub \in Subs
    BY <2>1 DEF Buy, PaymentFails, Renew, GiveUp, Cancel, Erase, Change, Event
  <2>3. \A e \in sent' \ sent : e.type = "checkout" => e.customer \in sessions
    BY <2>1 DEF Buy, PaymentFails, Renew, GiveUp, Cancel, Erase, Change, Event
  <2> QED BY <1>1, <2>2, <2>3 DEF Announced, Booked
<1>4. ASSUME NEW h \in Handlers, Receives(h) \/ Continue(h) \/ Abort(h) PROVE sent' = sent
  BY <1>4 DEF Receives, Continue, Deliver, Redeliver, Open, Reconcile, LoadFirst, LoadSecond, LoadRow, LoadUser,
     Ignore, Fetch, Write, KnownCustomer, InsertRow, CreateCustomer, CommitCustomer, Abort, stripe
<1> QED BY <1>2, <1>3, <1>4, Steps

\* A session is opened only for a customer that was committed under the lock, and there is one commit.
LEMMA OneBilledNext ==
  ASSUME Billed, Next
  PROVE  OneBilled'
<1>1. TypeOK /\ OneBilled /\ Booked
  BY StepsBook DEF Billed
<1>2. /\ HandlersTyped /\ mirror \in Rows /\ NewRow.customer = None
  BY <1>1 DEF TypeOK, HandlersTyped, NewRow
<1>3. \A h \in Handlers : loaded'[h].customer \in {None, mirror.customer}
  <2>1. CASE StripeMoves
    BY <1>1, <2>1, StripeLeaves DEF OneBilled
  <2>2. ASSUME NEW h \in Handlers, Receives(h) \/ Continue(h) \/ Abort(h)
        PROVE  loaded'[h].customer \in {None, mirror.customer}
    <3>1. loaded'[h] \in {loaded[h], mirror, NewRow}
      BY <1>2, <2>2 DEF HandlersTyped, Receives, Continue, Deliver, Redeliver, Open, Reconcile, Start, LoadFirst,
         LoadSecond, LoadRow, LoadUser, Ignore, Fetch, Write, KnownCustomer, InsertRow, CreateCustomer,
         CommitCustomer, Abort, Finish, EndHandler
    <3> QED BY <1>1, <1>2, <3>1 DEF OneBilled
  <2> QED BY <1>1, <2>1, <2>2, Steps, OwnSteps DEF Kept, OneBilled
<1>4. inserter' # None => mirror'.customer = None
  <2>1. CASE StripeMoves
    BY <1>1, <2>1, StripeLeaves DEF OneBilled
  <2>2. ASSUME NEW h \in Handlers, CommitCustomer(h) PROVE inserter' = None
    BY <1>2, <2>2 DEF CommitCustomer, Finish, EndHandler, Billed, Handling
  <2>3. ASSUME NEW h \in Handlers, Write(h), inserter' # None PROVE mirror'.customer = None
    BY <1>1, <1>2, <2>3, CommitKeeps DEF Write, EndHandler, OneBilled
  <2>4. ASSUME NEW h \in Handlers, InsertRow(h), inserter' # None PROVE mirror'.customer = None
    BY <1>1, <1>2, <2>4 DEF InsertRow, Finish, EndHandler, RowTaken, OneBilled
  <2>5. ASSUME NEW h \in Handlers, Receives(h) \/ LoadFirst(h) \/ LoadSecond(h) \/ Ignore(h) \/ Fetch(h)
                                   \/ KnownCustomer(h) \/ CreateCustomer(h) \/ Abort(h)
        PROVE  mirror' = mirror /\ inserter' \in {inserter, None}
    BY <2>5 DEF Receives, Deliver, Redeliver, Open, Reconcile, Start, LoadFirst,
         LoadSecond, LoadRow, LoadUser, Ignore, Fetch, KnownCustomer, CreateCustomer, Abort, Finish, EndHandler
  <2> QED BY <1>1, <2>1, <2>2, <2>3, <2>4, <2>5, Steps DEF Continue, OneBilled
<1>5. \A h \in Handlers : loaded'[h].customer \in {None, mirror'.customer}
  BY <1>1, <1>3, MirrorConstants DEF Booked
<1> QED BY <1>1, <1>4, <1>5 DEF OneBilled, Booked

\* What a handler relies on stays true while others act ...
LEMMA HandlingKept ==
  ASSUME Billed, Next, NEW h \in Handlers, Kept(h)
  PROVE  Handling(h)'
  BY StepsBook DEF Billed, Handling, Kept, Booked

\* ... and after each step of its own.
LEMMA FinishHandles ==
  ASSUME HandlersTyped, NEW h \in Handlers, EndHandler(h)
  PROVE  Handling(h)'
  BY DEF HandlersTyped, EndHandler, Handling, Idle

\* ... whatever the step.
LEMMA HandlingNext ==
  ASSUME Billed, Next, NEW h \in Handlers, Receives(h) \/ Continue(h) \/ Abort(h)
  PROVE  Handling(h)'
<1>1. TypeOK /\ HandlersTyped /\ Booked /\ Handling(h) /\ Announced
  BY StepsBook DEF Billed, TypeOK, HandlersTyped
<1>2. CASE Receives(h)
  <2>1. PICK e : /\ Start(h, e)
                 /\ \/ e \in sent
                    \/ e.type = "open"
                    \/ e.type = "reconcile" /\ mirror.sub # None
    BY <1>1, <1>2 DEF Receives, Deliver, Redeliver, Open, Reconcile, Idle, TypeOK
  <2>2. e \in sent => e.type \in {"checkout", "subscription", "payment_failed"}
    BY <1>1 DEF Announced
  <2> QED BY <1>1, <2>1, <2>2 DEF Start, HandlersTyped, Handling, Booked
<1>3. CASE LoadFirst(h)
  BY <1>1, <1>3 DEF LoadFirst, LoadRow, LoadUser, HandlersTyped, Handling, stripe
<1>4. CASE LoadSecond(h)
  BY <1>1, <1>4 DEF LoadSecond, LoadRow, LoadUser, Known, HandlersTyped, Handling, stripe
<1>5. CASE Ignore(h) \/ Write(h) \/ KnownCustomer(h) \/ CommitCustomer(h) \/ Abort(h)
  BY <1>1, <1>5, FinishHandles DEF Ignore, Write, KnownCustomer, CommitCustomer, Abort, Finish
<1>6. CASE Fetch(h)
  <2>1. CASE Finish(h)
    BY <1>1, <2>1, FinishHandles DEF Finish
  <2> DEFINE st == remote[loaded[h].sub]
  <2>2. ASSUME ev' = [ev EXCEPT ![h].status = st],
               hpc' = [hpc EXCEPT ![h] = "ready"], UNCHANGED <<loaded, mirror>>,
               ev[h].type = "reconcile", hpc[h] = "second"
        PROVE  Handling(h)'
    <3> HIDE DEF st
    <3>1. ev[h] \in Events
      BY <1>1 DEF HandlersTyped
    <3>2. ev'[h].type = "reconcile"
      BY <1>1, <2>2, <3>1 DEF HandlersTyped, Events
    <3> QED BY <1>1, <2>2, <3>2 DEF HandlersTyped, Handling
  <2> QED BY <1>6, <2>1, <2>2 DEF Fetch
<1>7. CASE InsertRow(h)
  BY <1>1, <1>7, FinishHandles DEF Finish, InsertRow, HandlersTyped, Handling, stripe
<1>8. CASE CreateCustomer(h)
  <2> DEFINE c == CHOOSE c \in Customers : c \notin made
  <2>1. ev' = [ev EXCEPT ![h].customer = c] /\ c \in made'
    BY <1>8 DEF CreateCustomer
  <2> HIDE DEF c
  <2>2. ev'[h].type = "open" /\ ev'[h].customer = c
    BY <1>1, <1>8, <2>1 DEF CreateCustomer, HandlersTyped, Events
  <2> QED BY <1>1, <1>8, <2>1, <2>2 DEF CreateCustomer, HandlersTyped, Handling
<1> QED BY <1>2, <1>3, <1>4, <1>5, <1>6, <1>7, <1>8 DEF Continue

\* Nothing is billed at first.
LEMMA BilledInit == Init => Billed
<1> SUFFICES ASSUME Init PROVE Billed
  OBVIOUS
<1>1. TypeOK
  <2>1. raced \in BOOLEAN /\ overtaken \subseteq Handlers
    BY DEF Init
  <2>2. sent \subseteq Events /\ delivered \subseteq sent
    BY DEF Init, Events
  <2> QED BY <2>1, <2>2, NewRowTyped, MirrorConstants DEF Init, TypeOK
<1>2. Announced
  BY DEF Init, Announced
<1>3. OneBilled
  BY DEF Init, OneBilled, NewRow
<1>4. \A h \in Handlers : Handling(h)
  BY DEF Init, Handling, Idle
<1> QED BY <1>1, <1>2, <1>3, <1>4 DEF Billed

\* Billed is inductive, whichever handlers overlap.
LEMMA BilledNext == Billed /\ [Next]_vars => Billed'
<1> SUFFICES ASSUME Billed, [Next]_vars PROVE Billed'
  OBVIOUS
<1>1. CASE UNCHANGED vars
  BY <1>1 DEF vars, stripe, handler, Billed, TypeOK, Announced, OneBilled, Handling
<1>2. CASE Next
  <2>1. \A h \in Handlers : Handling(h)'
    <3>1. CASE StripeMoves
      BY <1>2, <3>1, StripeLeaves, HandlingKept DEF Kept, Billed
    <3>2. ASSUME NEW h \in Handlers, Receives(h) \/ Continue(h) \/ Abort(h), NEW g \in Handlers PROVE Handling(g)'
      BY <1>2, <3>2, OwnSteps, HandlingKept, HandlingNext DEF Billed
    <3> QED BY <1>2, <3>1, <3>2, Steps
  <2> QED BY <1>2, <2>1, TypeOKNext, AnnouncedNext, OneBilledNext DEF Billed
<1> QED BY <1>1, <1>2

\* Whichever handlers overlap, events are lost or repeated and handlers die, a handler works on a customer
\* and an event that Stripe made, and there is one customer behind sessions, rows and all that was read.
THEOREM AlwaysBilled == Spec => []Billed
  BY BilledInit, BilledNext, PTL DEF Spec

\* One customer behind all sessions.
LEMMA BilledOnce == Billed => OneCustomer
<1> SUFFICES ASSUME Billed PROVE OneCustomer
  OBVIOUS
<1>1. sessions \subseteq {mirror.customer}
  BY DEF Billed, OneBilled
<1>2. IsFiniteSet({mirror.customer}) /\ Cardinality({mirror.customer}) = 1
  BY FS_Singleton
<1> QED BY <1>1, <1>2, FS_Subset DEF OneCustomer

\* "Creating the customer on first use": however checkouts, portal visits, webhooks and
\* the reconciler overlap or die, all the user's sessions are one customer's.
THEOREM BilledAsOneCustomer == Spec => [](TypeOK /\ OneCustomer)
<1>1. Billed => TypeOK /\ OneCustomer
  BY BilledOnce DEF Billed
<1> QED BY <1>1, AlwaysBilled, PTL
-----------------------------------------------------------------------------
(* Two copies of one plan.                                                 *)

\* A commit of a handler that nobody overtook leaves two equal plans,
LEMMA PlanCommit ==
  ASSUME Billed, NEW h \in Handlers, UpToDate(h), Write(h), WritesPlan(h)
  PROVE  PlansAgree'
<1> DEFINE r == RowAfter(h)
<1>1. hpc[h] = "ready" /\ ev[h].type # "open"
  BY DEF Write
<1>2. loaded[h].plan = mirror.plan /\ loadedPlan[h] = userPlan
  BY <1>1 DEF UpToDate
<1>3. UserPlanAfter(h) = r.plan
  BY DEF UserPlanAfter, WritesPlan
<1>4. /\ mirror' = [f \in DOMAIN mirror |-> Changed(loaded[h][f], r[f], mirror[f])]
      /\ userPlan' = Changed(loadedPlan[h], UserPlanAfter(h), userPlan)
  BY DEF Write
<1> HIDE DEF r
<1>5. "plan" \in DOMAIN mirror
  BY DEF Billed, TypeOK, Rows
<1>6. mirror'.plan = Changed(mirror.plan, r.plan, mirror.plan)
  BY <1>2, <1>4, <1>5
<1> QED BY <1>2, <1>3, <1>4, <1>6 DEF Changed, PlansAgree

\* and one for a failed payment leaves both as they are, whatever it had read.
LEMMA PaymentCommit ==
  ASSUME Billed, NEW h \in Handlers, Write(h), ~WritesPlan(h)
  PROVE  mirror'.plan = mirror.plan /\ userPlan' = userPlan /\ raced' = raced
<1> DEFINE r == RowAfter(h)
<1>1. hpc[h] = "ready" /\ ev[h].type = "payment_failed"
  BY DEF Write, WritesPlan
<1>2. r.plan = loaded[h].plan
  BY <1>1, RowAfterKeeps
<1>3. UserPlanAfter(h) = loadedPlan[h]
  BY <1>1 DEF UserPlanAfter
<1>4. /\ mirror' = [f \in DOMAIN mirror |-> Changed(loaded[h][f], r[f], mirror[f])]
      /\ userPlan' = Changed(loadedPlan[h], UserPlanAfter(h), userPlan)
      /\ raced' = raced
  BY DEF Write
<1> HIDE DEF r
<1>5. "plan" \in DOMAIN mirror
  BY DEF Billed, TypeOK, Rows
<1> QED BY <1>2, <1>3, <1>4, <1>5 DEF Changed

\* What the steps that are no commit of a webhook or the reconciler leave of the plans.
LEMMA OthersLeavePlans ==
  ASSUME Billed, NEW h \in Handlers, Receives(h) \/ Continue(h) \/ Abort(h), ~Write(h)
  PROVE  /\ mirror'.plan = mirror.plan /\ userPlan' = userPlan /\ raced' = raced
         /\ overtaken' \in {overtaken, overtaken \ {h}}
<1>1. CASE CommitCustomer(h)
  BY <1>1 DEF CommitCustomer, Finish, Billed, TypeOK, Rows
<1>2. CASE Receives(h) \/ LoadFirst(h) \/ LoadSecond(h) \/ Ignore(h) \/ Fetch(h)
           \/ KnownCustomer(h) \/ InsertRow(h) \/ CreateCustomer(h) \/ Abort(h)
  BY <1>2 DEF Receives, Deliver, Redeliver, Open, Reconcile, Start, LoadFirst, LoadSecond, LoadRow,
     LoadUser, Ignore, Fetch, KnownCustomer, InsertRow, CreateCustomer, Abort, Finish
<1> QED BY <1>1, <1>2 DEF Continue

\* Whoever commits a plan without having been overtaken mends the two copies.
LEMMA PlansMended ==
  ASSUME Billed, Synced, Next
  PROVE  ~raced' => PlansAgree'
<1>1. CASE StripeMoves
  BY <1>1, StripeLeaves DEF Billed, Synced, PlansAgree
<1>2. ASSUME NEW h \in Handlers, Write(h) PROVE ~raced' => PlansAgree'
  <2>1. CASE WritesPlan(h)
    <3>1. raced' = (h \in overtaken)
      BY <1>2, <2>1 DEF Write
    <3> QED BY <1>2, <2>1, <3>1, PlanCommit DEF Synced
  <2>2. CASE ~WritesPlan(h)
    BY <1>2, <2>2, PaymentCommit DEF Synced, PlansAgree
  <2> QED BY <2>1, <2>2
<1>3. ASSUME NEW h \in Handlers, Receives(h) \/ Continue(h) \/ Abort(h), ~Write(h)
      PROVE  ~raced' => PlansAgree'
  BY <1>3, OthersLeavePlans DEF Synced, PlansAgree
<1> QED BY <1>1, <1>2, <1>3, Steps DEF Continue

\* A handler's own loads take what is committed.
LEMMA OwnLoads ==
  ASSUME Billed, NEW h \in Handlers, h \notin overtaken => UpToDate(h), h \notin overtaken',
         Receives(h) \/ Continue(h) \/ Abort(h)
  PROVE  UpToDate(h)'
<1>1. HandlersTyped /\ Handling(h)
  BY DEF Billed, TypeOK, HandlersTyped
<1>2. ASSUME EndHandler(h) PROVE UpToDate(h)'
  BY <1>1, <1>2 DEF EndHandler, HandlersTyped, UpToDate
<1>3. CASE Receives(h)
  <2>1. hpc'[h] = "first"
    BY <1>1, <1>3 DEF Receives, Deliver, Redeliver, Open, Reconcile, Start, HandlersTyped
  <2> QED BY <2>1 DEF UpToDate
<1>4. CASE LoadFirst(h) \/ LoadSecond(h)
  <2>1. UpToDate(h)
    BY <1>4 DEF LoadFirst, LoadSecond, LoadRow, LoadUser
  <2> QED BY <1>1, <1>4, <2>1 DEF LoadFirst, LoadSecond, LoadRow, LoadUser, HandlersTyped, UpToDate
<1>5. CASE Ignore(h) \/ Write(h) \/ KnownCustomer(h) \/ CommitCustomer(h) \/ Abort(h)
  BY <1>2, <1>5 DEF Ignore, Write, KnownCustomer, CommitCustomer, Abort, Finish
<1>6. CASE Fetch(h)
  <2>1. \/ EndHandler(h)
        \/ /\ loaded' = loaded /\ loaded[h].plan = mirror.plan /\ mirror' = mirror /\ userPlan' = userPlan
           /\ loadedPlan' = [loadedPlan EXCEPT ![h] = userPlan] /\ hpc' = [hpc EXCEPT ![h] = "ready"]
    BY <1>6 DEF Fetch, Finish, UpToDate
  <2> QED BY <1>1, <1>2, <2>1 DEF HandlersTyped, UpToDate
<1>7. CASE InsertRow(h)
  BY <1>1, <1>2, <1>7 DEF InsertRow, Finish, HandlersTyped, UpToDate
<1>8. CASE CreateCustomer(h)
  BY <1>1, <1>8 DEF CreateCustomer, HandlersTyped, UpToDate
<1> QED BY <1>3, <1>4, <1>5, <1>6, <1>7, <1>8 DEF Continue

\* What a handler has read of the plans stays what is committed until it is overtaken.
LEMMA UpToDateNext ==
  ASSUME Billed, Synced, Next, NEW g \in Handlers, g \notin overtaken'
  PROVE  UpToDate(g)'
<1>1. TypeOK /\ HandlersTyped /\ (g \notin overtaken => UpToDate(g)) /\ Handling(g)
  BY DEF Synced, Billed, TypeOK, HandlersTyped
<1>2. CASE StripeMoves
  BY <1>1, <1>2, StripeLeaves DEF UpToDate
<1>3. ASSUME NEW h \in Handlers, Receives(h) \/ Continue(h) \/ Abort(h), g # h PROVE UpToDate(g)'
  <2>1. Kept(g)
    BY <1>1, <1>3, OwnSteps
  <2>2. ASSUME mirror'.plan = mirror.plan, userPlan' = userPlan, g \notin overtaken PROVE UpToDate(g)'
    BY <1>1, <2>1, <2>2 DEF Kept, UpToDate
  <2>3. CASE Write(h)
    <3>1. CASE WritesPlan(h)
      <4>1. overtaken' = (overtaken \cup AtWork) \ {h}
        BY <2>3, <3>1 DEF Write
      <4>2. ev[g].type = "open" \/ hpc[g] \notin {"second", "ready"}
        BY <1>3, <4>1 DEF AtWork
      <4> QED BY <2>1, <4>2 DEF Kept, UpToDate
    <3>2. CASE ~WritesPlan(h)
      <4>1. overtaken' = overtaken \ {h}
        BY <2>3, <3>2 DEF Write
      <4> QED BY <1>3, <2>2, <2>3, <3>2, <4>1, PaymentCommit
    <3> QED BY <3>1, <3>2
  <2>4. CASE ~Write(h)
    BY <1>3, <2>2, <2>4, OthersLeavePlans
  <2> QED BY <2>3, <2>4
<1>4. ASSUME Receives(g) \/ Continue(g) \/ Abort(g) PROVE UpToDate(g)'
  BY <1>1, <1>4, OwnLoads
<1> QED BY <1>2, <1>3, <1>4, Steps

\* The copies are equal at first.
LEMMA SyncedInit == Init => Synced
  BY DEF Init, Synced, PlansAgree, UpToDate, NewRow, Idle

\* Synced is inductive, whichever handlers overlap.
LEMMA SyncedNext == Billed /\ Synced /\ [Next]_vars => Synced'
<1> SUFFICES ASSUME Billed, Synced, [Next]_vars PROVE Synced'
  OBVIOUS
<1>1. CASE UNCHANGED vars
  BY <1>1 DEF vars, handler, Synced, PlansAgree, UpToDate
<1>2. CASE Next
  BY <1>2, PlansMended, UpToDateNext DEF Synced
<1> QED BY <1>1, <1>2

\* "Denormalized from Subscription": whichever handlers overlap, are lost, repeated or die,
\* the plan requests are metered by differs from the plan of the mirrored subscription
\* only after a handler that had read the rows before another one committed a plan, and
\* the next that had not mends it; and the user is billed as one customer.
THEOREM MirrorStaysConsistent == Spec => []MirrorConsistent
<1>1. Billed /\ Synced => MirrorConsistent
  BY BilledOnce DEF Billed, Synced, MirrorConsistent
<1> QED BY <1>1, AlwaysBilled, SyncedInit, SyncedNext, PTL DEF Spec
=============================================================================
