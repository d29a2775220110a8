-------------------------- MODULE QueuedRunsProofs --------------------------
(***************************************************************************)
(* Proofs about QueuedRuns, for any readers, any number of deliveries and  *)
(* any number of crashes, restarts, timeouts and database errors: what the *)
(* submitting client gets, when it is left waiting, what a run is charged, *)
(* and when the events and the report agree.                               *)
(***************************************************************************)
EXTENDS QueuedRuns, SequenceTheorems, TLAPS

Has(s, e) == \E i \in 1 .. Len(s) : s[i] = e

\* The job exists only once the submitting client's relay is subscribed, or the client
\* has gone without one; a worker has a job that was delivered.
Order ==
    /\ phase[Submitter] # "read"
    /\ phase[Submitter] \in {"new", "created"} => job = "none"
    /\ phase[Submitter] \in {"new", "created", "subscribed"} => received[Submitter] = <<>>
    /\ job = "none" => worker = "idle" /\ tries = 0 /\ published = <<>>
    /\ worker # "idle" => job \in {"inprogress", "done"}

\* stream_end is never forwarded: it ends the relay.
NoEnd == \A c \in Clients : ~Has(received[c], "stream_end")

\* While the submitting client is subscribed, an attempt has published stream_end, or
\* ended outside its try, or every attempt so far was killed or stopped but for the one
\* in progress.
Attended ==
    Subscribed(Submitter) =>
        \/ Has(published, "stream_end") \/ faults["silent"] > 0
        \/ /\ tries <= faults["worker"] + (IF worker = "idle" THEN 0 ELSE 1)
           /\ job = "done" => tries >= MaxTries
           /\ worker \notin {"ended", "stopped"}

\* An attempt charges once, and another one follows it only over its death.
Charges ==
    /\ charged <= faults["worker"]
                  + (IF worker \in {"ending", "ended"} \/ (worker = "idle" /\ job = "done")
                     THEN 1 ELSE 0)
    /\ row = "complete" => charged > 0
    /\ row = "failed" /\ faults["worker"] = 0 => charged = 0
    /\ worker \in {"starting", "running", "halfway"} => flushed = "none"
    /\ worker = "published" => flushed \in Outcomes

\* The outcome the run has, or is about to commit, and the event that tells it.
SettledAs(o) == row = o \/ (worker = "published" /\ flushed = o)
Word(o)      == IF o = "complete" THEN "complete" ELSE "error"

\* As long as no attempt is killed or stopped and no session broken, there is one, and
\* what it tells is stored.
Undisturbed == \A f \in {"worker", "timeout", "database"} : faults[f] = 0
Once ==
    Undisturbed =>
        /\ row \in Outcomes => worker \in {"ending", "ended"} \/ (worker = "idle" /\ job = "done")
        /\ worker \notin {"stopping", "stopped"}
        /\ \A o \in Outcomes, c \in Clients :
              /\ snapshot[c] = o => row = o
              /\ Has(received[c], Word(o)) \/ Has(inbox[c], Word(o)) => SettledAs(o)

IInv == TypeOK /\ Order /\ SubmitterMissesNothing /\ NoEnd /\ Attended /\ Charges /\ Once
-----------------------------------------------------------------------------
(* Queues of events.                                                       *)

\* What an event at the end, or at the front, changes.
LEMMA HasAppend ==
    ASSUME NEW s \in Seq(Events), NEW e \in Events
    PROVE  /\ Append(s, e) \in Seq(Events)
           /\ \A x : Has(Append(s, e), x) <=> Has(s, x) \/ x = e
<1>1. /\ Append(s, e) \in Seq(Events) /\ Len(s) \in Nat
      /\ Len(Append(s, e)) = Len(s) + 1
      /\ \A i \in 1 .. Len(s) : Append(s, e)[i] = s[i]
      /\ Append(s, e)[Len(s) + 1] = e
  OBVIOUS
<1>2. \A i \in 1 .. Len(s) + 1 : i \in 1 .. Len(s) \/ i = Len(s) + 1
  BY <1>1
<1> QED
  BY <1>1, <1>2 DEF Has

\* An event waiting is at the front or behind it.
LEMMA HasHead ==
    ASSUME NEW s \in Seq(Events), s # <<>>
    PROVE  /\ Head(s) \in Events /\ Tail(s) \in Seq(Events)
           /\ \A x : Has(s, x) <=> x = Head(s) \/ Has(Tail(s), x)
<1>1. /\ Head(s) \in Events /\ Tail(s) \in Seq(Events) /\ Len(Tail(s)) = Len(s) - 1
      /\ \A i \in 1 .. Len(Tail(s)) : Tail(s)[i] = s[i + 1]
  BY HeadTailProperties
<1>2. Len(s) \in Nat /\ Len(s) >= 1 /\ Head(s) = s[1]
  BY EmptySeq, LenProperties
<1>3. ASSUME NEW x, Has(s, x) PROVE x = Head(s) \/ Has(Tail(s), x)
  <2>1. PICK i \in 1 .. Len(s) : s[i] = x
    BY <1>3 DEF Has
  <2>2. CASE i = 1
    BY <1>2, <2>1, <2>2
  <2>3. CASE i # 1
    <3>1. i - 1 \in 1 .. Len(Tail(s)) /\ (i - 1) + 1 = i
      BY <1>1, <1>2, <2>1, <2>3
    <3>2. Tail(s)[i - 1] = x
      BY <1>1, <2>1, <3>1
    <3> QED
      BY <3>1, <3>2 DEF Has
  <2> QED
    BY <2>2, <2>3
<1>4. ASSUME NEW x, Has(Tail(s), x) PROVE Has(s, x)
  <2>1. PICK i \in 1 .. Len(Tail(s)) : Tail(s)[i] = x
    BY <1>4 DEF Has
  <2>2. i + 1 \in 1 .. Len(s) /\ s[i + 1] = x
    BY <1>1, <1>2, <2>1
  <2> QED
    BY <2>2 DEF Has
<1>5. Has(s, Head(s))
  BY <1>2 DEF Has
<1> QED
  BY <1>1, <1>3, <1>4, <1>5

\* Nothing waits in an empty queue.
LEMMA HasNothing == /\ \A x : ~Has(<<>>, x)
                    /\ \A e, x : Has(<<e>>, x) <=> x = e
<1>1. ASSUME NEW e, NEW x PROVE Has(<<e>>, x) <=> x = e
  <2>1. Len(<<e>>) = 1 /\ <<e>>[1] = e
    OBVIOUS
  <2> QED
    BY <2>1 DEF Has
<1> QED
  BY <1>1 DEF Has

\* A client's events and its relay's, when one more is published or one is forwarded.
LEMMA Forwarded ==
    ASSUME NEW s \in Seq(Events), NEW t \in Seq(Events)
    PROVE  /\ \A e \in Events : s \o Append(t, e) = Append(s \o t, e)
           /\ t # <<>> => Append(s, Head(t)) \o Tail(t) = s \o t
<1>1. ASSUME NEW e \in Events PROVE s \o Append(t, e) = Append(s \o t, e)
  OBVIOUS
<1>2. ASSUME t # <<>> PROVE Append(s, Head(t)) \o Tail(t) = s \o t
  <2>1. Head(t) \in Events /\ Tail(t) \in Seq(Events) /\ t = <<Head(t)>> \o Tail(t)
    BY <1>2, HeadTailProperties
  <2>2. Append(s, Head(t)) = s \o <<Head(t)>> /\ <<Head(t)>> \in Seq(Events)
    BY <2>1
  <2> QED
    BY <2>1, <2>2, ConcatAssociative
<1> QED
  BY <1>1, <1>2

\* What publishing does.
LEMMA Published ==
    ASSUME TypeOK, NEW e \in Events, Publish(e)
    PROVE  /\ published' = Append(published, e) /\ published' \in Seq(Events)
           /\ inbox' \in [Clients -> Seq(Events)]
           /\ \A c \in Clients : inbox'[c] = IF Subscribed(c) THEN Append(inbox[c], e) ELSE inbox[c]
           /\ \A x : Has(published', x) <=> Has(published, x) \/ x = e
           /\ \A c \in Clients : \A x : Has(inbox'[c], x) => Has(inbox[c], x) \/ x = e
  BY HasAppend DEF TypeOK, Publish
-----------------------------------------------------------------------------
(* The initial state, and the types.                                       *)

\* Nothing has been asked for.
LEMMA InitInv == Init => IInv
<1> SUFFICES ASSUME Init PROVE IInv
  OBVIOUS
<1> USE QueueConstants DEF Init
<1>1. TypeOK
  BY DEF TypeOK, Statuses, Workers, Phases
<1>2. Order /\ SubmitterMissesNothing /\ NoEnd /\ Attended
  BY HasNothing DEF Order, SubmitterMissesNothing, NoEnd, Attended, Subscribed, Clients
<1>3. Charges /\ Once
  BY HasNothing DEF Charges, Once, Outcomes, Faults
<1> QED
  BY <1>1, <1>2, <1>3 DEF IInv

\* The steps of the clients and the API, and those of an attempt that publish.
ClientStep ==
    \/ CreateReport \/ SubmitStep \/ NeverEnqueued
    \/ \E c \in Readers : ReadReport(c)
    \/ \E c \in Clients : ServeSnapshot(c) \/ Reattach(c) \/ Relay(c) \/ Deadline(c)

Publishing == Progress \/ EndStream \/ \E o \in Outcomes : Outcome(o)

\* The steps of an attempt or its job that publish nothing, and those that break one off.
Silent == StartAttempt \/ EnterPipeline \/ Commit \/ Acknowledge \/ Redeliver \/ GiveUp
Broken == BreakSession \/ Die \/ Stop \/ Timeout \/ EndSilently

\* Every step keeps the types.
LEMMA TypeNext == TypeOK /\ [Next]_vars => TypeOK'
<1> SUFFICES ASSUME TypeOK, [Next]_vars PROVE TypeOK'
  OBVIOUS
<1> USE QueueConstants DEF TypeOK, report, clients, channel, attempt, Move, Fault, Faults
<1>e. <<>> \in Seq(Events)
  BY EmptySeq
<1>1. CASE CreateReport \/ SubmitStep \/ NeverEnqueued
  <2>1. /\ UNCHANGED <<tries, worker, flushed, charged, snapshot, received, published>>
        /\ row' \in Statuses /\ job' \in {"none", "queued", "inprogress", "done"}
    BY <1>1 DEF CreateReport, SubmitStep, Subscribe, Enqueue, Listen, EnqueueOnly, NeverEnqueued,
                Statuses
  <2>2. phase' \in [Clients -> Phases]
    BY <1>1 DEF CreateReport, SubmitStep, Subscribe, Enqueue, Listen, EnqueueOnly, NeverEnqueued,
                Phases
  <2>3. inbox' \in [Clients -> Seq(Events)]
    <3>1. inbox' = inbox \/ inbox' = [inbox EXCEPT ![Submitter] = <<>>]
      BY <1>1 DEF CreateReport, SubmitStep, Subscribe, Enqueue, Listen, EnqueueOnly, NeverEnqueued,
                  Greeting
    <3> QED
      BY <3>1, <1>e
  <2>4. faults' \in [Faults -> Nat]
    <3>1. faults' = faults \/ Fault("api", ApiCrashes)
      BY <1>1 DEF CreateReport, SubmitStep, Subscribe, Enqueue, Listen, EnqueueOnly, NeverEnqueued
    <3> QED
      BY <3>1
  <2> QED
    BY <2>1, <2>2, <2>3, <2>4
<1>2. ASSUME NEW c \in Clients, ReadReport(c) \/ ServeSnapshot(c) \/ Reattach(c) \/ Deadline(c)
      PROVE  TypeOK'
  <2>1. /\ UNCHANGED <<row, job, tries, worker, flushed, charged, published, faults>>
        /\ phase' \in [Clients -> Phases]
    BY <1>2 DEF ReadReport, ServeSnapshot, Reattach, Deadline, Phases
  <2>2. snapshot' \in [Clients -> Statuses] /\ inbox' \in [Clients -> Seq(Events)]
    <3>1. snapshot' = snapshot \/ snapshot' = [snapshot EXCEPT ![c] = row]
      BY <1>2 DEF ReadReport, ServeSnapshot, Reattach, Deadline
    <3>2. inbox' = inbox \/ inbox' = [inbox EXCEPT ![c] = <<>>]
      BY <1>2 DEF ReadReport, ServeSnapshot, Reattach, Deadline, Greeting
    <3> QED
      BY <3>1, <3>2, <1>e
  <2>3. received' \in [Clients -> Seq(Events)]
    <3> DEFINE w == IF snapshot[c] = "complete" THEN "complete" ELSE "error"
    <3>1. <<w>> \in Seq(Events)
      BY DEF Events, Terminal
    <3>2. received' = received \/ received' = [received EXCEPT ![c] = <<w>>]
      BY <1>2 DEF ReadReport, ServeSnapshot, Reattach, Deadline
    <3> QED
      BY <3>1, <3>2
  <2> QED
    BY <2>1, <2>2, <2>3
<1>3. ASSUME NEW c \in Clients, Relay(c) PROVE TypeOK'
  <2>1. /\ inbox[c] \in Seq(Events) /\ received[c] \in Seq(Events) /\ inbox[c] # <<>>
    BY <1>3 DEF Relay
  <2>2. Tail(inbox[c]) \in Seq(Events) /\ Append(received[c], Head(inbox[c])) \in Seq(Events)
    BY <2>1, HasHead, HasAppend
  <2>3. inbox' \in [Clients -> Seq(Events)] /\ received' \in [Clients -> Seq(Events)]
    <3>1. inbox' = [inbox EXCEPT ![c] = <<>>] \/ inbox' = [inbox EXCEPT ![c] = Tail(inbox[c])]
      BY <1>3 DEF Relay
    <3>2. \/ received' = received
          \/ received' = [received EXCEPT ![c] = Append(received[c], Head(inbox[c]))]
      BY <1>3 DEF Relay
    <3> QED
      BY <1>e, <2>2, <3>1, <3>2
  <2> QED
    BY <1>3, <2>3 DEF Relay, Phases
<1>4. CASE Publishing
  <2>1. published' \in Seq(Events) /\ inbox' \in [Clients -> Seq(Events)]
    BY <1>4, Published DEF Publishing, Progress, EndStream, Outcome, Events, Terminal
  <2> QED
    BY <1>4, <2>1 DEF Publishing, Progress, EndStream, Outcome, Workers, Outcomes
<1>5. CASE Silent
  BY <1>5 DEF Silent, StartAttempt, EnterPipeline, Commit, Acknowledge, Leave, Redeliver, GiveUp, Workers,
              TriesLeft, Claimed, Acknowledged, CommitSession, Stored, Accrued, Statuses, Outcomes
<1>8. CASE Broken
  <2>1. faults' \in [Faults -> Nat]
    <3>1. \E kind \in Faults : faults' = [faults EXCEPT ![kind] = @ + 1]
      BY <1>8 DEF Broken, BreakSession, Die, Stop, Timeout, EndSilently
    <3> QED
      BY <3>1
  <2>2. /\ UNCHANGED <<row, tries, charged, phase, snapshot, inbox, received, published>>
        /\ worker' \in {"idle", "ending", "stopping"} /\ flushed' = "none"
        /\ job' \in {job, "queued", "done"}
    BY <1>8 DEF Broken, BreakSession, Die, Stop, Timeout, EndSilently, Leave, Acknowledged
  <2> QED
    BY <2>1, <2>2 DEF Workers
<1>6. CASE RedisRestart
  BY <1>6 DEF RedisRestart, Workers, CommitSession, Stored, Accrued, Statuses, Outcomes, Phases
<1>7. CASE UNCHANGED vars
  BY <1>7 DEF vars
<1> QED
  BY <1>1, <1>2, <1>3, <1>4, <1>5, <1>6, <1>7, <1>8
     DEF Next, WorkerStep, Publishing, Silent, Broken, Clients
-----------------------------------------------------------------------------
(* The submitting client.                                                  *)

\* The job waits for the relay; the relay's client has got nothing before it listens.
LEMMA OrderNext == IInv /\ [Next]_vars => Order'
<1> SUFFICES ASSUME TypeOK, Order, [Next]_vars PROVE Order'
  BY DEF IInv
<1> USE DEF Order, report, clients, channel, attempt, Move
<1>0. Submitter \in Clients /\ Readers \subseteq Clients /\ Submitter \notin Readers
      /\ phase \in [Clients -> Phases] /\ received \in [Clients -> Seq(Events)]
  BY QueueConstants DEF Clients, TypeOK
<1>1. CASE CreateReport \/ SubmitStep \/ NeverEnqueued
  BY <1>0, <1>1 DEF CreateReport, SubmitStep, Subscribe, Enqueue, SubmitterReady, Listen, EnqueueOnly,
                    NeverEnqueued
<1>2. ASSUME NEW c \in Readers, ReadReport(c) PROVE Order'
  BY <1>0, <1>2 DEF ReadReport
<1>3. ASSUME NEW c \in Clients, ServeSnapshot(c) \/ Reattach(c) \/ Relay(c) \/ Deadline(c)
      PROVE  Order'
  BY <1>0, <1>3 DEF ServeSnapshot, Reattach, Relay, Deadline
<1>4. CASE Publishing
  BY <1>0, <1>4 DEF Publishing, Progress, EndStream, Outcome
<1>5. CASE Silent
  BY <1>0, <1>5 DEF Silent, StartAttempt, EnterPipeline, Commit, Acknowledge, Leave, Acknowledged,
                    Redeliver, GiveUp, Claimed
<1>8. CASE Broken
  BY <1>0, <1>8 DEF Broken, BreakSession, Die, Stop, Timeout, EndSilently, Leave, Acknowledged, Executing
<1>6. CASE RedisRestart
  <2>1. phase'[Submitter] = IF Subscribed(Submitter) THEN "broken" ELSE phase[Submitter]
    BY <1>0, <1>6 DEF RedisRestart
  <2> QED
    BY <1>0, <1>6, <2>1 DEF RedisRestart, Subscribed
<1>7. CASE UNCHANGED vars
  BY <1>7 DEF vars
<1> QED
  BY <1>1, <1>2, <1>3, <1>4, <1>5, <1>6, <1>7, <1>8 DEF Next, WorkerStep, Publishing, Silent, Broken

\* No relay forwards stream_end, and no snapshot is one.
LEMMA NoEndNext == IInv /\ [Next]_vars => NoEnd'
<1> SUFFICES ASSUME TypeOK, NoEnd, [Next]_vars PROVE NoEnd'
  BY DEF IInv
<1> USE DEF clients
<1>1. ASSUME NEW c \in Clients, ServeSnapshot(c) PROVE NoEnd'
  <2> DEFINE w == IF snapshot[c] = "complete" THEN "complete" ELSE "error"
  <2>1. received'[c] = <<w>> /\ \A d \in Clients \ {c} : received'[d] = received[d]
    BY <1>1 DEF ServeSnapshot, TypeOK
  <2>2. ~Has(<<w>>, "stream_end")
    BY HasNothing
  <2> QED
    BY <2>1, <2>2 DEF NoEnd
<1>2. ASSUME NEW c \in Clients, Relay(c) PROVE NoEnd'
  <2>1. /\ inbox[c] \in Seq(Events) /\ received[c] \in Seq(Events) /\ inbox[c] # <<>>
        /\ \/ received' = received
           \/ Head(inbox[c]) # "stream_end" /\ received'[c] = Append(received[c], Head(inbox[c]))
        /\ \A d \in Clients \ {c} : received'[d] = received[d]
    BY <1>2 DEF Relay, TypeOK
  <2>2. Head(inbox[c]) \in Events
    BY <2>1, HasHead
  <2>3. ~Has(Append(received[c], Head(inbox[c])), "stream_end") \/ Head(inbox[c]) = "stream_end"
    BY <2>1, <2>2, HasAppend DEF NoEnd
  <2> QED
    BY <2>1, <2>3 DEF NoEnd
<1>3. CASE received' = received
  BY <1>3 DEF NoEnd
<1>4. \/ received' = received
      \/ \E c \in Clients : ServeSnapshot(c) \/ Relay(c)
  BY DEF Next, CreateReport, SubmitStep, Subscribe, Enqueue, Listen, EnqueueOnly, NeverEnqueued,
         ReadReport, Reattach, Deadline, WorkerStep, StartAttempt, EnterPipeline, Progress, Commit,
         EndStream, Acknowledge, Redeliver, GiveUp, Outcome, BreakSession, Die, Stop, Timeout,
         EndSilently, RedisRestart, vars
<1> QED
  BY <1>1, <1>2, <1>3, <1>4

\* What the submitting client has got and what waits for it is what was published: it
\* subscribes before anything is, each event reaches it at the end of its queue, and each
\* message it forwards leaves the front.
LEMMA MissesNothingNext == IInv /\ [Next]_vars => SubmitterMissesNothing'
<1> SUFFICES ASSUME TypeOK, Order, SubmitterMissesNothing, [Next]_vars, Subscribed(Submitter)'
             PROVE  received'[Submitter] \o inbox'[Submitter] = published'
  BY DEF IInv, SubmitterMissesNothing
<1> DEFINE r == received[Submitter]
           q == inbox[Submitter]
<1>0. /\ Submitter \in Clients /\ Readers \subseteq Clients /\ Submitter \notin Readers
      /\ phase \in [Clients -> Phases] /\ received \in [Clients -> Seq(Events)]
      /\ inbox \in [Clients -> Seq(Events)]
      /\ r \in Seq(Events) /\ q \in Seq(Events)
      /\ Subscribed(Submitter) => r \o q = published
      /\ phase'[Submitter] \in {"subscribed", "relaying"}
  BY QueueConstants DEF Clients, TypeOK, Subscribed, SubmitterMissesNothing
<1> USE DEF report, clients, channel, attempt, Move, Subscribed
<1>1. CASE Subscribe
  <2>1. r = <<>> /\ published = <<>> /\ received' = received /\ published' = published
        /\ inbox'[Submitter] = <<>>
    BY <1>0, <1>1 DEF Subscribe, Greeting, Order
  <2>2. <<>> \o <<>> = <<>>
    BY ConcatEmptySeq, EmptySeq
  <2> QED
    BY <2>1, <2>2
<1>2. CASE /\ phase[Submitter] \in {"subscribed", "relaying"}
           /\ received'[Submitter] = r /\ inbox'[Submitter] = q /\ published' = published
  BY <1>0, <1>2
<1>3. CASE Relay(Submitter)
  <2>1. /\ q # <<>> /\ phase[Submitter] = "relaying" /\ published' = published
        /\ inbox'[Submitter] = Tail(q) /\ received'[Submitter] = Append(r, Head(q))
    <3>1. Head(q) # "stream_end"
      BY <1>0, <1>3 DEF Relay
    <3> QED
      BY <1>0, <1>3, <3>1 DEF Relay
  <2>2. r \o q = published
    BY <1>0, <2>1
  <2> QED
    BY <1>0, <2>1, <2>2, Forwarded
<1>4. ASSUME NEW e \in Events, Publish(e), UNCHANGED <<phase, received>>
      PROVE  received'[Submitter] \o inbox'[Submitter] = published'
  <2>1. published' = Append(published, e) /\ inbox'[Submitter] = Append(q, e)
    BY <1>0, <1>4 DEF Publish
  <2> QED
    BY <1>0, <1>4, <2>1, Forwarded
<1>5. CASE Publishing
  <2>1. (\E e \in Events : Publish(e)) /\ UNCHANGED <<phase, received>>
    BY <1>5 DEF Publishing, Progress, EndStream, Outcome, Events, Terminal
  <2> QED
    BY <1>4, <2>1
<1>6. CASE \/ CreateReport \/ Enqueue \/ Listen \/ EnqueueOnly \/ NeverEnqueued
           \/ Silent \/ Broken \/ UNCHANGED vars
  BY <1>0, <1>2, <1>6 DEF CreateReport, Enqueue, Listen, EnqueueOnly, NeverEnqueued, Silent,
                          StartAttempt, EnterPipeline, Commit, Acknowledge, Redeliver, GiveUp, Broken,
                          BreakSession, Die, Stop, Timeout, EndSilently, vars
<1>7. ASSUME NEW c \in Readers, ReadReport(c)
      PROVE  received'[Submitter] \o inbox'[Submitter] = published'
  BY <1>0, <1>2, <1>7 DEF ReadReport
<1>8. ASSUME NEW c \in Clients, ServeSnapshot(c) \/ Reattach(c) \/ Deadline(c)
      PROVE  received'[Submitter] \o inbox'[Submitter] = published'
  BY <1>0, <1>2, <1>8 DEF ServeSnapshot, Reattach, Deadline, Order
<1>9. ASSUME NEW c \in Clients \ {Submitter}, Relay(c)
      PROVE  received'[Submitter] \o inbox'[Submitter] = published'
  <2>1. /\ phase'[Submitter] = phase[Submitter] /\ received'[Submitter] = r
        /\ inbox'[Submitter] = q /\ published' = published
    BY <1>0, <1>9 DEF Relay
  <2> QED
    BY <1>0, <1>2, <2>1
<1>10. CASE RedisRestart
  <2>1. phase'[Submitter] = IF Subscribed(Submitter) THEN "broken" ELSE phase[Submitter]
    BY <1>0, <1>10 DEF RedisRestart
  <2> QED
    BY <1>0, <2>1
<1> QED
  BY <1>1, <1>3, <1>5, <1>6, <1>7, <1>8, <1>9, <1>10
     DEF Next, SubmitStep, WorkerStep, Publishing, Silent, Broken

\* Every end of an attempt publishes stream_end, or is a worker's death or stop, or comes
\* outside its try.
LEMMA AttendedNext == IInv /\ [Next]_vars => Attended'
<1> SUFFICES ASSUME TypeOK, Order, Attended, [Next]_vars, Subscribed(Submitter)' PROVE Attended'
  BY DEF IInv, Attended
<1> DEFINE Spared == /\ tries <= faults["worker"] + (IF worker = "idle" THEN 0 ELSE 1)
                     /\ job = "done" => tries >= MaxTries
                     /\ worker \notin {"ended", "stopped"}
           Told   == Has(published, "stream_end") \/ faults["silent"] > 0
<1>0. /\ Submitter \in Clients /\ phase \in [Clients -> Phases] /\ tries \in Nat
      /\ faults \in [Faults -> Nat] /\ faults["worker"] \in Nat /\ faults["silent"] \in Nat
      /\ phase'[Submitter] \in {"subscribed", "relaying"} /\ MaxTries \in Nat
  BY QueueConstants DEF Clients, TypeOK, Subscribed, Faults
<1>q. Told' \/ Spared' => Attended'
  BY DEF Attended
<1>p. Subscribed(Submitter) => Told \/ Spared
  BY DEF Attended
<1> USE DEF report, clients, channel, attempt, Move, Fault, Subscribed
<1>1. CASE Subscribe
  <2>1. job = "none" /\ tries = 0 /\ worker = "idle" /\ UNCHANGED <<job, tries, worker, faults>>
    BY <1>1 DEF Subscribe, Order
  <2> QED
    BY <1>0, <1>q, <2>1
<1>2. ASSUME NEW e \in Events, Publish(e), phase' = phase,
             faults' = faults,
             e = "stream_end" \/ (worker # "idle" /\ worker' \notin {"idle", "ended", "stopped"}
                                  /\ UNCHANGED <<tries, job>>)
      PROVE  Attended'
  <2>1. Has(published', "stream_end") <=> Has(published, "stream_end") \/ e = "stream_end"
    BY <1>2, Published
  <2> QED
    BY <1>0, <1>2, <1>p, <1>q, <2>1
<1>3. CASE Publishing
  <2>1. \E e \in Events : /\ Publish(e) /\ phase' = phase /\ faults' = faults
                          /\ \/ e = "stream_end"
                             \/ /\ worker # "idle" /\ worker' \notin {"idle", "ended", "stopped"}
                                /\ UNCHANGED <<tries, job>>
    BY <1>3 DEF Publishing, Progress, EndStream, Outcome, Events, Terminal
  <2> QED
    BY <1>2, <2>1
<1>4. CASE published' = published /\ UNCHANGED <<tries, job, worker, faults>> /\ Subscribed(Submitter)
  BY <1>4, <1>p, <1>q
<1>5. CASE CreateReport \/ Enqueue \/ Listen \/ EnqueueOnly
  BY <1>0, <1>5, <1>p, <1>q
     DEF CreateReport, Enqueue, Listen, EnqueueOnly
<1>10. CASE NeverEnqueued
  BY <1>0, <1>10 DEF NeverEnqueued
<1>6. ASSUME NEW c \in Clients,
             (c \in Readers /\ ReadReport(c)) \/ ServeSnapshot(c) \/ Reattach(c) \/ Relay(c) \/ Deadline(c)
      PROVE  Attended'
  <2>1. phase[Submitter] \in {"subscribed", "relaying"}
    BY <1>0, <1>6, QueueConstants DEF ReadReport, ServeSnapshot, Reattach, Relay, Deadline, Order
  <2>2. UNCHANGED <<published, tries, job, worker, faults>>
    BY <1>6 DEF ReadReport, ServeSnapshot, Reattach, Relay, Deadline
  <2> QED
    BY <1>4, <2>1, <2>2
<1>7. CASE Silent
  <2>1. UNCHANGED <<published, phase, faults>>
    BY <1>7 DEF Silent, StartAttempt, EnterPipeline, Commit, Acknowledge, Redeliver, GiveUp
  <2>2. Told \/ Spared
    BY <1>0, <1>p, <2>1
  <2>3. CASE StartAttempt \/ Redeliver \/ GiveUp
    BY <1>0, <1>q, <2>1, <2>2, <2>3 DEF StartAttempt, Claimed, Redeliver, GiveUp, TriesLeft
  <2>4. CASE EnterPipeline \/ Commit \/ Acknowledge
    BY <1>0, <1>q, <2>1, <2>2, <2>4 DEF EnterPipeline, Commit, Acknowledge
  <2> QED
    BY <1>7, <2>3, <2>4 DEF Silent
<1>11. CASE Broken
  <2>1. UNCHANGED <<published, phase, tries>>
    BY <1>11 DEF Broken, BreakSession, Die, Stop, Timeout, EndSilently
  <2>2. Told \/ Spared
    BY <1>0, <1>p, <2>1
  <2>3. CASE BreakSession \/ Timeout
    <3>1. /\ faults'["worker"] = faults["worker"] /\ faults'["silent"] = faults["silent"]
          /\ worker # "idle" /\ worker' = "ending" /\ job' = job
      BY <1>0, <2>3 DEF BreakSession, Timeout, Executing, Faults
    <3> QED
      BY <1>0, <1>q, <2>1, <2>2, <3>1
  <2>4. CASE Die \/ Stop
    <3>1. /\ faults'["worker"] = faults["worker"] + 1 /\ faults'["silent"] = faults["silent"]
          /\ worker # "idle" /\ worker' \in {"idle", "stopping"}
          /\ job' = job \/ job' = "queued"
      BY <1>0, <2>4 DEF Die, Stop, Leave, Executing, Unguarded, Faults
    <3> QED
      BY <1>0, <1>q, <2>1, <2>2, <3>1
  <2>5. CASE EndSilently
    <3>1. faults'["silent"] > 0
      BY <1>0, <2>5 DEF EndSilently, Faults
    <3> QED
      BY <1>q, <3>1
  <2> QED
    BY <1>11, <2>3, <2>4, <2>5 DEF Broken
<1>8. CASE RedisRestart
  <2>1. phase'[Submitter] = IF Subscribed(Submitter) THEN "broken" ELSE phase[Submitter]
    BY <1>0, <1>8 DEF RedisRestart
  <2> QED
    BY <1>0, <2>1
<1>9. CASE UNCHANGED vars
  BY <1>0, <1>4, <1>9 DEF vars
<1> QED
  BY <1>1, <1>3, <1>5, <1>6, <1>7, <1>8, <1>9, <1>10, <1>11
     DEF Next, SubmitStep, WorkerStep, Publishing, Silent, Broken, Clients
-----------------------------------------------------------------------------
(* The run.                                                                *)

\* The steps that end an attempt's work or commit it, seen from the database.
Bookless == UNCHANGED <<worker, flushed, charged, row>>

\* Only two steps of an attempt write its outcome, and nothing else charges.
LEMMA Books ==
    ASSUME [Next]_vars
    PROVE  \/ Bookless /\ job' = job /\ faults' = faults
           \/ CreateReport
           \/ Bookless /\ faults' = faults /\ job = "none" /\ job' = "queued"
           \/ NeverEnqueued
           \/ Publishing
           \/ Silent \/ Broken
           \/ RedisRestart
  BY DEF Next, SubmitStep, Subscribe, Enqueue, Listen, EnqueueOnly, ReadReport, ServeSnapshot,
         Reattach, Relay, Deadline, WorkerStep, Publishing, Silent, Broken, vars, report, attempt, clients, Bookless

\* Another attempt charges only over the death of one that had.
LEMMA ChargesNext == IInv /\ [Next]_vars => Charges'
<1> SUFFICES ASSUME TypeOK, Order, Charges, [Next]_vars PROVE Charges'
  BY DEF IInv
<1>0. /\ charged \in Nat /\ faults \in [Faults -> Nat] /\ faults["worker"] \in Nat
      /\ worker # "idle" => job \in {"inprogress", "done"}
      /\ job = "none" => worker = "idle"
  BY DEF TypeOK, Faults, Order
<1> USE DEF Charges, report, attempt, Fault, Outcomes
<1>1. CASE Bookless /\ faults' = faults /\ (job' = job \/ (job = "none" /\ job' = "queued"))
  BY <1>0, <1>1 DEF Bookless
<1>2. CASE CreateReport
  BY <1>0, <1>2 DEF CreateReport
<1>3. CASE NeverEnqueued
  <2>1. faults'["worker"] = faults["worker"]
    BY <1>0, <1>3 DEF NeverEnqueued, Faults
  <2> QED
    BY <1>0, <1>3, <2>1 DEF NeverEnqueued
<1>4. CASE Progress \/ EndStream \/ \E o \in Outcomes : Outcome(o)
  BY <1>0, <1>4 DEF Progress, EndStream, Outcome
<1>5. CASE Stop \/ Die
  <2>1. faults'["worker"] = faults["worker"] + 1
    BY <1>0, <1>5 DEF Stop, Die, Faults
  <2> QED
    BY <1>0, <1>5, <2>1 DEF Stop, Die, Leave, Executing, Unguarded
<1>6. CASE BreakSession \/ Timeout \/ EndSilently
  <2>1. faults'["worker"] = faults["worker"]
    BY <1>0, <1>6 DEF BreakSession, Timeout, EndSilently, Faults
  <2> QED
    BY <1>0, <1>6, <2>1
       DEF BreakSession, Timeout, EndSilently, Leave, Acknowledged, Executing, Unguarded
<1>7. CASE StartAttempt \/ EnterPipeline \/ Acknowledge \/ Redeliver \/ GiveUp
  BY <1>0, <1>7
     DEF StartAttempt, Claimed, EnterPipeline, Acknowledge, Leave, Acknowledged, Redeliver, GiveUp
<1>8. CASE Commit
  BY <1>0, <1>8 DEF Commit, CommitSession, Stored, Accrued
<1>9. CASE RedisRestart
  <2>1. faults'["worker"] = faults["worker"] /\ flushed' = flushed
        /\ (job \in {"queued", "inprogress"} => job' = "done") /\ (job \notin {"queued", "inprogress"} => job' = job)
    BY <1>0, <1>9 DEF RedisRestart, Faults
  <2>2. CASE UNCHANGED <<report, worker>>
    BY <1>0, <2>1, <2>2
  <2>3. CASE worker \in Executing /\ worker' = "idle" /\ CommitSession
    BY <1>0, <2>1, <2>3 DEF Executing, CommitSession, Stored, Accrued
  <2>4. CASE worker \in {"ending", "stopping"} /\ worker' = "idle" /\ UNCHANGED report
    BY <1>0, <2>1, <2>4
  <2> QED
    BY <1>9, <2>2, <2>3, <2>4 DEF RedisRestart
<1> QED
  BY <1>1, <1>2, <1>3, <1>4, <1>5, <1>6, <1>7, <1>8, <1>9, Books DEF Publishing, Silent, Broken

\* As long as no attempt is killed or stopped and no session broken, an outcome that is
\* stored, or about to be, stays.
LEMMA SettledStays ==
    ASSUME TypeOK, Order, Charges, Once, Undisturbed', [Next]_vars
    PROVE  /\ Undisturbed
           /\ row' \in Outcomes =>
                 worker' \in {"ending", "ended"} \/ (worker' = "idle" /\ job' = "done")
           /\ worker' \notin {"stopping", "stopped"}
           /\ \A o \in Outcomes : (row = o => row' = o) /\ (SettledAs(o) => SettledAs(o)')
<1>0. /\ faults \in [Faults -> Nat] /\ \A f \in Faults : faults[f] \in Nat
      /\ worker # "idle" => job \in {"inprogress", "done"}
      /\ job = "none" => worker = "idle"
      /\ faults'["worker"] = 0 /\ faults'["timeout"] = 0 /\ faults'["database"] = 0
  BY DEF TypeOK, Faults, Order, Undisturbed
<1>1. Undisturbed /\ ~Stop /\ ~Die /\ ~Timeout /\ ~BreakSession
  <2>1. \/ faults' = faults
        \/ Fault("api", ApiCrashes) \/ Fault("redis", RedisRestarts) \/ Fault("silent", SilentEnds)
        \/ Stop \/ Die \/ Timeout \/ BreakSession
    BY Books DEF CreateReport, NeverEnqueued, Publishing, Progress, EndStream, Outcome, Silent,
                 StartAttempt, EnterPipeline, Commit, Acknowledge, Redeliver, GiveUp, Broken, EndSilently,
                 RedisRestart
  <2>2. ~Stop /\ ~Die /\ ~Timeout /\ ~BreakSession
    BY <1>0 DEF Stop, Die, Timeout, BreakSession, Fault, Faults
  <2> QED
    BY <1>0, <2>1, <2>2 DEF Fault, Faults, Undisturbed
<1>2. /\ row \in Outcomes => worker \in {"ending", "ended"} \/ (worker = "idle" /\ job = "done")
      /\ worker \notin {"stopping", "stopped"}
  BY <1>1 DEF Once
<1> USE DEF Outcomes, SettledAs, report, attempt
<1>3. CASE Bookless /\ (job' = job \/ (job = "none" /\ job' = "queued"))
  BY <1>0, <1>1, <1>2, <1>3 DEF Bookless
<1>4. CASE CreateReport \/ NeverEnqueued
  BY <1>0, <1>1, <1>2, <1>4 DEF CreateReport, NeverEnqueued
<1>5. CASE Progress \/ EndStream \/ \E o \in Outcomes : Outcome(o)
  BY <1>0, <1>1, <1>2, <1>5 DEF Progress, EndStream, Outcome
<1>6. CASE StartAttempt \/ EnterPipeline \/ Acknowledge \/ Redeliver \/ GiveUp
  BY <1>0, <1>1, <1>2, <1>6
     DEF StartAttempt, Claimed, EnterPipeline, Acknowledge, Leave, Acknowledged, Redeliver, GiveUp
<1>9. CASE EndSilently
  BY <1>0, <1>1, <1>2, <1>9 DEF EndSilently, Leave, Acknowledged, Unguarded
<1>7. CASE Commit
  BY <1>0, <1>1, <1>2, <1>7 DEF Commit, CommitSession, Stored, Charges
<1>8. CASE RedisRestart
  <2>1. /\ flushed' = flushed /\ (job \in {"queued", "inprogress"} => job' = "done")
        /\ (job \notin {"queued", "inprogress"} => job' = job)
    BY <1>8 DEF RedisRestart
  <2>2. CASE UNCHANGED <<report, worker>>
    BY <1>0, <1>1, <1>2, <2>1, <2>2
  <2>3. CASE worker \in Executing /\ worker' = "idle" /\ CommitSession
    BY <1>0, <1>1, <1>2, <2>1, <2>3 DEF Executing, CommitSession, Stored, Charges
  <2>4. CASE worker \in {"ending", "stopping"} /\ worker' = "idle" /\ UNCHANGED report
    BY <1>0, <1>1, <1>2, <2>1, <2>4
  <2> QED
    BY <1>8, <2>2, <2>3, <2>4 DEF RedisRestart
<1> QED
  BY <1>1, <1>3, <1>4, <1>5, <1>6, <1>7, <1>8, <1>9, Books DEF Publishing, Silent, Broken

\* What a client is told, or is about to be, is what is stored or about to be.
LEMMA OnceNext == IInv /\ TypeOK' /\ [Next]_vars => Once'
<1> SUFFICES ASSUME TypeOK, TypeOK', Order, Charges, Once, [Next]_vars, Undisturbed' PROVE Once'
  BY DEF IInv, Once
<1>1. /\ Undisturbed
      /\ row' \in Outcomes => worker' \in {"ending", "ended"} \/ (worker' = "idle" /\ job' = "done")
      /\ worker' \notin {"stopping", "stopped"}
      /\ \A o \in Outcomes : (row = o => row' = o) /\ (SettledAs(o) => SettledAs(o)')
  BY SettledStays
<1>2. \A o \in Outcomes, c \in Clients :
         /\ snapshot[c] = o => row = o
         /\ Has(received[c], Word(o)) => SettledAs(o)
         /\ Has(inbox[c], Word(o)) => SettledAs(o)
  BY <1>1 DEF Once
<1> SUFFICES ASSUME NEW o \in Outcomes, NEW c \in Clients
             PROVE  /\ snapshot'[c] = o => row' = o
                    /\ Has(received'[c], Word(o)) => SettledAs(o)'
                    /\ Has(inbox'[c], Word(o)) => SettledAs(o)'
  BY <1>1 DEF Once
<1> DEFINE Goal == /\ snapshot'[c] = o => row' = o
                   /\ Has(received'[c], Word(o)) => SettledAs(o)'
                   /\ Has(inbox'[c], Word(o)) => SettledAs(o)'
<1>3. /\ snapshot[c] = o => row' = o
      /\ Has(received[c], Word(o)) => SettledAs(o)'
      /\ Has(inbox[c], Word(o)) => SettledAs(o)'
  BY <1>1, <1>2
<1>t. /\ snapshot \in [Clients -> Statuses] /\ inbox \in [Clients -> Seq(Events)]
      /\ received \in [Clients -> Seq(Events)] /\ Readers \subseteq Clients /\ Submitter \in Clients
  BY DEF TypeOK, Clients
<1> USE DEF clients, channel, Move
<1>4. CASE UNCHANGED <<snapshot, received>> /\ (inbox'[c] = inbox[c] \/ inbox'[c] = <<>>)
  BY <1>3, <1>4, HasNothing
<1>5. ASSUME NEW d \in Readers, ReadReport(d) PROVE Goal
  <2>1. /\ UNCHANGED <<row, received, inbox>>
        /\ snapshot'[c] = snapshot[c] \/ snapshot'[c] = row
    BY <1>5, <1>t DEF ReadReport, report
  <2> QED
    BY <1>3, <2>1
<1>6. ASSUME NEW d \in Clients, ServeSnapshot(d) PROVE Goal
  <2>1. UNCHANGED <<snapshot, inbox>>
    BY <1>6 DEF ServeSnapshot
  <2>2. CASE d # c
    BY <1>3, <1>6, <1>t, <2>1, <2>2 DEF ServeSnapshot
  <2>3. CASE d = c
    <3> DEFINE w == IF snapshot[c] = "complete" THEN "complete" ELSE "error"
    <3>1. received'[c] = <<w>> /\ snapshot[c] \in Outcomes
      BY <1>6, <1>t, <2>3 DEF ServeSnapshot
    <3>2. Has(<<w>>, Word(o)) <=> Word(o) = w
      BY HasNothing
    <3>3. Word(o) = w => snapshot[c] = o
      BY <3>1 DEF Word, Outcomes
    <3>4. row' = o => SettledAs(o)'
      BY DEF SettledAs
    <3> HIDE DEF w
    <3> QED
      BY <1>3, <2>1, <3>1, <3>2, <3>3, <3>4
  <2> QED
    BY <2>2, <2>3
<1>7. ASSUME NEW d \in Clients, Relay(d) PROVE Goal
  <2>1. UNCHANGED snapshot
    BY <1>7 DEF Relay
  <2>2. CASE d # c
    BY <1>3, <1>7, <1>t, <2>1, <2>2 DEF Relay
  <2>3. CASE d = c
    <3>1. /\ inbox[c] \in Seq(Events) /\ received[c] \in Seq(Events) /\ inbox[c] # <<>>
          /\ inbox'[c] = Tail(inbox[c]) \/ inbox'[c] = <<>>
          /\ received'[c] = received[c] \/ received'[c] = Append(received[c], Head(inbox[c]))
      BY <1>7, <1>t, <2>3 DEF Relay
    <3>2. /\ Head(inbox[c]) \in Events
          /\ Has(inbox[c], Word(o)) <=> Word(o) = Head(inbox[c]) \/ Has(Tail(inbox[c]), Word(o))
      BY <3>1, HasHead
    <3>3. Has(Append(received[c], Head(inbox[c])), Word(o))
             <=> Has(received[c], Word(o)) \/ Word(o) = Head(inbox[c])
      BY <3>1, <3>2, HasAppend
    <3> QED
      <4>1. Has(received'[c], Word(o)) => SettledAs(o)'
        BY <1>3, <3>1, <3>2, <3>3
      <4>2. Has(inbox'[c], Word(o)) => SettledAs(o)'
        BY <1>3, <3>1, <3>2, HasNothing
      <4> QED
        BY <1>3, <2>1, <4>1, <4>2
  <2> QED
    BY <2>2, <2>3
<1>8. ASSUME NEW e \in Events, Publish(e), UNCHANGED <<snapshot, received>>,
             e = Word(o) => SettledAs(o)'
      PROVE  Goal
  <2>1. Has(inbox'[c], Word(o)) => Has(inbox[c], Word(o)) \/ Word(o) = e
    BY <1>8, Published
  <2> QED
    BY <1>3, <1>8, <2>1
<1>9. CASE Publishing
  <2>1. ASSUME Progress \/ EndStream PROVE Goal
    <3>1. (Publish("progress") \/ Publish("stream_end")) /\ UNCHANGED <<snapshot, received>>
      BY <2>1 DEF Progress, EndStream
    <3>2. Word(o) \notin {"progress", "stream_end"} /\ {"progress", "stream_end"} \subseteq Events
      BY DEF Word, Events
    <3> QED
      BY <1>8, <3>1, <3>2
  <2>2. ASSUME NEW p \in Outcomes, Outcome(p) PROVE Goal
    <3>1. Publish(Word(p)) /\ UNCHANGED <<snapshot, received>> /\ Word(p) \in Events
      BY <2>2 DEF Outcome, Word, Events, Terminal
    <3>2. Word(p) = Word(o) => SettledAs(o)'
      BY <2>2 DEF Outcome, Word, Outcomes, SettledAs
    <3> QED
      BY <1>8, <3>1, <3>2
  <2> QED
    BY <1>9, <2>1, <2>2 DEF Publishing
<1>10. CASE \/ CreateReport \/ SubmitStep \/ NeverEnqueued
            \/ \E d \in Clients : Reattach(d) \/ Deadline(d)
            \/ Silent \/ Broken \/ RedisRestart \/ UNCHANGED vars
  <2>1. UNCHANGED <<snapshot, received>> /\ (inbox'[c] = inbox[c] \/ inbox'[c] = <<>>)
    BY <1>10, <1>t
       DEF CreateReport, SubmitStep, Subscribe, Greeting, Enqueue, Listen, EnqueueOnly, NeverEnqueued,
           Reattach, Deadline, Silent, StartAttempt, EnterPipeline, Commit, Acknowledge, Redeliver, GiveUp,
           Broken, BreakSession, Die, Stop, Timeout, EndSilently, RedisRestart, vars
  <2> QED
    BY <1>4, <2>1
<1> QED
  BY <1>5, <1>6, <1>7, <1>9, <1>10 DEF Next, WorkerStep, Publishing, Silent, Broken
-----------------------------------------------------------------------------
(* The results.                                                            *)

\* The invariant holds of every behaviour.
LEMMA Invariance == Spec => []IInv
<1>1. IInv /\ [Next]_vars => IInv'
  <2> SUFFICES ASSUME IInv, [Next]_vars PROVE IInv'
    OBVIOUS
  <2>1. TypeOK'
    BY TypeNext DEF IInv
  <2> QED
    BY <2>1, OrderNext, MissesNothingNext, NoEndNext, AttendedNext, ChargesNext, OnceNext DEF IInv
<1> QED
  BY <1>1, InitInv, PTL DEF Spec

\* Subscribe-then-enqueue loses nothing: a submitting client that is still subscribed has
\* got, or has waiting, everything published, in order, over any number of attempts.
THEOREM NothingIsMissed == Spec => []SubmitterMissesNothing
<1>1. IInv => SubmitterMissesNothing
  BY DEF IInv
<1> QED
  BY <1>1, Invariance, PTL

\* A submitting client waits for a finished job only when a worker died or was stopped at
\* every delivery, or an attempt ended before its try or in its last publish.
THEOREM NobodyWaitsInVain == Spec => []SubmitterNeverDeaf
<1>1. IInv => SubmitterNeverDeaf
  <2> SUFFICES ASSUME IInv, Deaf(Submitter), ~(faults["silent"] > 0) PROVE KilledOut
    BY DEF SubmitterNeverDeaf
  <2>0. Submitter \in Clients /\ Subscribed(Submitter) /\ received[Submitter] \in Seq(Events)
    BY DEF Clients, Deaf, Subscribed, IInv, TypeOK
  <2>1. received[Submitter] = published
    BY <2>0, ConcatEmptySeq DEF IInv, SubmitterMissesNothing, Deaf
  <2>2. ~Has(published, "stream_end")
    BY <2>0, <2>1 DEF IInv, NoEnd
  <2>3. tries <= faults["worker"] /\ tries >= MaxTries
    BY <2>0, <2>2 DEF IInv, Attended, Deaf, TypeOK, Faults
  <2> QED
    BY <2>3, QueueConstants DEF KilledOut, IInv, TypeOK, Faults
<1> QED
  BY <1>1, Invariance, PTL

\* A run is charged when it completes and once, but for the re-runs of dead attempts.
THEOREM RunIsChargedOnce == Spec => []ChargedOnce
<1>1. IInv => ChargedOnce
  BY DEF IInv, Charges, ChargedOnce, TypeOK, Faults
<1> QED
  BY <1>1, Invariance, PTL

\* As long as no attempt is killed or stopped and no session broken, the event a client's
\* stream ended on and the report's committed status agree, whichever way it was served.
THEOREM ToldTruly == Spec => []QueueInv
<1>1. IInv => QueueInv
  <2> SUFFICES ASSUME IInv, NEW c \in Clients, received[c] # <<>>, Undisturbed,
                      NEW o \in Outcomes, received[c][Len(received[c])] = Word(o)
               PROVE  row = o \/ worker = "published"
    BY DEF IInv, QueueInv, ToldIsStored, Undisturbed, Word, Outcomes
  <2>1. Len(received[c]) \in 1 .. Len(received[c])
    BY EmptySeq DEF IInv, TypeOK
  <2>2. Has(received[c], Word(o))
    BY <2>1 DEF Has
  <2> QED
    BY <2>2 DEF IInv, Once, SettledAs
<1> QED
  BY <1>1, Invariance, PTL

\* No attempt can take a complete report back unless another one has died.
THEOREM CompleteStays == Spec => CompleteIsFinal
<1>1. IInv /\ [Next]_vars => (row = "complete" => row' = "complete" \/ faults["worker"] > 0)
  <2> SUFFICES ASSUME IInv, [Next]_vars, row = "complete", faults["worker"] = 0 PROVE row' = "complete"
    BY DEF IInv, TypeOK, Faults
  <2>1. charged > 0 /\ worker \notin Executing
    BY DEF IInv, Charges, Executing, TypeOK
  <2> QED
    BY <2>1, Books
       DEF Bookless, CreateReport, NeverEnqueued, Publishing, Progress, EndStream, Outcome, Silent,
           StartAttempt, EnterPipeline, Commit, Executing, Acknowledge, Redeliver, GiveUp, Broken,
           BreakSession, Die, Stop, Timeout, EndSilently, RedisRestart, report
<1>2. IInv /\ [Next]_vars => [row = "complete" => row' = "complete" \/ faults["worker"] > 0]_row
  BY <1>1
<1> QED
  BY <1>2, Invariance, PTL DEF Spec, CompleteIsFinal
=============================================================================
