---------------------------- MODULE QueuedRuns ----------------------------
(***************************************************************************)
(* One research run in queued mode: the API creates the report row and     *)
(* enqueues a job (routes_research.py), an Arq worker runs the pipeline    *)
(* and publishes its events on the report's Redis channel                  *)
(* (research_job.py), and API relays forward them to clients (stream.py).  *)
(* Publish/subscribe has no replay: an event reaches the relays subscribed *)
(* when it is published.                                                   *)
(*                                                                         *)
(* Submitter is the client of POST /api/research/stream (or of the 202     *)
(* handshake, which leaves it to reattach); Readers are clients of         *)
(* GET /api/jobs/{id}/stream.  The pipeline is abstracted to one progress  *)
(* event and an outcome (module ResearchRun has its steps).  Arq is        *)
(* modelled from how the worker uses it: a job is redelivered until it is  *)
(* acknowledged, MaxTries times, and a timed-out job is over.              *)
(***************************************************************************)
EXTENDS Naturals, Sequences

CONSTANTS Submitter, Readers,
          MaxTries,       \* Arq's max_tries
          WorkerCrashes,  \* bound: workers killed or stopped mid-job
          RedisRestarts,  \* bound: restarts of Redis, which persists nothing
          ApiCrashes,     \* bound: API failures between commit and enqueue
          JobTimeouts,    \* bound: attempts the worker's job_timeout stops
          DatabaseErrors, \* bound: sessions broken in the pipeline, or by its commit
          SilentEnds      \* bound: attempts that end outside the try

Clients == Readers \cup {Submitter}

ASSUME QueueConstants ==
    /\ Submitter \notin Readers
    /\ MaxTries \in Nat /\ WorkerCrashes \in Nat
    /\ RedisRestarts \in Nat /\ ApiCrashes \in Nat /\ JobTimeouts \in Nat
    /\ DatabaseErrors \in Nat /\ SilentEnds \in Nat

VARIABLES row,        \* committed status of the report
          job,        \* the Arq job
          tries,
          worker,     \* the attempt in progress
          flushed,    \* the outcome its session has flushed
          charged,    \* how often accrue_usage has been committed for this run
          phase,      \* what each client, or its relay, is doing
          snapshot,   \* the status the reattach endpoint read
          inbox,      \* messages waiting at each subscribed relay
          received,   \* events each client has got
          published,  \* everything ever published on the channel
          faults      \* how often each kind of fault has happened

vars == <<row, job, tries, worker, flushed, charged, phase, snapshot, inbox, received, published, faults>>

Statuses == {"none", "running", "complete", "failed"}
Outcomes == {"complete", "failed"}
Terminal == {"complete", "error"}
Events   == Terminal \cup {"progress", "stream_end"}
Phases   == {"new", "created", "read", "subscribed", "relaying", "done", "broken"}
Workers   == {"idle", "starting", "running", "halfway", "published",
              "ending", "ended", "stopping", "stopped"}
Executing == {"running", "halfway", "published"}    \* in the try
Unguarded == {"starting", "ending", "stopping"}     \* before it, or in its finally
Faults    == {"worker", "redis", "api", "timeout", "database", "silent"}

TypeOK == /\ row \in Statuses
          /\ job \in {"none", "queued", "inprogress", "done"}
          /\ tries \in 0 .. MaxTries
          /\ worker \in Workers
          /\ flushed \in Outcomes \cup {"none"}
          /\ charged \in Nat
          /\ phase \in [Clients -> Phases]
          /\ snapshot \in [Clients -> Statuses]
          /\ inbox \in [Clients -> Seq(Events)]
          /\ received \in [Clients -> Seq(Events)]
          /\ published \in Seq(Events)
          /\ faults \in [Faults -> Nat]

Init == /\ row = "none"
        /\ job = "none"
        /\ tries = 0
        /\ worker = "idle"
        /\ flushed = "none"
        /\ charged = 0
        /\ phase = [c \in Clients |-> "new"]
        /\ snapshot = [c \in Clients |-> "none"]
        /\ inbox = [c \in Clients |-> <<>>]
        /\ received = [c \in Clients |-> <<>>]
        /\ published = <<>>
        /\ faults = [f \in Faults |-> 0]

report  == <<row, charged>>
clients == <<phase, snapshot, inbox, received>>
channel == <<inbox, published>>
attempt == <<tries, worker, flushed>>

Move(c, from, to) == phase[c] = from /\ phase' = [phase EXCEPT ![c] = to]
Subscribed(c)     == phase[c] \in {"subscribed", "relaying"}
Fault(kind, bound) == faults[kind] < bound /\ faults' = [faults EXCEPT ![kind] = @ + 1]

\* Plausible bugs, each a variant of the operator that follows it.
Publish_NoEnd(e) ==
    /\ published' = Append(published, e)
    /\ inbox' = [c \in Clients |-> IF Subscribed(c) /\ e # "stream_end"
                                   THEN Append(inbox[c], e) ELSE inbox[c]]
SubmitterReady_Early  == phase[Submitter] \in {"created", "subscribed"}
Stored_Rollback       == IF flushed = "complete" THEN flushed ELSE row
Accrued_Failed        == charged + 1        \* also by a run that failed
Stored_Never          == row                \* no commit after the loop
Greeting_Kept         == <<"subscribe">>
Acknowledged_Retry    == "queued"

\* redis.publish: every relay subscribed now gets the event.
Publish(e) ==
    /\ published' = Append(published, e)
    /\ inbox' = [c \in Clients |-> IF Subscribed(c) THEN Append(inbox[c], e) ELSE inbox[c]]

\* What a relay finds on subscribing: the confirmation Redis sends is ignored.
Greeting == <<>>

\* job_event_stream subscribes before it enqueues.
SubmitterReady == phase[Submitter] = "subscribed"

\* The worker commits what the pipeline flushed, a failure included.
Stored == IF flushed = "none" THEN row ELSE flushed

\* complete_report and accrue_usage are flushed together.
Accrued == IF flushed = "complete" THEN charged + 1 ELSE charged

CommitSession == row' = Stored /\ charged' = Accrued

\* A job is claimed when delivered, and over when the function returns: errors
\* are not re-raised to Arq.
TriesLeft    == tries < MaxTries
Claimed      == "inprogress"
Acknowledged == "done"

\* What becomes of the job when its attempt is over, unless Redis has lost it.
Leave(as) == job' = IF job = "inprogress" THEN as ELSE job
-----------------------------------------------------------------------------
(* The API.                                                                *)

\* Quota drawn, report row committed; the response is on its way.
CreateReport ==
    /\ Move(Submitter, "new", "created")
    /\ row = "none"
    /\ row' = "running"
    /\ UNCHANGED <<charged, job, attempt, snapshot, inbox, received, published, faults>>

\* The relay subscribes first ...
Subscribe ==
    /\ Move(Submitter, "created", "subscribed")
    /\ inbox' = [inbox EXCEPT ![Submitter] = Greeting]
    /\ UNCHANGED <<report, job, attempt, snapshot, received, published, faults>>

\* ... and enqueues then ...
Enqueue ==
    /\ job = "none" /\ SubmitterReady
    /\ job' = "queued"
    /\ UNCHANGED <<report, attempt, clients, published, faults>>

\* ... and polls for messages.
Listen ==
    /\ job # "none"
    /\ Move(Submitter, "subscribed", "relaying")
    /\ UNCHANGED <<report, job, attempt, snapshot, inbox, received, published, faults>>

\* The 202 handshake enqueues without a relay.
EnqueueOnly ==
    /\ job = "none"
    /\ Move(Submitter, "created", "done")
    /\ job' = "queued"
    /\ UNCHANGED <<report, attempt, snapshot, inbox, received, published, faults>>

\* The API dies, the client is gone or Redis is away before the enqueue.
NeverEnqueued ==
    /\ job = "none" /\ Fault("api", ApiCrashes)
    /\ \E from \in {"created", "subscribed"} : Move(Submitter, from, "broken")
    /\ UNCHANGED <<report, job, attempt, snapshot, inbox, received, published>>

\* The reattach endpoint reads the report ...
ReadReport(c) ==
    /\ Move(c, "new", "read")
    /\ row # "none"
    /\ snapshot' = [snapshot EXCEPT ![c] = row]
    /\ UNCHANGED <<report, job, attempt, inbox, received, published, faults>>

\* ... and its generator serves what was read ...
ServeSnapshot(c) ==
    /\ Move(c, "read", "done")
    /\ snapshot[c] \in Outcomes
    /\ received' = [received EXCEPT ![c] =
                       <<IF snapshot[c] = "complete" THEN "complete" ELSE "error">>]
    /\ UNCHANGED <<report, job, attempt, snapshot, inbox, published, faults>>

\* ... or subscribes, if the run was not finished when it was read.
Reattach(c) ==
    /\ Move(c, "read", "relaying")
    /\ snapshot[c] \notin Outcomes
    /\ inbox' = [inbox EXCEPT ![c] = Greeting]
    /\ UNCHANGED <<report, job, attempt, snapshot, received, published, faults>>

\* job_event_stream forwards one message, or returns at stream_end and unsubscribes.
Relay(c) ==
    /\ phase[c] = "relaying" /\ inbox[c] # <<>>
    /\ IF Head(inbox[c]) = "stream_end"
       THEN /\ phase' = [phase EXCEPT ![c] = "done"]
            /\ inbox' = [inbox EXCEPT ![c] = <<>>]
            /\ UNCHANGED received
       ELSE /\ received' = [received EXCEPT ![c] = Append(@, Head(inbox[c]))]
            /\ inbox' = [inbox EXCEPT ![c] = Tail(@)]
            /\ UNCHANGED phase
    /\ UNCHANGED <<report, job, attempt, snapshot, published, faults>>

\* The 900 s deadline ends a relay, or its client leaves.
Deadline(c) ==
    /\ Move(c, "relaying", "done")
    /\ inbox' = [inbox EXCEPT ![c] = <<>>]
    /\ UNCHANGED <<report, job, attempt, snapshot, received, published, faults>>
-----------------------------------------------------------------------------
(* The worker.                                                             *)

\* The job is delivered; its session is opened and its user read ...
StartAttempt ==
    /\ job = "queued" /\ worker = "idle" /\ TriesLeft
    /\ job' = Claimed
    /\ tries' = tries + 1
    /\ worker' = "starting"
    /\ flushed' = "none"
    /\ UNCHANGED <<report, clients, published, faults>>

\* ... before the try around the pipeline is entered.
EnterPipeline ==
    /\ worker = "starting" /\ worker' = "running"
    /\ UNCHANGED <<report, job, tries, flushed, clients, published, faults>>

Progress ==
    /\ worker = "running" /\ worker' = "halfway"
    /\ Publish("progress")
    /\ UNCHANGED <<report, job, tries, flushed, phase, snapshot, received, faults>>

\* The pipeline flushes its outcome and yields its last event, which is
\* published before the outcome is committed.
Outcome(o) ==
    /\ worker = "halfway" /\ worker' = "published"
    /\ flushed' = o
    /\ Publish(IF o = "complete" THEN "complete" ELSE "error")
    /\ UNCHANGED <<report, job, tries, phase, snapshot, received, faults>>

Commit ==
    /\ worker = "published" /\ worker' = "ending"
    /\ CommitSession
    /\ UNCHANGED <<job, tries, flushed, clients, published, faults>>

\* The session breaks: in the pipeline fail_report's flush raises as well, so no
\* event tells of it; and the commits of both branches raise.
BreakSession ==
    /\ worker \in Executing /\ Fault("database", DatabaseErrors)
    /\ worker' = "ending" /\ flushed' = "none"
    /\ UNCHANGED <<report, job, tries, clients, published>>

\* finally: publish(STREAM_END).
EndStream ==
    /\ \/ worker = "ending"   /\ worker' = "ended"
       \/ worker = "stopping" /\ worker' = "stopped"
    /\ Publish("stream_end")
    /\ UNCHANGED <<report, job, tries, flushed, phase, snapshot, received, faults>>

\* Arq is done with an attempt that ended, and queues a cancelled one again.
Acknowledge ==
    /\ worker \in {"ended", "stopped"} /\ worker' = "idle"
    /\ Leave(IF worker = "ended" THEN Acknowledged ELSE "queued")
    /\ UNCHANGED <<report, tries, flushed, clients, published, faults>>

\* A killed worker publishes nothing; what it flushed is rolled back.
Die ==
    /\ worker # "idle" /\ Fault("worker", WorkerCrashes)
    /\ worker' = "idle" /\ flushed' = "none"
    /\ UNCHANGED <<report, job, tries, clients, published>>

\* Its claim expires and the job is delivered again.
Redeliver ==
    /\ job = "inprogress" /\ worker = "idle"
    /\ job' = "queued"
    /\ UNCHANGED <<report, attempt, clients, published, faults>>

\* A stopped worker cancels its job, to be queued again: in the try the finally is
\* still run, outside it the attempt is over.
Stop ==
    /\ Fault("worker", WorkerCrashes)
    /\ flushed' = "none"
    /\ \/ worker \in Executing /\ worker' = "stopping" /\ UNCHANGED job
       \/ worker \in Unguarded /\ worker' = "idle" /\ Leave("queued")
    /\ UNCHANGED <<report, tries, clients, published>>

\* job_timeout in the try: a cancellation, which `except Exception` does not see,
\* and Arq counts the job as failed.
Timeout ==
    /\ worker \in Executing /\ Fault("timeout", JobTimeouts)
    /\ worker' = "ending" /\ flushed' = "none"
    /\ UNCHANGED <<report, job, tries, clients, published>>

\* Outside the try nothing is published: the database fails before it, or
\* job_timeout strikes before it or in the finally's own publish.
EndSilently ==
    /\ worker \in Unguarded /\ Fault("silent", SilentEnds)
    /\ worker' = "idle" /\ flushed' = "none"
    /\ Leave(IF worker = "stopping" THEN "queued" ELSE Acknowledged)
    /\ UNCHANGED <<report, tries, clients, published>>

\* Arq drops a job that is delivered once too often.
GiveUp ==
    /\ job = "queued" /\ worker = "idle" /\ ~TriesLeft
    /\ job' = "done"
    /\ UNCHANGED <<report, attempt, clients, published, faults>>

\* Redis restarts empty: jobs, messages and subscriptions are gone.  An attempt
\* that meets it in a publish stops, committing what was flushed.
RedisRestart ==
    /\ Fault("redis", RedisRestarts)
    /\ job' = IF job \in {"queued", "inprogress"} THEN "done" ELSE job
    /\ inbox' = [c \in Clients |-> <<>>]
    /\ phase' = [c \in Clients |-> IF Subscribed(c) THEN "broken" ELSE phase[c]]
    /\ \/ UNCHANGED <<report, worker>>
       \/ /\ worker \in Executing
          /\ worker' = "idle"
          /\ CommitSession
       \/ worker \in {"ending", "stopping"} /\ worker' = "idle" /\ UNCHANGED report
    /\ UNCHANGED <<tries, flushed, snapshot, received, published>>

SubmitStep == Subscribe \/ Enqueue \/ Listen \/ EnqueueOnly
WorkerStep == \/ StartAttempt \/ EnterPipeline \/ Progress \/ Commit \/ EndStream
              \/ Acknowledge \/ Redeliver \/ GiveUp
              \/ \E o \in Outcomes : Outcome(o)

Next == \/ CreateReport \/ SubmitStep \/ NeverEnqueued
        \/ \E c \in Readers : ReadReport(c)
        \/ \E c \in Clients : ServeSnapshot(c) \/ Reattach(c) \/ Relay(c) \/ Deadline(c)
        \/ WorkerStep \/ BreakSession \/ Die \/ Stop \/ Timeout \/ EndSilently
        \/ RedisRestart

Spec == Init /\ [][Next]_vars

\* A running API finishes its handlers, and a worker is always there to take
\* the job (Arq polls; killed containers are restarted).
FairSpec == /\ Spec
            /\ WF_vars(SubmitStep) /\ WF_vars(WorkerStep)
            /\ \A c \in Clients : WF_vars(Relay(c))
-----------------------------------------------------------------------------
(* Properties.                                                             *)

\* What may have kept a run from its outcome: its job was lost with Redis, ended by
\* job_timeout or by a broken session, or killed or stopped at every attempt.
KilledOut == faults["worker"] >= MaxTries
JobLost   == \/ \E f \in {"redis", "timeout", "database", "silent"} : faults[f] > 0
             \/ KilledOut

\* Subscribe-then-enqueue: a submitting client misses nothing, whatever
\* attempts the job takes and however they end.
SubmitterMissesNothing ==
    Subscribed(Submitter) => received[Submitter] \o inbox[Submitter] = published

\* A relay never waits for events that cannot come: while one is attached with
\* nothing to forward, the job is not over.
Deaf(c) == /\ phase[c] = "relaying" /\ inbox[c] = <<>>
           /\ job = "done" /\ worker = "idle"

\* Every attempt that enters its try publishes stream_end however it ends there, by a
\* broken session, a failing commit, job_timeout or a stop: the submitting client is left
\* waiting only by a worker's death or stop at every delivery, or by an attempt that ended
\* before its try or was cancelled in that very publish.
SubmitterNeverDeaf == Deaf(Submitter) => KilledOut \/ faults["silent"] > 0

\* "The terminal event is never lost even though pub/sub has no replay": no
\* reattached client is left on the channel of a finished run.
ReaderNeverDeaf == \A c \in Readers : ~Deaf(c)

\* "The final complete_report wins": a complete report stays complete, whatever
\* the queue does; only the re-run after a worker's death can take it back.
CompleteIsFinal == [][row = "complete" => row' = "complete" \/ faults["worker"] > 0]_row

\* A client told of an outcome finds it in the report once the run has committed:
\* the event a stream ends on and the committed status agree, unless the attempt was
\* killed or stopped between its last event and its commit, or the commit failed.
ToldIsStored ==
    \A c \in Clients : phase[c] = "done" /\ received[c] # <<>> =>
        LET last == received[c][Len(received[c])]
            undisturbed == \A f \in {"worker", "timeout", "database"} : faults[f] = 0
        IN  /\ last = "complete" /\ undisturbed => row = "complete" \/ worker = "published"
            /\ last = "error" /\ undisturbed    => row = "failed" \/ worker = "published"

\* A run's tokens are accrued exactly when it completes, and once: what a failed run spent
\* is nobody's usage, and only the death of an attempt that had committed lets the re-run,
\* which the docstring accepts for traces, charge the user again.
ChargedOnce == /\ charged <= 1 + faults["worker"]
               /\ row = "complete" => charged > 0
               /\ row = "failed" /\ faults["worker"] = 0 => charged = 0

\* The queue, its clients and the report are typed, and what a client is told is stored.
QueueInv == TypeOK /\ ToldIsStored

\* Every enqueued run reaches an outcome, also over the death or stop of its worker,
\* unless its job is lost or an attempt ends with nothing stored.
RunSettles == (job = "queued") ~> (row \in Outcomes \/ JobLost)
=============================================================================
