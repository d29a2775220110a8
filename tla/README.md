# FinSightAI in TLA+

Specifications of the parts of FinSightAI whose correctness depends on what happens
*between* two steps: requests that race on a row, a client that leaves, a worker that
dies, an event that arrives late. Every definition is translated from the code under
`src/`; `PROJECT.json` maps each one to its lines, and lists the runs, the hazards of the
code, the variants ("mutants") that show each property can fail, and the theorems.

    cd tla
    tlc -workers 2 -config MCQuota.cfg MCQuota.tla     # any run: cfg and module below
    tlapm QuotaProofs.tla                              # proofs: any module named *Proofs

Contents: 1 inventory, 2 modules, 3 runs and bounds, 4 fairness, 5 proofs, 6 where code
and documentation differ, 7 what is not modelled, 8 plan.

## 1. Inventory of the system

A FastAPI process serves a Next.js console. A research run asks four specialist agents, a
synthesizer and a critic about one ticker and stores a report in Postgres. Runs execute in
the API process ("inline") or, when Redis is configured, in an Arq worker ("queued").

| Component | State it keeps | Operations | What is hard, and what makes it correct |
|---|---|---|---|
| Plan limits and metering, `billing/limits.py` | `usage_counters` rows, one per user and month; `users.plan` | reserve a run, accrue usage | concurrent reservations, the insert race of a month's first requests, plan changes and month ends under open requests: no lost or double reservation, no overdraft, no spurious refusal |
| Admission, `api/limits.py` (`RunGate`) and `api/routes_research.py` | the gate's counter, in memory | acquire, release, the endpoints' refusals and exits | every exit gives the slot back once; a refused caller pays nothing; outcomes are committed |
| Rate limiter, `api/limits.py` (`SlidingWindowLimiter`) | a deque of times per caller | check, prune | an exact budget in every window; an honest Retry-After |
| Pipeline, `pipeline/research.py`, `pipeline/tracing.py` | the run's variables, agent tasks, flushed traces, the report row | ground, fan out, score, synthesize, critique and revise, persist, fail | cancellation of siblings, three exits of the revision loop, the circuit breaker, a consumer that closes the generator at any yield |
| Queued runs, `jobs/*`, `worker.py`, job endpoints | Arq's job, Redis channels, report row | create, subscribe, enqueue, relay, reattach, attempt, retry | publish/subscribe has no replay; workers die and jobs are repeated; Redis forgets; the API crashes between commits |
| Stripe mirror, `billing/stripe_client.py`, `billing/reconcile.py`, `api/routes_billing.py` | `subscriptions` row, `users.plan` | checkout and portal pages, webhooks, reconciler | events lost, repeated, reordered; two copies of the plan; racing page loads |
| Filing ingestion, `rag/ingest.py`, `rag/edgar.py`, `rag/retrieval.py` | `filings`, `filing_chunks` | find, look up, embed, insert, search | two runs ingesting one filing; agents read through sessions of their own |
| Chunker `rag/chunking.py`; embeddings client | none | sections, token windows, batches | the dropped tail of a section must lie in the overlap; the order of the batches |
| Concierge, `pipeline/concierge_turn.py`, `api/routes_concierge.py`, `concierge/*` | conversations, messages, audit log | turn, tools, start a run | turns of one conversation at once; a turn needs two or three pooled connections; tenancy through a ContextVar; advice must be refused whatever the model says |
| Authentication, `core/auth.py` | key-set cache, `users` rows | verify a token, provision a user | overlapping fetches of the key set, racing first requests, a mode change over a restart |
| Report store, `db/*` | all tables | create, complete, fail, read | the report's life cycle across all writers |
| Canary and promotion, `deploy/*` | none | hash split, verdict on metrics | sticky slices; no promotion on a small sample |
| Market figures, `tools/market.py`; scoring, `schemas/agents.py` | none | returns, averages, RSI, drawdown; weighted score and verdict band | short, flat or falling histories; rounding at a band's edge |
| Console, `frontend/web/src/lib/useResearchStream.ts` | reducer state of one run | request, reduce events, reset | a former response that is still open; a connection that breaks at any event |
| Chat view, `frontend/web/src/app/chat` | messages shown | sends, conversation switches | late answers of an earlier click |
| Middleware, account routes, configuration, agents, migrations, evaluation, infrastructure | none that properties tell apart | | - |

How they interact: an endpoint asks the rate limiter, then the gate, then draws on the
quota, and only then starts a run; the run writes the report row, its traces and, on
completion, accrues usage in the same commit. Billing changes the plan the next
reservation reads. Inline and queued mode drive the same pipeline generator; the queued
one replaces "yield to the client" by "publish to a channel the API relays".

## 2. Modules

| Module | Models | State and actions against the code |
|---|---|---|
| `QuotaLedger` | the promise of metering: atomic grants and refusals | `count` of each counter, `ask` and `outcome` of each request; `Ask`, `Grant`, `Refuse`, `Drop` |
| `Quota` | `billing/limits.py` on Postgres, READ COMMITTED | one action per database round trip: `LoadUser` (plan read), `PickPeriod`, `LockRow` (SELECT ... FOR UPDATE), `NoRow`, `InsertRow` / `LoseInsertRace` (unique index), `Deny`, `Reserve` (increment and commit), `Accrue`, `CommitUsage`; `Abort` and `RunFails` for rollbacks. `lock` is the row lock or the uncommitted insert, `seen` the value the ORM loaded and writes back |
| `MCQuota` | constants for TLC | |
| `InlineRuns` | `RunGate`, `/research`, `/research/stream`, background runs of the assistant | the endpoint up to the run (`Admit`, `TurnAway`, `FindCounter`, `Draw`, `OverQuota`, `Break`, `Start`, `Return`, `Iterate`, `Vanish`) and the run's end (`Complete`, `Fail`, `Settle`, `Leave`, `Close`); `Crash` restarts the process. `dirty` is what a session has flushed but not committed. The counter is one step here; `Quota` has its locking |
| `MCInlineRuns` | constants for TLC | |
| `ReportLifecycle` | the promise about a report row: created, then published once or failed, blocked only after the last revision | |
| `ResearchRun` | the pipeline generator and `traced_run` | one action per yield or await of `run_research_pipeline_stream`, `TaskEnds` for agent tasks, `Close` for the consumer. `stored` and `view` separate what the session holds from what others see |
| `QueuedRuns` | job, stream, worker and the queued endpoints, for one report | the submitting client (`CreateReport`, `Subscribe`, `Enqueue`, `Listen` or `EnqueueOnly`), reattaching clients (`ReadReport`, `ServeSnapshot`, `Reattach`), relays (`Relay`, `Deadline`), attempts (`StartAttempt` ... `Acknowledge`; `EnterPipeline` is the line between what stands before the `try` of `run_research_job` and what stands in it), faults (`Die`, `Redeliver`, `Stop`, `Timeout`, `GiveUp`, `RedisRestart`, `NeverEnqueued`; `BreakSession`, after which `fail_report` and both commits raise; `EndSilently`, an end outside the `try`); `charged` counts the accruals committed for the run |
| `StripeMirror` | billing handlers and the reconciler, for one user | a handler is `Deliver`/`Redeliver`/`Open`/`Reconcile`, its reads (`LoadFirst`, `LoadSecond`, `Fetch`), and `Write`: an UPDATE of the columns that differ from what was read, as SQLAlchemy does. Stripe's own changes are external, modelled from the events the code handles; `Erase` is a subscription Stripe no longer knows. `overtaken` and `raced` are history: whose reads are older than another's commit of a plan, and whether the last commit of a plan was of that kind |
| `Grounding` | ingestion and phase 0 of the pipeline | `FindLatest`, `LookUp`, `Embed`, `Flush` / `FlushFails`, then `Research` or `CommitFails`; `Ingested(f, others)` says some other run has ingested f; `broken` are sessions a failed flush has left unusable |
| `RateLimiter` | `SlidingWindowLimiter` | `Allow`, `Refuse`, `Prune`, `Tick`; `granted` and `promised` are history |
| `Console` | the console in front of one inline run; EXTENDS `ResearchRun` | every step of the pipeline together with the reducer's case for the event it yields (`Shown`); `Ask`, `Refused`, `CutOff`, `BodyEnds`, `NewResearch` are `start` and `reset`; `FormerEnds` is the previous request's response, still open after its last event. A broken response freezes the desk while the server goes on |
| `Concierge`, `MCConcierge` | chat turns: ownership check, intent by rule or model, refusal with its audit row, transcript, tools, the runs a turn starts | one action per await; `pc` is the turn's place, a turn holds its request's connection, its own, and one per tool call of a pool of five or three. `context` is `current_user_id_var` in each response's task, set by `Think` and reset however the agent ends; tools know their user from it alone (`ToolUser`). `trigger_research` is `CallTrigger`, `Draw` or `OverQuota` (the reservation, committed by itself), `CreateReport` (the second commit), `Launch`, and `ToolFails` or the end of the turn in between; `lost` counts what was drawn for nothing. `Crash` and disconnects at any await |
| `Auth`, `MCAuth` | `get_current_user`: key-set cache and provisioning, in both auth modes | `AskIssuer`, `IssuerAnswers`, `FetchFails`, `ReceiveKeys` are the awaits of `_refresh`; `LookUp`, `Provision`, `ProvisionFails` those of the user row. `Withdraw` rotates the issuer's keys, `Tick` is the clock, `Restart` may change the mode |
| `Chunking` | `split_sections`, `chunk_section`, `chunk_filing`, the batches of `embed_texts` | functions from a filing to its chunks |
| `MarketData` | the figures of `get_technicals` from a price history | functions from a history to figures: quotients of integers, rounded to the decimals the code keeps, either way at a tie |
| `Scoring` | `compute_overall_score`, `verdict_band` | functions in tenths of a point |
| `Canary` | `route_to_canary`, `apply_canary`, `evaluate_canary_promotion` | functions of the bucket, the settings (a candidate may be unset) and a sample: reports, and the traces of their syntheses and revisions, newest first, some older than the date |
| `MCFigures` | the four modules above for TLC: a state is one choice of inputs | |
| `Sums` | Python's `sum`, which `MarketData` and `Canary` add up with | partial sums |
| `QuotaProofs`, `QueuedRunsProofs`, `StripeMirrorProofs`, `AuthProofs`, `ConciergeProofs` | theorems about the module named | |
| `AdmissionProofs` | theorems about `InlineRuns` and `RateLimiter`, the two gates a request passes | |
| `ReportProofs` | theorems about `Grounding` and `MCFigures`: what a report rests on | |
| `RunProofs` | theorems about `ResearchRun` and `Console` | |

External and modelled from use: Postgres locking and visibility, SQLAlchemy's unit of work
and session states, Arq (in-progress key, redelivery, `max_tries`), Redis publish/subscribe,
Stripe's objects and deliveries, EDGAR.

The operators under "Plausible bugs" in each module are variants of the operator that
follows; nothing uses them. Each is what a slip in the code would do (`FOR UPDATE`
forgotten, an off-by-one, a release in the wrong `finally`), and each violates a property
of the module's run when it takes the original's place.

## 3. Runs

| Run | States | What it shows |
|---|---|---|
| `MCQuota` | 191 thousand | Three requests of one user on a one-run and a two-run plan, with aborts, plan changes and a month end. A counter is exactly the number of requests that drew from it (`CounterCountsReservations`); it never passes the allowance of every one of them (`NeverOverdrawn`); `scalar_one()` after the lost insert race cannot be empty (`RaceLoserFindsRow`); usage is recorded unless a month ended in between (`UsageRecorded`); everybody is answered; the protocol refines `QuotaLedger` |
| `MCInlineRuns` | 78 thousand | Two streams, a synchronous call and a background run of two users on a gate of two, with every fault. Slots are freed once and only the two kinds of request in `Leaking` lose one (`GateInv`); what the caller of a stream is told is committed; who is turned away has not paid |
| `MCInlineLeak` | counterexample | `BusyMeansRunning` fails, see 6 |
| `Console` | 346 thousand | Four specialists, two revisions, agent costs of 1 and 3 against a cap of 14, behind a page. Traces reproduce the path (`RunInv`), the cost is that of the traces and overspend is bounded by one round (`SpendBounded`), no specialist outlives the run except over the one window in 6 (`NoAgentOutlivesRun`), the run ends, and refines `ReportLifecycle`. The desk shows status, nodes, verdicts, drafts and cost of this run whatever the former response does (`DeskInv`), and is never left running (`DeskSettles`) |
| `QueuedRuns` | 1.07 million | One submitter, one reader, two tries, two worker deaths or stops, one job timeout, one broken session, one end outside the `try`, one Redis restart, one API crash. The submitter's relay misses no event; it waits in vain only when retries are exhausted by deaths and stops, or an attempt ended outside its `try`; terminal events agree with the row (`QueueInv`) unless the attempt was disturbed between the two; complete reports stay complete, and usage is accrued once (`ChargedOnce`), while no worker dies; a queued run settles unless its job is lost or an attempt stored nothing |
| `QueuedRunsReattach` | counterexample | `ReaderNeverDeaf` fails, see 6 |
| `StripeMirror` | 548 thousand | Two handlers, lossy delivery, one repeated delivery or dead handler, one payment change, two racing page loads, a stranger's event, a subscription Stripe forgets. A user is billed as one customer, and the copies of the plan differ only after a handler committed a plan that had read the rows before another's commit; the next one that had not mends them (`MirrorConsistent`). If the reconciler is run again and again, plan and status of the row end up as they are at Stripe (`DriftCorrected`) |
| `Grounding` | 27 thousand | Three runs, two filings. A run told that its filing is there searches a database that has it; only a race on the same filing kills a run (`GroundingInv`) |
| `RateLimiter` | 565 thousand | Two callers, a budget of two in three ticks of half a second, seven ticks. No window exceeds the budget and no refusal comes early (`BudgetExact`), Retry-After suffices |
| `MCConcierge` | 238 thousand | Concurrent turns of two users, two of them in one conversation, on a pool of three or five connections, with a disconnect or failure at every await and one crash. The turn of a message that matches an advice rule runs nothing and is refused and audited, and later agents are shown the message only with its refusal (`AdviceIsRefused`); a turn's question and answer are stored together (`TurnsInv`); tools read, charge and start runs only for the turn's own user (`TenantsApart`); a counter is the reports, the calls in flight and the calls lost between the two commits, within the quota of a payer (`ChatRunsMetered`); turns end, by starvation of the pool if need be (`TurnsEnd`) |
| `MCAuth` | 498 thousand | Three requests, a signing key and a forged one, three identities two of which share an address, a TTL of one tick, fetches of up to a tick, restarts in either mode. A served request acts as the only row of its identity (`AccountInv`); a withdrawn key is refused after the TTL and one fetch (`RevokedKeyExpires`) |
| `MCFigures` | 79 thousand | Every input within the bounds. No token of a filing is lost but by the cap on chunks (`FilingCovered`); figures agree with each other and with the closes, within their rounding, and say when they cannot be had (`FiguresHonest`); the score lies between its pillars and picks one run of adjacent verdicts (`ScoresSound`); slices grow with the percentage, plans off the stable routing are untouched, a promotion rests on enough rows of written, recent reports of the candidate, at most three of them of one report, and is not made on scores that are all worse (`CanarySound`) |

Bounds. Three requests meet every pair of positions in the reservation protocol with a
third holding or waiting for the row, and both plans' limits lie below three. Two months
give one month end; the counters of different users never interact, so one user suffices.
A gate of two and four requests reach "full", "leaked" and "full because leaked". In
`Console`, four pillars are the program's own number; the costs are chosen so that the
cap trips after zero, one or two revisions. In `QueuedRuns` two deaths use up both tries.
`Redeliveries`, `Renewals`, `Opens`, `WorkerCrashes`, `JobTimeouts`, `DatabaseErrors`,
`SilentEnds`, `RedisRestarts`, `ApiCrashes`, `CrashBound`, `LastPeriod`, `LastFiling`,
`LastTick`, and in `MCConcierge` `Crashes`, bound counters only; `RunLimit` and `HistoryTurns`
are settings (1 run for 100, so that a second is over quota; 3 messages for 10, so that a
transcript is cut).
`Overlapping` in `StripeMirror` says which types of handlers may run at the same time, and
bounds the state space only (the proofs assume nothing of it): in the run, pages with pages,
webhooks of all types with each other, subscription events with the reconciler, on one
subscription; two subscriptions or all groups at once do not fit five minutes. `RateLimiter` has
two ticks a second, so that the truncation in `int(...) + 1` matters. A pool of three
connections is one that three turns with tools exhaust, of five one they do not. In `MCAuth` the issuer's failures, a key fetched before and stored after its withdrawal,
and two first requests of one identity all fit three requests. `MCFigures` scales the windows
down (a chunk is a few tokens, a moving average a few sessions); `Chunking` assumes
`MinTail <= Overlap`, as the configured 50 and 100 of 800 tokens have it, without which a tail
would be lost. `Console` follows one run; what the next request may meet of it is `former`.
Deadlock is not checked: runs end, clients leave and
clocks stop, and a terminated system is not a fault. What must not block is stated as a
liveness property in each module that has one.

## 4. Fairness

Steps of the program are weakly fair: an admitted request or a started handler keeps
executing (one event loop, every external call has a timeout: agents
`agent_timeout_seconds` in `traced_run`, HTTP 60 s), and Postgres grants row locks in queue
order. `QueuedRuns` adds weak fairness of the worker, because Arq polls. `StripeMirror` has
weak fairness of a handler's steps and nothing else: no event need arrive, and nothing in the
repository calls the reconciler, so `DriftCorrected` has its being run again and again as a
premise. `Console` adds nothing to the fairness of the pipeline but that the server answers
a request it has got. `Concierge` has weak fairness of each turn's progress: the agent answers
or runs into its timeout, which bounds the calls of its tools too, so these need none, and the
pool's timeout (`Starve`; SQLAlchemy's 30 s) ends a wait of turns for each other.
Nothing is assumed about faults, clients, plan changes, the clock or
Stripe: none of them is fair.

## 5. Proofs

Every theorem holds for all values of the constants that satisfy the named assumptions of its
module, which TLC evaluates for those of the runs. Each inductive invariant was checked by TLC
on the run of its module before it was proved. All of `Spec`'s actions are covered: the faults
of a module are part of its `Next`, so the theorems are about runs with faults.

| Proof module | Theorems (property of a run) |
|---|---|
| `QuotaProofs` | `TypeCorrect` (`TypeOK`), `ReservationsCounted` (`CounterCountsReservations`), `QuotaHolds` (`NeverOverdrawn`), `LoserFindsRow` (`RaceLoserFindsRow`), `UsageIsRecorded` (`UsageRecorded`), `LedgerImplemented` (`ImplementsLedger`), `DenialsAreFinal` (`DenialIsFinal`, proved only) |
| `AdmissionProofs` | `SlotsAreAccountedFor` (`GateInv`), `RunsArePaid` (`PaidIffAdmitted`), `OutcomesAreStored` (`StreamOutcomeStored`), `CountIsExact` (`BusyMeansRunning`, without the two faults that leak), `WindowIsExact` (`BudgetExact`), `RetryAfterSuffices` (`RetryAfterIsEnough`) |
| `RunProofs` | `TracesTell` (`RunInv`), `SpendIsBounded` (`SpendBounded`), `NoAgentOutlives` (`NoAgentOutlivesRun`), `LifecycleImplemented` (`ImplementsLifecycle`), `DeskIsTrue` (`DeskInv`), `WatchedRunIsSound` (the first four, of `Console`) |
| `QueuedRunsProofs` | `NothingIsMissed` (`SubmitterMissesNothing`), `NobodyWaitsInVain` (`SubmitterNeverDeaf`), `RunIsChargedOnce` (`ChargedOnce`), `ToldTruly` (`QueueInv`), `CompleteStays` (`CompleteIsFinal`) |
| `AuthProofs` | `AccountsHold` (`AccountInv`), `RevocationHolds` (`RevokedKeyExpires`) |
| `ConciergeProofs` | `AdviceNeverServed` (`AdviceIsRefused`), `TenantsStayApart` (`TenantsApart`), `ChatRunsArePaid` (`ChatRunsMetered`), `TurnsAreStoredWhole` (`TurnsInv`) |
| `StripeMirrorProofs` | `MirrorStaysConsistent` (`MirrorConsistent`), `BilledAsOneCustomer` (its conjuncts `TypeOK` and `OneCustomer`), `AlwaysBilled` (the invariant behind both, proved only); none assumes anything about which handlers overlap |
| `ReportProofs` | `GroundingHolds` (`GroundingInv`), `FilingsAreCovered` (`FilingCovered`), `FiguresAreHonest` (`FiguresHonest`), `ScoresFollowThePillars` (`ScoresSound`), `CanaryIsSound` (`CanarySound`) |

Assumptions worth a word: `CostsBounded` (`ResearchRun`) says that the costs of a call and of
grounding have a largest element, as token limits give them; nothing else is said of the
costs. `AgentNames` (`Console`) says that the six agents have six names. `LedgerConstants`
(`Quota`) says that the ledger's "has not asked" is no ask. The rest type the constants and
make `Requests` and `Pillars` finite, without which there is nothing to count.

### Metering

The counting property is not inductive: from an arbitrary state in which counts agree, a
request in `check` may hold a stale `seen` and write it back. The strengthening `RowInv`
adds what the row lock is for: a request in `check` holds the lock of its counter and its
`seen` is the counter's value (`Fresh`), and a counter without a row is unused
(`AbsentIsUnused`). `RowInv` is inductive by itself (`RowInit`, `RowNext`);
`IInv` adds the properties to it (`CounterInit`, `CounterNext`). With `RowInv`, a step either leaves every counter and its draws alone or is
`Reserve`, which adds one request to `Drawn(key)` and one to the counter (via the
cardinality of a set with one more element). `QuotaHolds` then needs only `Full`: the last
request to draw found the counter below its own allowance. Rows never disappear, which
gives `LoserFindsRow`, and counters never shrink, which gives `DenialsAreFinal`. `LedgerImplemented`
maps a request to its ask (fixed once its month is) and its outcome: `Reserve` is the ledger's
`Grant` because of `Fresh` (the value written back is the counter's own plus one), `Deny` its
`Refuse` because the value compared is the committed one, aborts its `Drop`, the rest stutters.

### Admission

`AdmissionProofs`, first part: the gate is not inductive by its count alone, because a slot may be
counted for a request that has gone. `Slots` bounds the counter by the requests at work and those
plus the leaked ones; `Places` says which requests can be where (only streams answer before they
run); `Drawers` and `Results` follow a draw and a flushed outcome from place to place. A step moves
one request, and the lemmas on `AtWork` and `Leaking` give the change of both cardinalities; a
restart empties the gate and ends what was at work. `CountIsExact` assumes `~EarlyDisconnects` and `NewThisMonth = {}`: nobody
leaves a stream before its response is iterated, and nobody loses the insert race. Those are the
two faults of section 6; the theorem says that they are the only ones.

### Runs

`RunProofs` has one invariant for the pipeline, stated place by place of the generator: `Path`,
what the traces say by then; `Accounts`, that the breaker's sum is that of the traces and the
grounding; `Spend`, by how much it may exceed the cap, which is a call of the critic and one of
the synthesizer since the last comparison; `Tasks`, which specialists may be running; `Rows`, what
the session holds and what is committed. The four results are read off it, and each commit of the
row is a step of `ReportLifecycle`. For the console, `ViewStep` shows that a step of the page is a
step of the run or leaves it alone, so all of that carries over (`WatchedRunIsSound`); `DeskIsTrue`
adds `Links` (which responses can be open together: a former one only while this page has asked
for nothing), `Crew` (node states are the agents at work and the outputs collected) and `Tally`
(counts and costs are those of the traces), case by case of the reducer.

### Queued runs

`QueuedRunsProofs`: `Order` is subscribe-then-enqueue: there is no job, and nothing published,
until the submitter's relay is subscribed or it has gone without one. `SubmitterMissesNothing` is
inductive with it. `Attended` counts: until `stream_end` has been published or an attempt has
ended outside its `try`, every try but the present one is the death or stop of a worker, so a
silent finished job has used up its tries. `Charges` ties the accruals to deaths in the same
way. `Once` says that without deaths, timeouts and broken sessions there is one attempt, and
what it tells is what it commits.

### Chat and limits

`ConciergeProofs` rests on who can be where: a turn whose text matches an advice rule never gets
past the classifier (`AdviceStops`, from `AdviceFirst`: the first rule that matches is that one).
`ContextsHold` is what the ContextVar is for: the context a turn's tools run in names its caller
while the agent is at work and nobody before and after, through every set and reset of the others.
For the runs, `Books` and `FlightMoves` count: a step draws one run and puts one call in flight,
gives a call in flight its report, or ends it and counts it lost; a crash does that to all calls
at once, of which there are finitely many (`FlightsFinite`). Nobody but a payer is ever on the pro
plan, so each drawn run was below the limit. It needs no pool, no fairness and no bound on turns.
What later agents are shown of a refused message needs the order of rows: the rows of a refused
turn are its question and then its answer, so wherever a query finds the question the answer
follows (`Followed`), also in the last messages of the result, of which a transcript is made
(`ThinkShows`).
`TurnsAreStoredWhole` speaks of what queries return, so it needs facts about `RowsOf` for logs
of any length: what is found in a log with one more row, in a log cut back by a crash, by a
query for all and by a query for one turn (`RowsOfOneMore`, `RowsOfKept`). Given these,
`Recorded` says which rows of its conversation are a turn's own at each place, and `Shown` that
what its agent was given is its own question or was stored before; a step of another turn adds
and removes no row of this one and nothing that is stored (`OthersKept`).

The second part of `AdmissionProofs` numbers a caller's runs. `Logs` says that the deque holds the last of them and
that those it has lost have expired, whether by `popleft` or by `prune` (which may forget a caller
because its last run is its youngest: `Numbered`). So a run and the one `MaxRequests` after it
are a window apart (`Spaced`), hence the numbers of the runs of any window lie less than
`MaxRequests` apart, and an injection into an interval bounds their count; a full deque is an
injection the other way. `Promise` carries the Retry-After from the refusal to the return:
`Second * (x \div Second + 1)` is more than `x` (`WholeSeconds`), which the `+ 1` is for.

### Billing

`StripeMirrorProofs` has two invariants. `Billed` holds whatever overlaps: sessions are opened
for the customer of the committed row and no other, only the one handler with the uncommitted
insert can commit a customer, and what every handler has read or was sent names this customer, none
yet, or a stranger; each step is reduced to what it does to the books (`Booked`) and to the
one handler that takes it (`OwnSteps`). `Synced` is about the two copies of the plan: a handler that no other has
`overtaken` since its reads has read the plans that are still committed (`UpToDate`), so
writing the columns that differ writes the same plan to both (`PlanCommit`), whatever the state
of the copies before (`PlansMended`); and `raced` remembers when the last commit of a plan was not
of that kind. Nothing is assumed of `Overlapping`: that the copies may differ then is the code's
behaviour (section 6).

### Figures, scores and models

The properties of `MCFigures` are about functions, and the theorems about all their
inputs (for the chunker see the next section). Nothing is proved by unfolding a recursion: `SumIs` exhibits the partial sums as a function
with `f[k] = f[k - 1] + g[k]`, and the rest is induction over sets of naturals (`Induction`,
from the well-founded order of Nat, because the library's induction schemas take a predicate).
`SumsCompare` orders two weighted sums term by term: it gives a positive distance from an
average (`AverageIs`), an RSI in its range (`RsiIs`) and, over the rows of the judged reports,
that a model worse throughout has the lower average (`PromotionIsSound`; `ReportsBehindRows` bounds
the rows a number of reports can have). `DrawdownIs` finds the deepest of the falls, fractions
compared by cross-multiplication (`AtMostOrder`), and `RunningMaxIs` the highest close so far;
returns are above the drawdown because their base is below the running maximum, up to what the coarser
rounding of the drawdown hides (`Rounded` is only known to be a nearest whole number). The score is
linear, one point of a pillar moves it by less than one step of the rounding, and adjacent scores
have adjacent bands (`Rising`, `RankBounds`). `FiguresConstants` only types the inputs:
closes are above 0, fields are finitely many and none is null.

### Chunks

`FilingsAreCovered` follows the text through `ingest_filing`. A section is a stretch of positions
from the last heading of its item to before the next boundary (`BodyIs`, `CitedAs`), and the kept
ones are in order (`NthIs`: ranking positions is an injection into an interval of its own size).
The windows of a section are numbered without a gap (`WindowsAre`) and cover it
(`WindowsCover`): the last window that starts at or before a token holds it, because the next
one, if left out as a tiny tail, would begin within the overlap; this needs `MinTail <= Overlap`
of `ChunkingConstants`. Chunks of all sections are `Apart`, since a chunk tells its item and
its index, and flattening such sequences keeps each element and repeats none (`FlattenJoins`, by
induction over the partial concatenations, `FlattenIs`). The batches of the embeddings,
concatenated, are the chunks in their order (`VectorsAre`), the last batch being the shorter one.

### Grounding and accounts

`ReportProofs` proves `GroundingHolds` (`GroundingInv`) for any runs and any filings, from
`GroundingConstants`. `GroundingInv` is inductive because of `Settling`, which gives each
status its reason: a run that has found or flushed its filing has a row, its own or another's,
that will be there when its agents search, and a broken session has lost a race to a run that
ingested the same filing. `StepOfRun` reduces each action to the run that takes it: what the
others rely on is only ever added.

`AuthProofs` proves `AccountsHold` (`AccountInv`) and `RevocationHolds` (`RevokedKeyExpires`)
for any requests, keys, identities, addresses, TTL and length of a fetch, from `AuthConstants`.
Revocation rests on `KeysDated`: a key on its way from the issuer was served after its fetch
began, a fetch is bounded, and so `_fetched_at`, though it is the time of arrival and of
whichever answer came last, is at most one fetch later than the issuer's last service of any
key in the cache. Accounts rest on `RowsApart`: the unique columns keep rows apart, and the
one NULL the index lets through is the dev user, told apart by its address; `Identified` says
that a verified request has a `sub` and that a request of the disabled mode has no token.

### Only model-checked

- Every liveness property (`ReservationAnswered`, `GateEmpties`, `RunEnds`, `DeskSettles`,
  `RunSettles`, `DriftCorrected`, `TurnsEnd`): fairness and ENABLED are beyond the prover.
- Every other property of a passing run, invariant, action property or implementation, is a
  theorem.

## 6. Where code and documentation differ

With a run that exhibits it:

- A streaming request whose client leaves before the response is iterated keeps its gate
  slot: `event_generator`'s `finally` belongs to a generator never started
  (`routes_research.py:172`; `MCInlineLeak`).
- The reattach endpoint reads the status before it subscribes; a run that ends in between
  leaves the client on a silent channel (`routes_research.py:224`; `QueuedRunsReattach`).

Met while modelling, without a run of their own (the modules take the code's side):

Runs and queue

- A synchronous run that fails leaves its report `running`: the exception reaches `get_db`,
  which rolls back `fail_report` (`routes_research.py:105`); the event says "Full detail is
  stored on the report" (`research.py:324`).
- Two runs ingesting one filing: the loser's IntegrityError is swallowed without a rollback
  and its next commit raises (`rag/ingest.py:101`); `ingest.py:36` says "Never raises".
- A late event of a former subscription takes over the mirror and can downgrade a user who
  pays (`stripe_client.py:153`); README.md:166 counts on the reconciler for "retried events",
  but it asks about the subscription the mirror names.
- `reconcile.py:5` says to run the reconciler on a schedule and README.md:166 calls it
  periodic; nothing outside the tests calls it (`worker.py` has no cron jobs, `main.bicep` no job).
- A run whose enqueue fails after the commit is charged and stays `running`
  (`routes_research.py:129`, `NeverEnqueued`).
- The loser of the counter's insert race has its `user` object expired by the rollback;
  `user.id` (`routes_research.py:153`) then raises outside any `try`, which charges the run
  and leaks the slot. `limits.py:80-81` says the rollback "discards nothing else".
  `InlineRuns` has it as `Break`, and `Leaking` names it.
- Background runs of the assistant do not ask the gate (`concierge/actions.py:90`), which
  `api/limits.py:11` says caps runs "regardless of caller".
- An API restart leaves inline reports `running`; `pipeline/research.py:94-95` speaks of a
  "traceable failed report". So does `job_timeout`, whose cancellation no
  `except Exception` sees.
- `UsageRecorded` needs its exception: a run reserved in one month and completed in the next
  updates a counter that may not exist (`limits.py:122`).
- `CompleteIsFinal` needs its exception: a job repeated after a worker's death can overwrite
  a complete report with `failed`; `research_job.py:10` says the final completion wins.
- Up to seven agent calls of 180 s follow one another, 1260 s, above the worker's "hard stop
  well above agent_timeout_seconds * phases" of 900 s (`worker.py:35`).
- When two webhooks of one user overlap, `users.plan` can be left different from the row's
  plan: unlocked reads, and writes of changed columns only. The reconciler compares the row
  alone (`reconcile.py:59`) and leaves such a user on the wrong plan until the next commit of
  a plan. With events lost before the first checkout is mirrored it has no row to look at
  (`reconcile.py:33`).
- A queued run whose session an ingest race has broken ends with no event and its row
  `running`: `fail_report`'s flush and both commits raise (`research.py:320`,
  `research_job.py:51-55`). A database error before the `try` (`research_job.py:39-41`), or a
  cancellation in the last publish (57), leaves its clients without `stream_end`, too.
- The limiter and the gate are memory of one process, and `main.bicep:211` allows two API
  replicas: "regardless of caller" (`api/limits.py:11`) holds for each of them.
- Closing the generator at an `agent_started` yield (`pipeline/research.py:141-143`) leaves the
  specialists running with nobody to collect them (`pc = "orphaned"`).
- Search ranges over all ingested filings of a ticker, the tool promises the latest
  (`tools/filings.py:15`).
- Nothing in the server calls `prune()` (only a test does), so the limiter keeps an entry
  for every caller it has ever seen.

Concierge and authentication

- The docstring of `concierge_turn.py` (3-5) speaks of persisted agent runs and of refusals
  that cost no tokens: no `AgentRun` row is written, and a refusal the intent model decides
  has cost its call.
- README.md:168 says that advice is caught "before the model sees the message". The turn's own
  agent does not see it; the transcripts of later turns (`concierge_turn.py:28-43`) have it,
  with its refusal, for as long as it is among the last ten messages.
- A timeout, an error or a crash between the reservation's commit (`limits.py:117`) and the
  report's (`actions.py:62`) draws a run from the quota and leaves no report (`lost`).
  `limits.py:105-107` means this for failed runs, which have one.
- A new conversation's id is answered before `get_db` commits it; a stream asked for at once
  may get 404. `turn_db.get(User)` stands outside the `try`, so a pool timeout there breaks
  the stream without an `error` or `done`.
- The transcript has the question twice: the flushed message and `latest`. Of two interleaved
  first turns the later one's title stays. An unknown `linked_report_id` fails the commit and
  loses the turn; a run the turn started survives it, its quota drawn.
- `auth.py:33` says the key set is refreshed "at most once per TTL": every unknown kid, and every
  request that arrives during a fetch, fetches it again. With the issuer down an expired
  cache is a 500 though it holds the key. The loser of a provisioning race, and a second
  identity with a known address, get a 500 (`auth.py:111`).

Models, figures and pages

- `deploy/canary.py` and README.md:169 present the canary as per user, but queued runs
  (`jobs/research_job.py:41`) and the assistant's inline runs (`actions.py:81`) never apply it: a
  canaried user's model depends on the route. If the free model is set to the stable one, free
  users are canaried; `canary.py:30` says never.
- With no stable sample any candidate is promoted (`promotion.py:76`), and a report counts once
  for its synthesis and once for each revision (`promotion.py:42`), so that two reports can be
  the five the code asks for.
- `return_1y_pct` is computed from whatever history there is, 30 sessions or more; flat
  prices have an RSI of 100 (`market.py`). `_cik_cache` is never refreshed, and a 10-K is
  preferred to a newer 10-Q (`edgar.py`).
- A broken connection is shown as "The run failed ... Finished work is saved in the Ledger"
  (`console/page.tsx:77-82`), but an inline run dies with its connection and its traces are
  rolled back. The notice "the run continues on the server" is never shown of such a run
  (`DeskInv`). A report published over a block shows its synthesizer idle, and the node state
  "failed" is never assigned.
- The chat view shows an answer in whatever conversation is open when it arrives, and the
  messages of the conversation loaded last; a network failure while a conversation is being
  created leaves it busy until the page is reloaded (`chat/page.tsx:110-116`).

## 7. Not modelled

The content of agents' answers and its validation; retrieval ranking; prompts and refusal
texts; rendering, and the chat view, of which nothing in the repository says what it should
show when answers cross; logging, request ids and health checks; read-only routes; schema
migrations; the offline evaluation and the experiments' notebooks; infrastructure. The
report's JSON is reduced to what relates it to the run (revisions, blocked, cost). Token
counts are units per run. Time is abstract except in `RateLimiter` and `Auth`; timeouts are
outcomes that may happen. A process restart empties the rate limiter, so its budget holds
within one life of the process. Token signatures are one bit; the canary's hash is any fixed
assignment of buckets.

## 8. Plan

Order: what charges, admits and stores first (`Quota`, `InlineRuns`, `ResearchRun`,
`QueuedRuns`), then the mirrors of outside state (`StripeMirror`, `Grounding`), the callers
(`Auth`, `Concierge`, `Console`), then what only computes (`RateLimiter`, `MCFigures`). These
exist, and one passing run per question keeps the set small.
