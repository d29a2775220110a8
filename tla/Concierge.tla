----------------------------- MODULE Concierge -----------------------------
(***************************************************************************)
(* The assistant's chat: conversations and their turns (routes_concierge,  *)
(* pipeline/concierge_turn), the intent rules that refuse advice           *)
(* (concierge/classifier), and the tools the agent calls in a turn         *)
(* (concierge/actions), which may start research runs.  Turns interleave   *)
(* at every await, in one conversation too.  A request holds a database    *)
(* connection for its endpoint while its turn needs another, and each tool *)
(* a third, all from one pool.                                             *)
(***************************************************************************)
EXTENDS Integers, Sequences, FiniteSets, SequencesExt

CONSTANTS Turns,          \* POST .../messages/stream requests
          Conversations,
          Fresh,          \* the conversations created while the model runs
          Users,
          Owner,          \* [Conversations -> Users]
          Targets,        \* [Turns -> SUBSET Conversations]: those its request may name
          Caller,         \* [Turns -> Users]: who really sends it
          Texts,          \* [Turns -> SUBSET SUBSET RuleIntents]: the rules its message may match
          Payers,         \* users who may be on the pro plan
          RunLimit,       \* max_runs_per_period of the pro plan
          HistoryTurns,   \* _HISTORY_TURNS: messages
          PoolSizes,      \* pool_size + max_overflow
          Crashes,        \* bound: API restarts
          None

\* The rules in the order they are tried, and what the intent model may answer.
Rules       == <<"advice_request", "account", "research", "education">>
RuleIntents == {Rules[i] : i \in 1 .. Len(Rules)}
Intents     == RuleIntents \cup {"follow_up"}

ASSUME ConciergeConstants ==
    /\ Owner \in [Conversations -> Users]
    /\ Targets \in [Turns -> SUBSET Conversations]
    /\ Caller \in [Turns -> Users]
    /\ Texts \in [Turns -> SUBSET SUBSET RuleIntents]
    /\ Payers \subseteq Users /\ Fresh \subseteq Conversations
    /\ RunLimit \in Nat /\ HistoryTurns \in Nat \ {0} /\ None \notin Users
    /\ PoolSizes \subseteq Nat \ {0} /\ Crashes \in Nat

VARIABLES conversation,  \* the row: none yet, flushed and its id sent, or committed
          log,           \* message rows in created_at order, those not committed included
          stored,        \* turns whose rows are committed
          audit,         \* turns with an advice_refusal row in audit_log
          titled,        \* the turn a conversation has its title from, {} for the default
          pc,
          target,        \* the conversation a turn was accepted for
          untitled,      \* the turn found its conversation with the default title
          transcript,    \* the messages the agent was given
          context,       \* current_user_id_var, in each context there is
          acting,        \* the user_id of the call of trigger_research a turn is in
          seen,          \* the owners of the reports its tools returned
          reports,       \* rows of the runs the tools started, [owner, turn]
          used,          \* runs each user's counter says were drawn
          lost,          \* history: those of them whose call ended before its report's row
          plan,
          crashes,
          text,          \* the rules each message matches, and
          poolSize       \* the size of the pool: never changed

vars == <<conversation, log, stored, audit, titled, pc, target, untitled,
          transcript, context, acting, seen, reports, used, lost, plan, crashes,
          text, poolSize>>

given    == <<text, poolSize>>
chat     == <<log, stored, audit, titled>>
turn     == <<target, untitled, transcript>>
tools    == <<context, acting, seen>>
research == <<reports, used, lost>>

\* The agent is at work: by itself, or in a call of trigger_research.
Agent   == {"agent", "drawing", "drawn", "starting"}
Working == {"accepted", "opened", "refusing", "routed"} \cup Agent
Ended   == {"answered", "refused", "errored", "cut", "notfound"}
Entry(t, role) == [turn |-> t, role |-> role]
Entries        == [turn : Turns, role : {"user", "assistant"}]
ReportRows     == [owner : Users, turn : Turns]

TypeOK == /\ conversation \in [Conversations -> {"none", "flushed", "stored"}]
          /\ log \in [Conversations -> Seq(Entries)]
          /\ stored \subseteq Turns
          /\ audit \subseteq Turns
          /\ titled \in [Conversations -> SUBSET Turns]
          /\ pc \in [Turns -> {"new"} \cup Working \cup Ended]
          /\ target \in [Turns -> Conversations \cup {"none"}]
          /\ untitled \subseteq Turns
          /\ transcript \in [Turns -> Seq(Entries)]
          /\ reports \in Seq(ReportRows)
          /\ context \in [Turns -> Users \cup {None}]
          /\ acting \in [Turns -> Users \cup {None}]
          /\ seen \in [Turns -> SUBSET Users]
          /\ used \in [Users -> Nat] /\ lost \in [Users -> Nat]
          /\ plan \in [Users -> {"free", "pro"}]
          /\ crashes \in 0 .. Crashes
          /\ text \in [Turns -> SUBSET RuleIntents] /\ poolSize \in PoolSizes

Init == /\ conversation = [c \in Conversations |-> IF c \in Fresh THEN "none" ELSE "stored"]
        /\ log = [c \in Conversations |-> <<>>]
        /\ stored = {} /\ audit = {}
        /\ titled = [c \in Conversations |-> {}]
        /\ pc = [t \in Turns |-> "new"]
        /\ target = [t \in Turns |-> "none"]
        /\ untitled = {}
        /\ transcript = [t \in Turns |-> <<>>]
        /\ context = [t \in Turns |-> None] /\ acting = [t \in Turns |-> None]
        /\ seen = [t \in Turns |-> {}]
        /\ reports = <<>>
        /\ used = [u \in Users |-> 0] /\ lost = [u \in Users |-> 0]
        /\ plan \in {p \in [Users -> {"free", "pro"}] : \A u \in Users \ Payers : p[u] = "free"}
        /\ crashes = 0
        /\ text \in {x \in [Turns -> SUBSET RuleIntents] : \A t \in Turns : x[t] \in Texts[t]}
        /\ poolSize \in PoolSizes

Goto(t, from, to) == pc[t] = from /\ pc' = [pc EXCEPT ![t] = to]

\* Connections in use: the endpoint's session keeps its own until the response is
\* over, the turn's session opens a transaction with its first query, and a call of
\* trigger_research has one until the reservation is committed.
InUse == Cardinality({t \in Turns : pc[t] \in Working})
         + Cardinality({t \in Turns : pc[t] \in Working \ {"accepted"}})
         + Cardinality({t \in Turns : pc[t] = "drawing"})
         + Cardinality({c \in Conversations : conversation[c] = "flushed"})

\* Plausible bugs, each a variant of the operator that follows it.
RuleIntent_AdviceLast(t) ==
    LET hits == {i \in 1 .. Len(Rules) : Rules[i] \in text[t]}
    IN  IF hits = {} THEN "none" ELSE Rules[Max(hits)]
Visible_Dirty(t)     == Turns
ContextOf_Module(t)  == CHOOSE s \in Turns : TRUE
RolledBack_Kept(t)   == log
Accessible_Any(t, c) == conversation[c] = "stored"
Exhausted_OffByOne(u) == used[u] > RunLimit

\* The rows of the turns ts, in their order.
RowsOf(rows, ts) ==
    LET found[n \in 0 .. Len(rows)] ==
            IF n = 0 THEN <<>>
            ELSE IF rows[n].turn \in ts THEN Append(found[n - 1], rows[n]) ELSE found[n - 1]
    IN  found[Len(rows)]

\* rule_based_intent: the first rule that matches.
RuleIntent(t) ==
    LET hits == {i \in 1 .. Len(Rules) : Rules[i] \in text[t]}
    IN  IF hits = {} THEN "none" ELSE Rules[Min(hits)]

\* Absence and denial look identical.
Accessible(t, c) == conversation[c] = "stored" /\ Owner[c] = Caller[t]

\* Whose rows the turn's session can see: its own and the committed ones.
Visible(t) == stored \cup {t}

\* The context a turn's task runs in.  Each response has a task of its own, which has
\* copied its context, as have the tasks of the tools its agent calls.
ContextOf(t) == t

\* _require_user_id: the value of the ContextVar, never an argument.
ToolUser(t) == context[ContextOf(t)]

\* The value set for the agent is reset however it ends.
Reset(t) == context' = IF pc[t] \in Agent THEN [context EXCEPT ![ContextOf(t)] = None] ELSE context

\* A turn that ends without its commit leaves no row behind.
RolledBack(t) == [c \in Conversations |-> RowsOf(log[c], Turns \ {t})]

\* check_and_reserve_run, for a user loaded on the pro plan.
Exhausted(u) == used[u] >= RunLimit

\* Calls between the reservation and the report's row.
InFlight(u) == {t \in Turns : pc[t] = "drawn" /\ acting[t] = u}

\* A reservation is committed before the row of its report.
Lose(t) == lost' = IF pc[t] = "drawn" THEN [lost EXCEPT ![acting[t]] = @ + 1] ELSE lost

\* No connection is left in the pool; whoever asks gets a TimeoutError in the end.
Starved == InUse >= poolSize
-----------------------------------------------------------------------------
(* Conversations.                                                          *)

\* create_conversation flushes the row and answers with its id ...
Create(c) ==
    /\ conversation[c] = "none" /\ ~Starved
    /\ conversation' = [conversation EXCEPT ![c] = "flushed"]
    /\ UNCHANGED <<chat, pc, turn, tools, research, plan, crashes, given>>

\* ... and get_db commits once the response is sent, if it can.
CommitConversation(c) ==
    /\ conversation[c] = "flushed"
    /\ \E outcome \in {"stored", "none"} :
          conversation' = [conversation EXCEPT ![c] = outcome]
    /\ UNCHANGED <<chat, pc, turn, tools, research, plan, crashes, given>>
-----------------------------------------------------------------------------
(* A turn.                                                                 *)

\* The endpoint's own check; another user's conversation looks like none.
Request(t) ==
    /\ pc[t] = "new" /\ ~Starved
    /\ \E c \in Targets[t] :
          IF Accessible(t, c)
          THEN Goto(t, "new", "accepted") /\ target' = [target EXCEPT ![t] = c]
          ELSE Goto(t, "new", "notfound") /\ UNCHANGED target
    /\ UNCHANGED <<conversation, chat, untitled, transcript, tools, research, plan, crashes, given>>

\* The generator opens the turn's session: user and conversation are loaded.
Open(t) ==
    /\ Goto(t, "accepted", "opened")
    /\ ~Starved
    /\ untitled' = IF titled[target[t]] = {} THEN untitled \cup {t} ELSE untitled
    /\ UNCHANGED <<conversation, chat, target, transcript, tools, research, plan, crashes, given>>

\* The pool's timeout: a 500 before the stream starts, and in the stream an
\* exception outside the try, so there is no error event and no done event.
Starve_Never(t) == FALSE
Starve(t) ==
    /\ Goto(t, "new", "cut") \/ Goto(t, "accepted", "cut")
    /\ Starved
    /\ UNCHANGED <<conversation, chat, turn, tools, research, plan, crashes, given>>

\* classify_intent: the rules, then the intent model, follow_up when it fails.
Classify(t) ==
    /\ \E i \in Intents :
          /\ Goto(t, "opened", IF i = "advice_request" THEN "refusing" ELSE "routed")
          /\ RuleIntent(t) # "none" => i = RuleIntent(t)
    /\ UNCHANGED <<conversation, chat, turn, tools, research, plan, crashes, given>>

\* The fixed refusal: question, answer and audit row in one commit.
Refuse(t) ==
    /\ Goto(t, "refusing", "refused")
    /\ log' = [log EXCEPT ![target[t]] = @ \o <<Entry(t, "user"), Entry(t, "assistant")>>]
    /\ stored' = stored \cup {t}
    /\ audit' = audit \cup {t}
    /\ UNCHANGED <<conversation, titled, turn, tools, research, plan, crashes, given>>

\* The query for the transcript flushes the question, which is then in it twice; the
\* user's id is set for the agent.
Think(t) ==
    /\ Goto(t, "routed", "agent")
    /\ log' = [log EXCEPT ![target[t]] = Append(@, Entry(t, "user"))]
    /\ LET rows == RowsOf(log'[target[t]], Visible(t))
           from == IF Len(rows) > HistoryTurns THEN Len(rows) - HistoryTurns + 1 ELSE 1
       IN  transcript' = [transcript EXCEPT ![t] =
                             Append(SubSeq(rows, from, Len(rows)), Entry(t, "user"))]
    /\ context' = [context EXCEPT ![ContextOf(t)] = Caller[t]]
    /\ UNCHANGED <<conversation, stored, audit, titled, target, untitled, acting, seen, research, plan, crashes, given>>

\* search_past_reports, get_report: reports of the user the tool acts for.
ReadReports(t) ==
    /\ pc[t] = "agent" /\ ~Starved
    /\ ToolUser(t) # None
    /\ seen' = [seen EXCEPT ![t] = @ \cup {r.owner : r \in {q \in Range(reports) : q.owner = ToolUser(t)}}]
    /\ UNCHANGED <<conversation, chat, pc, turn, context, acting, research, plan, crashes, given>>

\* trigger_research: the user is loaded, and has a plan that allows it ...
CallTrigger(t) ==
    /\ Goto(t, "agent", "drawing") /\ ~Starved
    /\ ToolUser(t) # None /\ plan[ToolUser(t)] = "pro"
    /\ acting' = [acting EXCEPT ![t] = ToolUser(t)]
    /\ UNCHANGED <<conversation, chat, turn, context, seen, research, plan, crashes, given>>

\* ... the run is reserved and that committed (Quota) ...
Draw(t) ==
    /\ Goto(t, "drawing", "drawn") /\ ~Exhausted(acting[t])
    /\ used' = [used EXCEPT ![acting[t]] = @ + 1]
    /\ UNCHANGED <<conversation, chat, turn, tools, reports, lost, plan, crashes, given>>

OverQuota(t) ==
    /\ Goto(t, "drawing", "agent") /\ Exhausted(acting[t])
    /\ UNCHANGED <<conversation, chat, turn, tools, research, plan, crashes, given>>

\* ... the report's row in a second commit ...
CreateReport(t) ==
    /\ Goto(t, "drawn", "starting") /\ ~Starved
    /\ reports' = Append(reports, [owner |-> acting[t], turn |-> t])
    /\ UNCHANGED <<conversation, chat, turn, tools, used, lost, plan, crashes, given>>

\* ... and then a task or a job for the run (ResearchRun), outside every gate; with
\* the queue away the agent sees an error and the row stays.
Launch(t) ==
    /\ Goto(t, "starting", "agent")
    /\ UNCHANGED <<conversation, chat, turn, tools, research, plan, crashes, given>>

\* The database fails the tool, or the pool has no connection for it: the agent sees an
\* error and goes on.
ToolFails(t) ==
    /\ Goto(t, "drawing", "agent") \/ Goto(t, "drawn", "agent")
    /\ Lose(t)
    /\ UNCHANGED <<conversation, chat, turn, tools, reports, used, plan, crashes, given>>

\* The answer, and the title if there was none when the turn began.
Answer(t) ==
    /\ Goto(t, "agent", "answered")
    /\ log' = [log EXCEPT ![target[t]] = Append(@, Entry(t, "assistant"))]
    /\ stored' = stored \cup {t}
    /\ titled' = IF t \in untitled THEN [titled EXCEPT ![target[t]] = {t}] ELSE titled
    /\ Reset(t)
    /\ UNCHANGED <<conversation, audit, turn, acting, seen, research, plan, crashes, given>>

\* The agent times out or fails, also inside a tool; a query or the commit fails:
\* an error event, and the session is rolled back.
TurnFails(t) ==
    /\ \E from \in Working \ {"accepted"} : Goto(t, from, "errored")
    /\ log' = RolledBack(t) /\ Reset(t) /\ Lose(t)
    /\ UNCHANGED <<conversation, stored, audit, titled, turn, acting, seen, reports, used, plan, crashes, given>>

\* The client leaves.
Disconnect(t) ==
    /\ \E from \in Working : Goto(t, from, "cut")
    /\ log' = RolledBack(t) /\ Reset(t) /\ Lose(t)
    /\ UNCHANGED <<conversation, stored, audit, titled, turn, acting, seen, reports, used, plan, crashes, given>>
-----------------------------------------------------------------------------
(* The rest of the world.                                                  *)

ChangePlan(u) ==
    /\ u \in Payers
    /\ \E p \in {"free", "pro"} \ {plan[u]} : plan' = [plan EXCEPT ![u] = p]
    /\ UNCHANGED <<conversation, chat, pc, turn, tools, research, crashes, given>>

\* The API dies: open turns and what they flushed are gone.
Crash ==
    /\ crashes < Crashes /\ crashes' = crashes + 1
    /\ pc' = [t \in Turns |-> IF pc[t] \in Working THEN "cut" ELSE pc[t]]
    /\ log' = [c \in Conversations |-> RowsOf(log[c], stored)]
    /\ conversation' = [c \in Conversations |->
                           IF conversation[c] = "flushed" THEN "none" ELSE conversation[c]]
    /\ context' = [t \in Turns |-> None]
    /\ lost' = [u \in Users |-> lost[u] + Cardinality(InFlight(u))]
    /\ UNCHANGED <<stored, audit, titled, turn, acting, seen, reports, used, plan, given>>

Calls(t)    == \/ ReadReports(t) \/ CallTrigger(t) \/ Draw(t) \/ OverQuota(t)
               \/ CreateReport(t) \/ Launch(t) \/ ToolFails(t)
Progress(t) == \/ Open(t) \/ Starve(t) \/ Classify(t) \/ Refuse(t) \/ Think(t)
               \/ Answer(t) \/ TurnFails(t)

Next == \/ \E c \in Conversations : Create(c) \/ CommitConversation(c)
        \/ \E t \in Turns : Request(t) \/ Progress(t) \/ Calls(t) \/ Disconnect(t)
        \/ \E u \in Users : ChangePlan(u)
        \/ Crash

Spec == Init /\ [][Next]_vars

\* A turn keeps executing: the agent answers or runs into its timeout, which bounds the
\* calls of its tools too, and the pool hands out a connection or times out.
FairSpec == Spec /\ \A t \in Turns : WF_vars(Progress(t))
-----------------------------------------------------------------------------
(* Properties.                                                             *)

\* What list_messages shows of a conversation.
Messages(c) == RowsOf(log[c], stored)

\* Advice is refused before the agent: the turn of a message that matches an advice rule,
\* whatever other rules it matches, runs no agent, reads no report and starts no run, and
\* a stored refusal and its audit row come together.  The message stays in the
\* conversation, where the agents of later turns are shown it, but only once it has been
\* refused and audited, and never without the refusal that follows it.
AdviceIsRefused ==
    \A t \in Turns :
        /\ "advice_request" \in text[t] =>
              /\ transcript[t] = <<>> /\ seen[t] = {}
              /\ \A i \in DOMAIN reports : reports[i].turn # t
        /\ t \in audit <=> pc[t] = "refused"
        /\ \A k \in DOMAIN transcript[t] :
              LET s == transcript[t][k].turn IN
              "advice_request" \in text[s] =>
                  /\ s \in audit
                  /\ \E j \in k .. Len(transcript[t]) : transcript[t][j] = Entry(s, "assistant")

\* A stored turn is its question followed by its answer, once each, and a turn that
\* ended otherwise left nothing: however turns of a conversation interleave, fail
\* or are cut off, and no agent was ever shown words that were taken back.
TurnsStoredWhole ==
    \A t \in Turns :
        /\ t \in stored <=> pc[t] \in {"answered", "refused"}
        /\ pc[t] \in Ended => \A c \in Conversations :
              RowsOf(log[c], {t}) =
                 IF t \in stored /\ c = target[t]
                 THEN <<Entry(t, "user"), Entry(t, "assistant")>> ELSE <<>>
        /\ \A k \in DOMAIN transcript[t] :
              transcript[t][k].turn = t \/ transcript[t][k] \in Range(Messages(target[t]))

\* Conversations and turns are well formed, and whole.
TurnsInv == TypeOK /\ TurnsStoredWhole

\* Tenants stay apart: a turn writes only into its caller's conversation, and its
\* tools, which know of their user only what the context they run in says, read, charge
\* and start for its caller only, whoever else's turns run, fail or are cut off.
TenantsApart ==
    \A t \in Turns :
        /\ target[t] # "none" => Owner[target[t]] = Caller[t]
        /\ seen[t] \subseteq {Caller[t]}
        /\ pc[t] \in Agent \ {"agent"} => acting[t] = Caller[t]
        /\ \A i \in DOMAIN reports : reports[i].turn = t => reports[i].owner = Caller[t]

\* A user's counter says what became of every run that turns have drawn: it has a
\* report, its call is about to create one, or the call failed or was cut off between
\* the two commits, which gives nothing back.  So no report comes without a draw, and
\* the quota alone, none for a user who never pays, bounds the runs outside the gate.
ChatRunsMetered ==
    \A u \in Users :
        LET runs == {i \in DOMAIN reports : reports[i].owner = u} IN
        /\ used[u] = Cardinality(runs) + Cardinality(InFlight(u)) + lost[u]
        /\ used[u] <= IF u \in Payers THEN RunLimit ELSE 0

\* Every accepted turn ends, also when the turns hold all connections and wait for
\* more: by the pool's timeout.
TurnsEnd == \A t \in Turns : (pc[t] = "accepted") ~> (pc[t] \in Ended)
=============================================================================
