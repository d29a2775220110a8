------------------------------ MODULE Console ------------------------------
(***************************************************************************)
(* The console (frontend/web/src/lib/useResearchStream.ts and the page     *)
(* around it) in front of one inline research run (ResearchRun): the page  *)
(* asks for the run and reduces the events it streams to what the desk     *)
(* shows.  Every yield of the pipeline is one update of the desk while the *)
(* response is open; a response that breaks freezes the desk, and the      *)
(* server goes on until it notices.  The request before this one may have  *)
(* its response open still, after its last event.                          *)
(***************************************************************************)
EXTENDS ResearchRun

CONSTANTS Synthesizer, Critic

\* IDLE_AGENTS: six agents under six names.
ASSUME AgentNames == /\ Synthesizer \notin Pillars /\ Critic \notin Pillars
                     /\ Synthesizer # Critic

VARIABLES desk,     \* RunState of the reducer
          link,     \* the response to this run's request
          former    \* the response to the request before it

page     == <<desk, link, former>>
viewVars == <<vars, page>>

Agents    == Pillars \cup {Synthesizer, Critic}
NodeState == {"idle", "working", "done"}   \* "failed" is never assigned
Statuses  == {"idle", "running", "complete", "error", "disconnected", "quota_exceeded"}
RunState  == [status : Statuses, nodes : [Agents -> NodeState],
              cost : Nat, verdicts : Nat, drafts : Nat]

\* initialRunState; drafts counts the drafts shown so far, the last of them displayed.
Blank == [status |-> "idle", nodes |-> [a \in Agents |-> "idle"],
          cost |-> 0, verdicts |-> 0, drafts |-> 0]

Become(d, status) == [d EXCEPT !.status = status]

DeskTyped == /\ desk \in RunState
             /\ link \in {"none", "asked", "open", "ended", "refused", "cut", "aborted"}
             /\ former \in {"none", "open", "aborted"}

ViewInit == /\ Init
            /\ link = "none"
            /\ \/ former = "none" /\ desk = Blank
               \/ former = "open" /\ desk \in {Become(Blank, s) : s \in {"complete", "error"}}
-----------------------------------------------------------------------------
(* The reducer.                                                            *)

\* Plausible bugs, each a variant of the operator that follows it.
Aborted_Never(l)               == l
AgentCompleted_NoCost(d, a, c) == [d EXCEPT !.nodes = [@ EXCEPT ![a] = "done"]]
CriticVerdict_Last(d, b, c) ==
    [d EXCEPT !.cost = @ + c, !.verdicts = 1,
              !.nodes = [@ EXCEPT ![Critic] = "done",
                                  ![Synthesizer] = IF b THEN "idle" ELSE d.nodes[Synthesizer]]]

\* abortRef.current?.abort(): nothing of that response is dispatched any more.
Aborted(l) == IF l = "open" THEN "aborted" ELSE l

AgentsStarted(d, S) == [d EXCEPT !.nodes = [a \in Agents |-> IF a \in S THEN "working" ELSE @[a]]]

AgentCompleted(d, a, c) == [d EXCEPT !.nodes = [@ EXCEPT ![a] = "done"], !.cost = @ + c]

Drafted(d, c) == [AgentCompleted(d, Synthesizer, c) EXCEPT !.drafts = @ + 1]

\* A blocking verdict re-arms the synthesizer.
CriticVerdict(d, b, c) ==
    [d EXCEPT !.cost = @ + c, !.verdicts = @ + 1,
              !.nodes = [@ EXCEPT ![Critic] = "done",
                                  ![Synthesizer] = IF b THEN "idle" ELSE d.nodes[Synthesizer]]]

\* The summary's cost replaces the sum.
Completed(d, c) == [d EXCEPT !.status = "complete", !.cost = c]

\* The body ended; after a last event that changes nothing.
Disconnected(d) == IF d.status = "running" THEN Become(d, "disconnected") ELSE d
-----------------------------------------------------------------------------
(* The run, its events reduced while the response is open.                 *)

Show(d) == /\ desk' = IF link = "open" THEN d ELSE desk
           /\ UNCHANGED <<link, former>>

\* usage.cost_usd of the call just recorded.
Cost == traceCost' - traceCost

\* The server lets the request in, whether or not the caller is still there.
Admit ==
    /\ Create
    /\ link \in {"asked", "cut"}
    /\ link' = IF link = "asked" THEN "open" ELSE link
    /\ UNCHANGED <<desk, former>>

Shown ==
    \/ (Ground \/ FanOut \/ CollectFailure \/ Gathered \/ Accept \/ Raise) /\ Show(desk)
    \/ Announce   /\ Show(AgentsStarted(desk, Pillars))
    \/ \E p \in Pillars : Collect(p) /\ Show(AgentCompleted(desk, p, Cost))
    \/ Score      /\ Show(AgentsStarted(desk, {Synthesizer}))
    \/ Synthesize /\ Show(AgentsStarted(Drafted(desk, Cost), {Critic}))
    \/ Criticize  /\ Show(CriticVerdict(desk, blocked', Cost))
    \/ SendBack   /\ Show(AgentsStarted(desk, {Synthesizer}))
    \/ Revise     /\ Show(AgentsStarted(Drafted(desk, Cost), {Critic}))
    \/ Persist    /\ Show(Completed(desk, total_cost))
    \/ FailReport /\ Show(Become(desk, "error"))
    \/ (Commit("publishing", "completed") \/ Commit("raised", "failed")) /\ Show(desk)

\* The generator is closed because the caller left or the process goes down; a caller
\* still there sees the body break off.
CloseRun ==
    /\ Close
    /\ link' = IF link = "open" THEN "cut" ELSE link
    /\ desk' = IF link = "open" THEN Become(desk, "error") ELSE desk
    /\ UNCHANGED former

\* Specialists work on their own; nothing is streamed.
Research(p) == TaskEnds(p) /\ UNCHANGED page
-----------------------------------------------------------------------------
(* The page.                                                               *)

\* start; the form is disabled while a run is on, and gone once one is published.
Ask ==
    /\ link = "none" /\ desk.status \notin {"running", "complete"}
    /\ link' = "asked"
    /\ former' = Aborted(former)
    /\ desk' = Become(Blank, "running")
    /\ UNCHANGED vars

\* 402 is a notice, any other refusal an error.
Refused ==
    /\ link = "asked" /\ pc = "start"
    /\ link' = "refused"
    /\ \E s \in {"quota_exceeded", "error"} : desk' = Become(desk, s)
    /\ UNCHANGED <<vars, former>>

\* The network fails: fetch or read rejects.
CutOff ==
    /\ link \in {"asked", "open"}
    /\ link' = "cut"
    /\ desk' = Become(desk, "error")
    /\ UNCHANGED <<vars, former>>

\* The server has sent `done` and closed the body.
BodyEnds ==
    /\ link = "open" /\ pc \in {"completed", "failed"}
    /\ link' = "ended"
    /\ desk' = Disconnected(desk)
    /\ UNCHANGED <<vars, former>>

\* reset, offered with a published report.
NewResearch ==
    /\ desk.status = "complete"
    /\ desk' = Blank
    /\ link' = Aborted(link)
    /\ former' = Aborted(former)
    /\ UNCHANGED vars

\* The former response ends, or breaks, unless it was aborted.
FormerEnds ==
    /\ former = "open"
    /\ former' = "none"
    /\ desk' \in {Disconnected(desk), Become(desk, "error")}
    /\ UNCHANGED <<vars, link>>

Served == Admit \/ Shown \/ Refused

ViewNext == \/ Served \/ CloseRun \/ \E p \in Pillars : Research(p)
            \/ Ask \/ CutOff \/ BodyEnds \/ NewResearch \/ FormerEnds

\* The server answers a request and drives its run; nothing else is fair.
ViewSpec == /\ ViewInit /\ [][ViewNext]_viewVars
            /\ WF_viewVars(Served) /\ \A p \in Pillars : WF_viewVars(Research(p))
-----------------------------------------------------------------------------
(* Properties.                                                             *)

\* What the pipeline's state makes of a run that is being watched.
StatusOfRun == CASE pc \in {"publishing", "completed"} -> "complete"
                 [] pc \in {"raised", "failed"}        -> "error"
                 [] OTHER                              -> "running"

Nodes(s) == {a \in Agents : desk.nodes[a] = s}

\* "The tape is a pure projection of events": while the response is open the desk shows
\* this run and no other: its status, whatever the response before it still does; the
\* calls it has made, all their cost, every verdict, the last draft; who is at work.
\* A published desk shows the draft the critic saw last and the run's whole cost.
DeskTellsRun ==
    link = "open" =>
        /\ desk.status = StatusOfRun
        /\ desk.verdicts = traces["critique"]
        /\ desk.drafts = traces["synthesis"] + traces["revision"]
        /\ desk.cost = traceCost + (IF desk.status = "complete" THEN embedding ELSE 0)
        /\ Nodes("done") \cap Pillars = outputs
        /\ pc \in {"collecting", "synthesis", "critique", "revision"} =>
               Nodes("working") = CASE pc = "collecting" -> Pillars \ outputs
                                    [] pc = "critique"   -> {Critic}
                                    [] OTHER             -> {Synthesizer}
        /\ desk.status = "complete" => desk.drafts = reviewed + 1

\* "Connection lost - the run continues on the server" is never shown of an inline run,
\* which dies with its connection: its body ends only after a last event.
DeskInv == DeskTyped /\ DeskTellsRun /\ desk.status # "disconnected"

\* The desk is not left running for ever, whatever becomes of the run or the connection.
DeskSettles == (desk.status = "running") ~> (desk.status # "running")
=============================================================================
