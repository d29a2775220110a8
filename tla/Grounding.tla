----------------------------- MODULE Grounding -----------------------------
(***************************************************************************)
(* Phase 0 of concurrent research runs on one ticker: the latest SEC       *)
(* filing is ingested into Postgres (backend/rag/ingest.py) and committed  *)
(* before the specialists start (backend/pipeline/research.py), because    *)
(* their search tool reads through a session of its own                    *)
(* (backend/rag/retrieval.py).                                             *)
(*                                                                         *)
(* filings.accession_no is unique: an INSERT waits for the transaction     *)
(* that has inserted the same number and fails once it has committed.  A   *)
(* failed flush leaves the run's session unusable until it is rolled back. *)
(***************************************************************************)
EXTENDS Naturals, FiniteSets

CONSTANTS Runs,
          LastFiling   \* bound: filings the company publishes, numbered from 1

ASSUME GroundingConstants == IsFiniteSet(Runs) /\ LastFiling \in Nat

Filings == 1 .. LastFiling

VARIABLES latest,   \* the latest filing EDGAR lists, 0 for none
          copies,   \* committed Filing rows, by accession number
          holds,    \* runs with an uncommitted Filing row
          pc,
          meta,     \* the filing the run found at EDGAR
          status,   \* the IngestStatus it got
          broken    \* runs whose session a failed flush has left unusable

vars == <<latest, copies, holds, pc, meta, status, broken>>

TypeOK == /\ latest \in 0 .. LastFiling
          /\ copies \in [Filings -> Nat]
          /\ holds \subseteq Runs
          /\ pc \in [Runs -> {"start", "lookup", "fetch", "flush", "grounded",
                              "researching", "killed", "ended"}]
          /\ meta \in [Runs -> 0 .. LastFiling]
          /\ status \in [Runs -> {"none", "cached", "ingested", "unavailable"}]
          /\ broken \subseteq Runs

Init == /\ latest \in 0 .. LastFiling
        /\ copies = [f \in Filings |-> 0]
        /\ holds = {}
        /\ pc = [r \in Runs |-> "start"]
        /\ meta = [r \in Runs |-> 0]
        /\ status = [r \in Runs |-> "none"]
        /\ broken = {}

Goto(r, from, to) == pc[r] = from /\ pc' = [pc EXCEPT ![r] = to]
Known             == {f \in Filings : copies[f] > 0}

\* Plausible bugs, each a variant of the operator that follows it.
CommitsFirst_Later     == FALSE
OnEdgarError_Raise     == "killed"
Listed_NextOne         == latest + 1

\* The unique index: another row with this number is committed.
Duplicate(r) == meta[r] \in Known

\* The pipeline commits before it starts the specialists.
CommitsFirst == TRUE

\* EDGAR and parsing errors become an `unavailable` status.
OnEdgarError == "grounded"

\* The most recent filing of EDGAR's list.
Listed == latest
-----------------------------------------------------------------------------
\* The company files again.
Publish ==
    /\ latest < LastFiling
    /\ latest' = latest + 1
    /\ UNCHANGED <<copies, holds, pc, meta, status, broken>>

\* edgar.latest_filing
FindLatest(r) ==
    /\ Goto(r, "start", "lookup")
    /\ latest > 0
    /\ meta' = [meta EXCEPT ![r] = Listed]
    /\ UNCHANGED <<latest, copies, holds, status, broken>>

\* EDGAR is down, the company does not file there, or the text cannot be
\* fetched, parsed or embedded.
Unavailable(r) ==
    /\ pc[r] \in {"start", "fetch"}
    /\ pc' = [pc EXCEPT ![r] = OnEdgarError]
    /\ status' = [status EXCEPT ![r] = "unavailable"]
    /\ UNCHANGED <<latest, copies, holds, meta, broken>>

LookUp(r) ==
    /\ IF meta[r] \in Known
       THEN Goto(r, "lookup", "grounded") /\ status' = [status EXCEPT ![r] = "cached"]
       ELSE Goto(r, "lookup", "fetch") /\ UNCHANGED status
    /\ UNCHANGED <<latest, copies, holds, meta, broken>>

\* Minutes later the text is fetched, chunked and embedded.
Embed(r) ==
    /\ Goto(r, "fetch", "flush")
    /\ UNCHANGED <<latest, copies, holds, meta, status, broken>>

\* The flush inserts the filing and its chunks ...
Flush(r) ==
    /\ Goto(r, "flush", "grounded")
    /\ \A q \in holds : meta[q] # meta[r]
    /\ ~Duplicate(r)
    /\ holds' = holds \cup {r}
    /\ status' = [status EXCEPT ![r] = "ingested"]
    /\ UNCHANGED <<latest, copies, meta, broken>>

\* ... or raises IntegrityError, which is swallowed without a rollback.
FlushFails(r) ==
    /\ Goto(r, "flush", "grounded")
    /\ Duplicate(r)
    /\ status' = [status EXCEPT ![r] = "unavailable"]
    /\ broken' = broken \cup {r}
    /\ UNCHANGED <<latest, copies, holds, meta>>

\* The commit after phase 0, and the specialists start.
Research(r) ==
    /\ Goto(r, "grounded", "researching")
    /\ r \notin broken
    /\ IF CommitsFirst
       THEN /\ copies' = [f \in Filings |->
                             copies[f] + IF r \in holds /\ meta[r] = f THEN 1 ELSE 0]
            /\ holds' = holds \ {r}
       ELSE UNCHANGED <<copies, holds>>
    /\ UNCHANGED <<latest, meta, status, broken>>

\* The commit raises, and so do fail_report's flush and the consumer's commit.
CommitFails(r) ==
    /\ Goto(r, "grounded", "killed")
    /\ r \in broken
    /\ UNCHANGED <<latest, copies, holds, meta, status, broken>>

\* The run ends, or is cancelled before: its session is rolled back.
End(r) ==
    /\ pc[r] \notin {"killed", "ended"}
    /\ pc' = [pc EXCEPT ![r] = "ended"]
    /\ holds' = holds \ {r}
    /\ UNCHANGED <<latest, copies, meta, status, broken>>

Next == \/ Publish
        \/ \E r \in Runs : \/ FindLatest(r) \/ Unavailable(r) \/ LookUp(r) \/ Embed(r)
                           \/ Flush(r) \/ FlushFails(r) \/ Research(r) \/ CommitFails(r)
                           \/ End(r)

Spec == Init /\ [][Next]_vars
-----------------------------------------------------------------------------
(* Properties.                                                             *)

\* A run told that its filing is there starts its specialists only when their
\* own sessions can see it ("Commit NOW").
AgentsSeeFiling ==
    \A r \in Runs : pc[r] = "researching" /\ status[r] \in {"cached", "ingested"} =>
        meta[r] \in Known

\* Grounding is best-effort: what EDGAR, the parser or the embedding service do
\* never kills a run; only a run that ingested the same filing first can.
OnlyRacesKill ==
    \A r \in Runs : pc[r] = "killed" =>
        \E q \in Runs \ {r} : meta[q] = meta[r] /\ status[q] = "ingested"

\* Why: a run's status says how far its filing has come.  Until it has one it has only
\* found the filing; with "cached" the filing is committed; with "ingested" the run's own
\* rows are uncommitted until its specialists start; and a session breaks only on a row
\* that another run has ingested and committed.
Ingested(f, R) == \E q \in R : meta[q] = f /\ status[q] = "ingested"
Settled(r) ==
    /\ pc[r] \in {"start", "lookup", "fetch", "flush"} => status[r] = "none"
    /\ pc[r] \in {"lookup", "fetch", "flush"} => meta[r] \in Filings
    /\ status[r] = "cached" => meta[r] \in Known
    /\ status[r] = "ingested" => meta[r] \in Filings
    /\ pc[r] = "grounded" /\ status[r] = "ingested" => r \in holds
    /\ r \in holds => status[r] = "ingested"
    /\ r \in broken => status[r] = "unavailable" /\ Ingested(meta[r], Runs \ {r})
Settling == /\ \A r \in Runs : Settled(r)
            /\ \A f \in Known : Ingested(f, Runs)

\* The inductive invariant: what the specialists can see and who can die, with the reasons.
GroundingInv == TypeOK /\ AgentsSeeFiling /\ OnlyRacesKill /\ Settling
=============================================================================
