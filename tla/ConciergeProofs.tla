-------------------------- MODULE ConciergeProofs --------------------------
(***************************************************************************)
(* What the assistant promises, for any turns, users, conversations, pool  *)
(* sizes and bounds: advice is refused before the agent, tenants stay      *)
(* apart, the runs its tools start are the runs drawn from the quota, and  *)
(* turns are stored whole or not at all.  What the queries return is       *)
(* proved by induction over the rows.                                      *)
(***************************************************************************)
EXTENDS Concierge, NaturalsInduction, WellFoundedInduction, SequenceTheorems, FiniteSetTheorems, TLAPS

\* The types of what the tools work with, ...
Typed == /\ pc \in [Turns -> {"new"} \cup Working \cup Ended]
         /\ target \in [Turns -> Conversations \cup {"none"}]
         /\ DOMAIN transcript = Turns
         /\ context \in [Turns -> Users \cup {None}] /\ acting \in [Turns -> Users \cup {None}]
         /\ seen \in [Turns -> SUBSET Users]
         /\ reports \in Seq(ReportRows)
         /\ used \in [Users -> Nat] /\ lost \in [Users -> Nat]
         /\ plan \in [Users -> {"free", "pro"}]
         /\ text \in [Turns -> SUBSET RuleIntents]

\* ... and those of the conversations, their rows and the bounds.
TypedRows == /\ conversation \in [Conversations -> {"none", "flushed", "stored"}]
             /\ log \in [Conversations -> Seq(Entries)]
             /\ stored \subseteq Turns /\ audit \subseteq Turns /\ untitled \subseteq Turns
             /\ titled \in [Conversations -> SUBSET Turns]
             /\ transcript \in [Turns -> Seq(Entries)]
             /\ crashes \in 0 .. Crashes /\ poolSize \in PoolSizes

\* The rows a turn has in a conversation, by how far it has come.
Own(t, c) ==
    IF c # target[t] THEN <<>>
    ELSE IF pc[t] \in Agent THEN <<Entry(t, "user")>>
    ELSE IF pc[t] \in {"answered", "refused"} THEN <<Entry(t, "user"), Entry(t, "assistant")>>
    ELSE <<>>

Recorded(t) ==
    /\ t \in stored <=> pc[t] \in {"answered", "refused"}
    /\ pc[t] \in Working \cup {"answered", "refused"} => target[t] \in Conversations
    /\ pc[t] = "new" => transcript[t] = <<>>
    /\ \A c \in Conversations : RowsOf(log[c], {t}) = Own(t, c)

\* What an agent was shown is its own question or has been committed before.
Shown(t) ==
    \A e \in Range(transcript[t]) :
        \/ e.turn = t
        \/ e.turn \in stored /\ target[t] \in Conversations /\ e \in Range(log[target[t]])

TurnsKept == \A t \in Turns : Recorded(t) /\ Shown(t)

\* A message that matches an advice rule never got past the classifier.
AdviceStops ==
    \A t \in Turns :
        "advice_request" \in text[t] => pc[t] \notin {"routed", "answered"} \cup Agent

\* The context a turn's tools run in names its caller while the agent is at work, and
\* nobody before and after.
ContextsHold == \A t \in Turns : context[t] = IF pc[t] \in Agent THEN Caller[t] ELSE None

\* Only who may pay is ever on the pro plan, so calls that got past it are a payer's.
OnlyPayersArePro == /\ \A u \in Users \ Payers : plan[u] = "free"
                    /\ \A t \in Turns : pc[t] \in Agent \ {"agent"} => acting[t] \in Payers

FlightsFinite == \A u \in Users : IsFiniteSet(InFlight(u))

IInv == /\ Typed /\ TypedRows /\ TurnsKept
        /\ AdviceStops /\ AdviceIsRefused
        /\ ContextsHold /\ TenantsApart
        /\ OnlyPayersArePro /\ FlightsFinite /\ ChatRunsMetered

USE DEF Agent
-----------------------------------------------------------------------------
(* The operators.                                                          *)

\* Whatever other rules a message matches, the advice rule decides.
LEMMA AdviceFirst ==
    ASSUME NEW t \in Turns, "advice_request" \in text[t]
    PROVE  RuleIntent(t) = "advice_request"
<1> DEFINE hits == {i \in 1 .. Len(Rules) : Rules[i] \in text[t]}
<1>1. Len(Rules) = 4 /\ Rules[1] = "advice_request"
  BY DEF Rules
<1>2. 1 \in hits /\ \A i \in hits : i \in Int /\ 1 <= i
  BY <1>1
<1>3. Min(hits) = 1
  BY <1>2 DEF Min
<1> QED
  BY <1>1, <1>2, <1>3 DEF RuleIntent

\* The rows of a user's runs.
Runs(u) == {i \in DOMAIN reports : reports[i].owner = u}

\* One more row, for its owner's runs and for nobody else's.
LEMMA OneMoreRun ==
    ASSUME reports \in Seq(ReportRows), NEW row \in ReportRows,
           reports' = Append(reports, row), NEW u \in Users
    PROVE  /\ IsFiniteSet(Runs(u))
           /\ Cardinality(Runs(u)') = Cardinality(Runs(u)) + (IF u = row.owner THEN 1 ELSE 0)
<1>1. /\ DOMAIN reports = 1 .. Len(reports) /\ Len(reports) \in Nat
      /\ reports' \in Seq(ReportRows)
      /\ DOMAIN reports' = 1 .. Len(reports) + 1
      /\ \A i \in DOMAIN reports : reports'[i] = reports[i]
      /\ reports'[Len(reports) + 1] = row
  OBVIOUS
<1>2. IsFiniteSet(Runs(u))
  <2>1. IsFiniteSet(1 .. Len(reports))
    BY <1>1, FS_Interval
  <2> QED
    BY <2>1, <1>1, FS_Subset DEF Runs
<1>3. CASE u = row.owner
  <2>1. Runs(u)' = Runs(u) \cup {Len(reports) + 1}
    BY <1>1, <1>3 DEF Runs
  <2>2. Len(reports) + 1 \notin Runs(u)
    BY <1>1 DEF Runs
  <2> QED
    BY <2>1, <2>2, <1>2, <1>3, FS_AddElement
<1>4. CASE u # row.owner
  <2>1. Runs(u)' = Runs(u)
    BY <1>1, <1>4 DEF Runs
  <2>2. Cardinality(Runs(u)) \in Nat
    BY <1>2, FS_CardinalityType
  <2> QED
    BY <2>1, <2>2, <1>2, <1>4
<1> QED
  BY <1>3, <1>4
-----------------------------------------------------------------------------
(* What the queries for messages return.                                   *)

\* Induction, for a set of numbers: the least number outside it would have no
\* predecessor outside it.
LEMMA Induction ==
    ASSUME NEW S, 0 \in S, \A n \in Nat : n \in S => n + 1 \in S
    PROVE  \A n \in Nat : n \in S
<1> SUFFICES ASSUME Nat \ S # {} PROVE FALSE
  OBVIOUS
<1>1. PICK m \in Nat \ S : \A n \in Nat \ S : ~(<<n, m>> \in OpToRel(<, Nat))
  BY NatLessThanWellFounded, WFMin, Zenon
<1>2. \A n \in Nat \ S : ~(n < m)
  BY <1>1 DEF OpToRel
<1>3. m - 1 \in Nat /\ m - 1 \in S
  BY <1>2
<1> QED
  BY <1>3

\* Induction over the rows of a conversation.
LEMMA RowInduction ==
    ASSUME NEW S, <<>> \in S,
           \A rows \in Seq(Entries), row \in Entries : rows \in S => Append(rows, row) \in S
    PROVE  \A rows \in Seq(Entries) : rows \in S
<1> DEFINE N == {n \in Nat : \A rows \in Seq(Entries) : Len(rows) = n => rows \in S}
<1>1. 0 \in N
  <2>1. ASSUME NEW rows \in Seq(Entries), Len(rows) = 0 PROVE rows = <<>>
    BY <2>1, EmptySeq
  <2> QED
    BY <2>1
<1>2. ASSUME NEW n \in Nat, n \in N PROVE n + 1 \in N
  <2> SUFFICES ASSUME NEW rows \in Seq(Entries), Len(rows) = n + 1 PROVE rows \in S
    OBVIOUS
  <2> DEFINE front == SubSeq(rows, 1, n)
             last  == rows[n + 1]
  <2>1. last \in Entries /\ \A i \in 1 .. n : rows[i] \in Entries
    BY LenProperties
  <2>2. /\ front \in Seq(Entries) /\ Len(front) = n
        /\ \A i \in 1 .. n : front[i] = rows[i]
    <3> HIDE DEF front
    <3>1. front = SubSeq(rows, 1, n)
      BY DEF front
    <3> QED
      BY <3>1, <2>1, SubSeqProperties
  <2> HIDE DEF front, last
  <2>3. rows = Append(front, last)
    <3>1. Append(front, last) \in Seq(Entries) /\ Len(Append(front, last)) = n + 1
      BY <2>1, <2>2
    <3>2. \A i \in 1 .. n + 1 : Append(front, last)[i] = rows[i]
      BY <2>1, <2>2 DEF last
    <3> QED
      BY <3>1, <3>2, SeqEqual
  <2>4. front \in S
    BY <1>2, <2>2
  <2> QED
    BY <2>1, <2>2, <2>3, <2>4
<1>3. \A n \in Nat : n \in N
  <2> HIDE DEF N
  <2> QED
    BY <1>1, <1>2, Induction
<1> QED
  BY <1>3, LenProperties

\* What one more row adds to the rows of the turns ts.
Grown(found, row, ts) == IF row.turn \in ts THEN Append(found, row) ELSE found

\* f is the recursion of RowsOf over the first k rows, ...
Finds(f, rows, ts, k) ==
    /\ f = [n \in 0 .. k |-> f[n]]
    /\ f[0] = <<>>
    /\ \A n \in 1 .. k : f[n] = Grown(f[n - 1], rows[n], ts)

\* ... as it is written there.
LEMMA FindsRecursively ==
    ASSUME NEW f, NEW rows, NEW ts, NEW k \in Nat
    PROVE  Finds(f, rows, ts, k) <=>
              f = [n \in 0 .. k |-> IF n = 0 THEN <<>>
                                    ELSE IF rows[n].turn \in ts THEN Append(f[n - 1], rows[n])
                                         ELSE f[n - 1]]
<1> DEFINE body(n) == IF n = 0 THEN <<>>
                      ELSE IF rows[n].turn \in ts THEN Append(f[n - 1], rows[n]) ELSE f[n - 1]
<1>1. body(0) = <<>> /\ \A n \in 1 .. k : body(n) = Grown(f[n - 1], rows[n], ts)
  BY DEF Grown
<1> HIDE DEF body
<1>2. 0 .. k = {0} \cup 1 .. k
  OBVIOUS
<1>3. f = [n \in 0 .. k |-> body(n)] <=>
         f = [n \in 0 .. k |-> f[n]] /\ \A n \in 0 .. k : f[n] = body(n)
  OBVIOUS
<1>4. (\A n \in 0 .. k : f[n] = body(n)) <=>
         f[0] = <<>> /\ \A n \in 1 .. k : f[n] = Grown(f[n - 1], rows[n], ts)
  BY <1>1, <1>2
<1> QED
  BY <1>3, <1>4 DEF Finds, body

\* The recursion is well defined.
LEMMA FoundExists ==
    ASSUME NEW rows, NEW ts
    PROVE  \A k \in Nat : \E f : Finds(f, rows, ts, k)
<1> DEFINE N == {k \in Nat : \E f : Finds(f, rows, ts, k)}
<1>1. 0 \in N
  <2>1. Finds([n \in 0 .. 0 |-> <<>>], rows, ts, 0)
    BY DEF Finds
  <2> QED
    BY <2>1
<1>2. ASSUME NEW k \in Nat, k \in N PROVE k + 1 \in N
  <2>1. PICK f : Finds(f, rows, ts, k)
    BY <1>2
  <2> DEFINE g == [n \in 0 .. k + 1 |-> IF n = k + 1 THEN Grown(f[k], rows[k + 1], ts) ELSE f[n]]
  <2>2. /\ f[0] = <<>>
        /\ \A n \in 1 .. k : f[n] = Grown(f[n - 1], rows[n], ts)
    BY <2>1 DEF Finds
  <2>3. /\ g[k + 1] = Grown(f[k], rows[k + 1], ts)
        /\ \A n \in 0 .. k : g[n] = f[n]
        /\ g = [n \in 0 .. k + 1 |-> g[n]]
    OBVIOUS
  <2> HIDE DEF g
  <2>4. ASSUME NEW n \in 1 .. k + 1 PROVE g[n] = Grown(g[n - 1], rows[n], ts)
    <3>1. CASE n = k + 1
      <4>1. n - 1 = k /\ k \in 0 .. k
        BY <3>1
      <4>2. g[n - 1] = f[k]
        BY <4>1, <2>3
      <4> QED
        BY <3>1, <4>2, <2>3
    <3>2. CASE n # k + 1
      <4>1. n \in 1 .. k /\ n \in 0 .. k /\ n - 1 \in 0 .. k
        BY <3>2
      <4> QED
        BY <4>1, <2>2, <2>3
    <3> QED
      BY <3>1, <3>2
  <2>5. Finds(g, rows, ts, k + 1)
    BY <2>2, <2>3, <2>4 DEF Finds
  <2> QED
    BY <2>5
<1>3. \A k \in Nat : k \in N
  <2> HIDE DEF N
  <2> QED
    BY <1>1, <1>2, Induction
<1> QED
  BY <1>3

\* RowsOf is what Finds describes.
LEMMA RowsFound ==
    ASSUME NEW rows \in Seq(Entries), NEW ts
    PROVE  \E f : Finds(f, rows, ts, Len(rows)) /\ RowsOf(rows, ts) = f[Len(rows)]
<1>1. \E f : Finds(f, rows, ts, Len(rows))
  BY FoundExists, LenProperties
<1>2. Len(rows) \in Nat
  BY LenProperties
<1>3. \A f : Finds(f, rows, ts, Len(rows)) <=>
         f = [n \in 0 .. Len(rows) |-> IF n = 0 THEN <<>>
                 ELSE IF rows[n].turn \in ts THEN Append(f[n - 1], rows[n]) ELSE f[n - 1]]
  BY <1>2, FindsRecursively
<1> QED
  BY <1>1, <1>3 DEF RowsOf

\* The two laws of RowsOf: of no rows, and of one row more.
LEMMA RowsOfNone == ASSUME NEW ts PROVE RowsOf(<<>>, ts) = <<>>
<1>1. <<>> \in Seq(Entries) /\ Len(<<>>) = 0
  BY EmptySeq
<1>2. PICK f : Finds(f, <<>>, ts, 0) /\ RowsOf(<<>>, ts) = f[0]
  BY <1>1, RowsFound
<1> QED
  BY <1>2 DEF Finds

\* One more row of the log is one more row found if it is asked for.
LEMMA RowsOfOneMore ==
    ASSUME NEW rows \in Seq(Entries), NEW row \in Entries, NEW ts
    PROVE  RowsOf(Append(rows, row), ts) = Grown(RowsOf(rows, ts), row, ts)
<1> DEFINE more == Append(rows, row)
           len  == Len(rows)
<1>1. /\ more \in Seq(Entries) /\ Len(more) = len + 1 /\ len \in Nat
      /\ more[len + 1] = row /\ \A n \in 1 .. len : more[n] = rows[n]
  OBVIOUS
<1>2. PICK f : Finds(f, rows, ts, len) /\ RowsOf(rows, ts) = f[len]
  BY RowsFound
<1>3. PICK g : Finds(g, more, ts, len + 1) /\ RowsOf(more, ts) = g[len + 1]
  BY <1>1, RowsFound
<1> HIDE DEF more, len
<1> DEFINE N == {n \in Nat : n <= len => f[n] = g[n]}
<1>3a. /\ f[0] = <<>> /\ \A n \in 1 .. len : f[n] = Grown(f[n - 1], rows[n], ts)
       /\ g[0] = <<>> /\ \A n \in 1 .. len + 1 : g[n] = Grown(g[n - 1], more[n], ts)
  BY <1>1, <1>2, <1>3 DEF Finds
<1>4. 0 \in N
  BY <1>3a
<1>5. ASSUME NEW n \in Nat, n \in N PROVE n + 1 \in N
  <2> SUFFICES ASSUME n + 1 <= len PROVE f[n + 1] = g[n + 1]
    OBVIOUS
  <2>1. f[n + 1] = Grown(f[n], rows[n + 1], ts)
    BY <1>1, <1>3a
  <2>2. g[n + 1] = Grown(g[n], more[n + 1], ts)
    BY <1>1, <1>3a
  <2>3. f[n] = g[n] /\ more[n + 1] = rows[n + 1]
    BY <1>1, <1>5
  <2> QED
    BY <2>1, <2>2, <2>3
<1>6. f[len] = g[len]
  <2>1. \A n \in Nat : n \in N
    <3> HIDE DEF N
    <3> QED
      BY <1>4, <1>5, Induction
  <2> QED
    BY <2>1, <1>1
<1>7. g[len + 1] = Grown(g[len], more[len + 1], ts)
  BY <1>1, <1>3a
<1> QED
  BY <1>1, <1>2, <1>3, <1>6, <1>7 DEF more

\* The rows of a log with one more row.
LEMMA RangeOfAppend ==
    ASSUME NEW rows \in Seq(Entries), NEW row \in Entries
    PROVE  Range(Append(rows, row)) = Range(rows) \cup {row}
<1> DEFINE more == Append(rows, row)
<1>1. /\ DOMAIN rows = 1 .. Len(rows) /\ Len(rows) \in Nat
      /\ DOMAIN more = 1 .. Len(rows) + 1
      /\ more[Len(rows) + 1] = row /\ \A n \in 1 .. Len(rows) : more[n] = rows[n]
  OBVIOUS
<1> HIDE DEF more
<1>2. Range(more) = Range(rows) \cup {row}
  BY <1>1 DEF Range
<1> QED
  BY <1>2 DEF more

\* What the query returns: rows of those turns, all of them, ...
LEMMA RowsOfType ==
    ASSUME NEW ts
    PROVE  \A rows \in Seq(Entries) :
              /\ RowsOf(rows, ts) \in Seq(Entries)
              /\ Range(RowsOf(rows, ts)) = {e \in Range(rows) : e.turn \in ts}
<1> DEFINE S == {rows \in Seq(Entries) :
              /\ RowsOf(rows, ts) \in Seq(Entries)
              /\ Range(RowsOf(rows, ts)) = {e \in Range(rows) : e.turn \in ts}}
<1>1. <<>> \in S
  <2>1. <<>> \in Seq(Entries) /\ Range(<<>>) = {}
    BY EmptySeq DEF Range
  <2> QED
    BY <2>1, RowsOfNone
<1>2. ASSUME NEW rows \in Seq(Entries), NEW row \in Entries, rows \in S
      PROVE  Append(rows, row) \in S
  <2> DEFINE old == RowsOf(rows, ts)
             new == RowsOf(Append(rows, row), ts)
  <2>1. old \in Seq(Entries) /\ Range(old) = {e \in Range(rows) : e.turn \in ts}
    BY <1>2
  <2>2. new = Grown(old, row, ts)
    BY RowsOfOneMore
  <2>3. Range(Append(rows, row)) = Range(rows) \cup {row}
    BY RangeOfAppend
  <2> HIDE DEF old, new
  <2>4. Range(Append(old, row)) = Range(old) \cup {row}
    BY <2>1, RangeOfAppend
  <2>5. new \in Seq(Entries) /\ Range(new) = {e \in Range(Append(rows, row)) : e.turn \in ts}
    BY <2>1, <2>2, <2>3, <2>4 DEF Grown
  <2> QED
    BY <2>5 DEF new
<1> HIDE DEF S
<1>3. \A rows \in Seq(Entries) : rows \in S
  BY <1>1, <1>2, RowInduction
<1> QED
  BY <1>3 DEF S

\* ... and what is left of one turn's rows when only those of the turns ts are kept.
LEMMA RowsOfKept ==
    ASSUME NEW ts, NEW t
    PROVE  \A rows \in Seq(Entries) :
              RowsOf(RowsOf(rows, ts), {t}) = IF t \in ts THEN RowsOf(rows, {t}) ELSE <<>>
<1> DEFINE S == {rows \in Seq(Entries) :
              RowsOf(RowsOf(rows, ts), {t}) = IF t \in ts THEN RowsOf(rows, {t}) ELSE <<>>}
<1>1. <<>> \in S
  BY EmptySeq, RowsOfNone
<1>2. ASSUME NEW rows \in Seq(Entries), NEW row \in Entries, rows \in S
      PROVE  Append(rows, row) \in S
  <2> DEFINE old == RowsOf(rows, ts)
  <2>1. RowsOf(old, {t}) = IF t \in ts THEN RowsOf(rows, {t}) ELSE <<>>
    BY <1>2
  <2>2. /\ RowsOf(Append(rows, row), ts) = Grown(old, row, ts)
        /\ RowsOf(Append(rows, row), {t}) = Grown(RowsOf(rows, {t}), row, {t})
    BY RowsOfOneMore
  <2>3. old \in Seq(Entries)
    BY RowsOfType
  <2> HIDE DEF old
  <2>4. RowsOf(Append(old, row), {t}) = Grown(RowsOf(old, {t}), row, {t})
    BY <2>3, RowsOfOneMore
  <2>5. RowsOf(Grown(old, row, ts), {t})
           = IF t \in ts THEN Grown(RowsOf(rows, {t}), row, {t}) ELSE <<>>
    BY <2>1, <2>4 DEF Grown
  <2> QED
    BY <2>2, <2>5
<1> HIDE DEF S
<1>3. \A rows \in Seq(Entries) : rows \in S
  BY <1>1, <1>2, RowInduction
<1> QED
  BY <1>3 DEF S
-----------------------------------------------------------------------------
(* The invariant.                                                          *)

\* The invariant holds at first.
LEMMA Start == Init => IInv
<1> SUFFICES ASSUME Init PROVE IInv
  OBVIOUS
<1> USE DEF Init
<1>1. Typed
  <2>1. reports \in Seq(ReportRows)
    BY EmptySeq
  <2>2. text \in [Turns -> SUBSET RuleIntents]
    OBVIOUS
  <2> QED
    BY <2>1, <2>2 DEF Typed
<1>2. reports = <<>> /\ DOMAIN reports = {}
  OBVIOUS
<1>3. AdviceStops /\ AdviceIsRefused /\ TenantsApart /\ ContextsHold
  <2>1. \A t \in Turns : DOMAIN transcript[t] = {} /\ pc[t] = "new" /\ t \notin audit
    OBVIOUS
  <2> QED
    BY <2>1, <1>2 DEF AdviceStops, AdviceIsRefused, TenantsApart, ContextsHold
<1>4. OnlyPayersArePro /\ FlightsFinite /\ ChatRunsMetered
  <2>1. \A u \in Users : {i \in DOMAIN reports : reports[i].owner = u} = {} /\ InFlight(u) = {}
    BY <1>2 DEF InFlight
  <2>2. RunLimit \in Nat
    BY ConciergeConstants
  <2>3. OnlyPayersArePro
    BY DEF OnlyPayersArePro
  <2>4. FlightsFinite
    BY <2>1, FS_EmptySet DEF FlightsFinite
  <2>5. ASSUME NEW u \in Users PROVE used[u] = 0 /\ lost[u] = 0
    OBVIOUS
  <2>6. ChatRunsMetered
    <3> HIDE DEF Init
    <3> QED
      BY <2>1, <2>2, <2>5, FS_EmptySet DEF ChatRunsMetered
  <2> QED
    BY <2>3, <2>4, <2>6
<1>5. TypedRows
  <2>1. <<>> \in Seq(Entries)
    BY EmptySeq
  <2> QED
    BY <2>1, ConciergeConstants DEF TypedRows
<1>6. TurnsKept
  <2> SUFFICES ASSUME NEW t \in Turns PROVE Recorded(t) /\ Shown(t)
    BY DEF TurnsKept
  <2>1. /\ pc[t] = "new" /\ t \notin stored /\ transcript[t] = <<>>
        /\ \A c \in Conversations : RowsOf(log[c], {t}) = <<>>
    BY RowsOfNone
  <2>2. Range(transcript[t]) = {}
    BY <2>1 DEF Range
  <2>3. Recorded(t)
    BY <2>1 DEF Recorded, Own, Working
  <2> QED
    BY <2>2, <2>3 DEF Shown
<1> QED
  BY <1>1, <1>3, <1>4, <1>5, <1>6 DEF IInv

\* What the tools own, what they rely on and the plans change in one action each.
LEMMA Books ==
    ASSUME [Next]_vars
    PROVE  /\ text' = text
           /\ UNCHANGED reports \/ \E t \in Turns : CreateReport(t)
           /\ UNCHANGED used \/ \E t \in Turns : Draw(t)
           /\ UNCHANGED acting \/ \E t \in Turns : CallTrigger(t)
           /\ UNCHANGED seen \/ \E t \in Turns : ReadReports(t)
           /\ UNCHANGED transcript \/ \E t \in Turns : Think(t)
           /\ UNCHANGED target \/ \E t \in Turns : Request(t)
           /\ UNCHANGED audit \/ \E t \in Turns : Refuse(t)
           /\ UNCHANGED plan \/ \E u \in Users : ChangePlan(u)
<1> USE DEF given, chat, turn, tools, research
<1>1. CASE UNCHANGED vars
  BY <1>1 DEF vars
<1>2. CASE \E c \in Conversations : Create(c) \/ CommitConversation(c)
  BY <1>2 DEF Create, CommitConversation
<1>3. CASE \E t \in Turns : Request(t) \/ Calls(t) \/ Disconnect(t)
  BY <1>3 DEF Request, Calls, ReadReports, CallTrigger, Draw, OverQuota, CreateReport, Launch, ToolFails, Disconnect
<1>4. CASE \E t \in Turns : Progress(t)
  BY <1>4 DEF Progress, Open, Starve, Classify, Refuse, Think, Answer, TurnFails
<1>5. CASE \E u \in Users : ChangePlan(u)
  BY <1>5 DEF ChangePlan
<1>6. CASE Crash
  BY <1>6 DEF Crash
<1> QED
  BY <1>1, <1>2, <1>3, <1>4, <1>5, <1>6 DEF Next

\* The places a step may take a turn to.
LEMMA Moves ==
    ASSUME [Next]_vars, pc \in [Turns -> {"new"} \cup Working \cup Ended]
    PROVE  /\ pc' \in [Turns -> {"new"} \cup Working \cup Ended]
           /\ \A t \in Turns :
                 \/ pc'[t] = pc[t]
                 \/ pc'[t] \in {"notfound", "accepted"} /\ pc[t] = "new"
                 \/ pc'[t] \in {"opened", "errored", "cut"} /\ pc[t] \notin Ended
                 \/ Classify(t) /\ pc[t] = "opened" /\ pc'[t] \in {"refusing", "routed"}
                 \/ Refuse(t) /\ pc[t] = "refusing" /\ pc'[t] = "refused"
                 \/ pc[t] = "routed" /\ pc'[t] = "agent" /\ Think(t)
                 \/ pc[t] \in Agent /\ pc'[t] \in Agent
                 \/ pc[t] = "agent" /\ pc'[t] = "answered" /\ Answer(t)
<1> USE DEF Goto, Working, Ended
<1>1. CASE UNCHANGED vars
  BY <1>1 DEF vars
<1>2. CASE \E c \in Conversations : Create(c) \/ CommitConversation(c)
  BY <1>2 DEF Create, CommitConversation
<1>3. CASE \E t \in Turns : Request(t) \/ Calls(t) \/ Disconnect(t)
  <2>1. CASE \E t \in Turns : Request(t)
    BY <2>1 DEF Request
  <2>2. CASE \E t \in Turns : Calls(t)
    BY <2>2 DEF Calls, ReadReports, CallTrigger, Draw, OverQuota, CreateReport, Launch, ToolFails
  <2>3. CASE \E t \in Turns : Disconnect(t)
    BY <2>3 DEF Disconnect
  <2> QED
    BY <1>3, <2>1, <2>2, <2>3
<1>4. CASE \E t \in Turns : Progress(t)
  <2> PICK t \in Turns : Progress(t)
    BY <1>4
  <2>1. CASE Open(t) \/ Starve(t)
    BY <2>1 DEF Open, Starve
  <2>2. CASE Classify(t)
    <3>1. pc[t] = "opened" /\ \E to \in {"refusing", "routed"} : pc' = [pc EXCEPT ![t] = to]
      BY <2>2 DEF Classify
    <3> QED
      BY <3>1, <2>2
  <2>3. CASE Refuse(t)
    <3>1. pc[t] = "refusing" /\ pc' = [pc EXCEPT ![t] = "refused"]
      BY <2>3 DEF Refuse
    <3> QED
      BY <3>1, <2>3
  <2>4. CASE Think(t) \/ Answer(t)
    <3>1. \/ pc[t] = "routed" /\ pc' = [pc EXCEPT ![t] = "agent"]
          \/ pc[t] = "agent" /\ pc' = [pc EXCEPT ![t] = "answered"]
      BY <2>4 DEF Think, Answer
    <3>2. Think(t) => pc[t] = "routed" /\ pc'[t] = "agent"
      BY DEF Think
    <3>3. Answer(t) => pc[t] = "agent" /\ pc'[t] = "answered"
      BY DEF Answer
    <3> QED
      BY <3>1, <3>2, <3>3, <2>4
  <2>5. CASE TurnFails(t)
    BY <2>5 DEF TurnFails
  <2> QED
    BY <2>1, <2>2, <2>3, <2>4, <2>5 DEF Progress
<1>5. CASE \E u \in Users : ChangePlan(u)
  BY <1>5 DEF ChangePlan
<1>6. CASE Crash
  BY <1>6 DEF Crash
<1> QED
  BY <1>1, <1>2, <1>3, <1>4, <1>5, <1>6 DEF Next

\* A turn comes into a call of trigger_research by making it.
LEMMA Away ==
    ASSUME [Next]_vars, pc \in [Turns -> {"new"} \cup Working \cup Ended],
           NEW t \in Turns, pc'[t] \in Agent \ {"agent"}
    PROVE  pc[t] \in Agent \ {"agent"} \/ CallTrigger(t)
<1> SUFFICES ASSUME pc[t] = "agent" PROVE CallTrigger(t)
  BY Moves
<1> USE DEF Goto, Working, Ended
<1>1. CASE UNCHANGED vars
  BY <1>1 DEF vars
<1>2. CASE (\E c \in Conversations : Create(c) \/ CommitConversation(c)) \/ \E u \in Users : ChangePlan(u)
  BY <1>2 DEF Create, CommitConversation, ChangePlan
<1>3. CASE \E s \in Turns : Request(s) \/ Disconnect(s)
  BY <1>3 DEF Request, Disconnect
<1>4. CASE \E s \in Turns : Calls(s)
  BY <1>4 DEF Calls, ReadReports, CallTrigger, Draw, OverQuota, CreateReport, Launch, ToolFails
<1>5. CASE \E s \in Turns : Progress(s)
  BY <1>5 DEF Progress, Open, Starve, Classify, Refuse, Think, Answer, TurnFails
<1>6. CASE Crash
  BY <1>6 DEF Crash
<1> QED
  BY <1>1, <1>2, <1>3, <1>4, <1>5, <1>6 DEF Next

\* How a step may leave the contexts.
LEMMA Contexts ==
    ASSUME [Next]_vars, Typed
    PROVE  /\ context' \in [Turns -> Users \cup {None}]
           /\ ContextsHold => ContextsHold'
<1> USE ConciergeConstants DEF Typed, ContextsHold, Goto, Working, Ended
<1>1. ASSUME UNCHANGED <<pc, context>>
      PROVE  context' \in [Turns -> Users \cup {None}] /\ (ContextsHold => ContextsHold')
  BY <1>1
<1>2. ASSUME NEW t \in Turns, Request(t) \/ Open(t) \/ Starve(t) \/ Classify(t) \/ Refuse(t) \/ Calls(t)
      PROVE  context' \in [Turns -> Users \cup {None}] /\ (ContextsHold => ContextsHold')
  <2>1. /\ context' = context
        /\ \/ pc' = pc
           \/ \E to \in {"accepted", "notfound", "opened", "cut", "refusing", "routed", "refused"} :
                 pc[t] \notin Agent /\ pc' = [pc EXCEPT ![t] = to]
           \/ \E to \in Agent : pc[t] \in Agent /\ pc' = [pc EXCEPT ![t] = to]
    <3>1. CASE Request(t)
      BY <3>1 DEF Request, tools
    <3>2. CASE Open(t) \/ Starve(t) \/ Refuse(t)
      BY <3>2 DEF Open, Starve, Refuse, tools
    <3>3. CASE Classify(t)
      BY <3>3 DEF Classify, tools
    <3>4. CASE Calls(t)
      BY <3>4 DEF Calls, ReadReports, CallTrigger, Draw, OverQuota, CreateReport, Launch, ToolFails, tools
    <3> QED
      BY <1>2, <3>1, <3>2, <3>3, <3>4
  <2> QED
    BY <2>1
<1>3. ASSUME NEW t \in Turns, Think(t)
      PROVE  context' \in [Turns -> Users \cup {None}] /\ (ContextsHold => ContextsHold')
  <2>1. pc' = [pc EXCEPT ![t] = "agent"] /\ context' = [context EXCEPT ![t] = Caller[t]]
    BY <1>3 DEF Think, ContextOf
  <2> QED
    BY <2>1
<1>4. ASSUME NEW t \in Turns, Answer(t) \/ TurnFails(t) \/ Disconnect(t)
      PROVE  context' \in [Turns -> Users \cup {None}] /\ (ContextsHold => ContextsHold')
  <2>1. /\ \E to \in {"answered", "errored", "cut"} : pc' = [pc EXCEPT ![t] = to]
        /\ context' = IF pc[t] \in Agent THEN [context EXCEPT ![t] = None] ELSE context
    BY <1>4 DEF Answer, TurnFails, Disconnect, Reset, ContextOf
  <2> QED
    BY <2>1
<1>5. ASSUME Crash
      PROVE  context' \in [Turns -> Users \cup {None}] /\ (ContextsHold => ContextsHold')
  BY <1>5 DEF Crash
<1>6. CASE UNCHANGED vars \/ (\E c \in Conversations : Create(c) \/ CommitConversation(c)) \/ \E u \in Users : ChangePlan(u)
  BY <1>1, <1>6 DEF vars, Create, CommitConversation, ChangePlan, tools
<1> QED
  BY <1>2, <1>3, <1>4, <1>5, <1>6 DEF Next, Progress

\* What becomes of the calls between the two commits: one more with a draw, one less
\* with a report's row, and else the reservation is lost with the call.
Loss == /\ lost' \in [Users -> Nat]
        /\ \A u \in Users : IsFiniteSet(InFlight(u)')
        /\ \/ \E t \in Turns : /\ Draw(t) /\ UNCHANGED <<reports, lost>>
                               /\ \A u \in Users : Cardinality(InFlight(u)')
                                     = Cardinality(InFlight(u)) + (IF acting[t] = u THEN 1 ELSE 0)
           \/ \E t \in Turns : /\ CreateReport(t) /\ UNCHANGED <<used, lost>>
                               /\ \A u \in Users : Cardinality(InFlight(u)')
                                     = Cardinality(InFlight(u)) - (IF acting[t] = u THEN 1 ELSE 0)
           \/ /\ UNCHANGED <<reports, used>>
              /\ \A u \in Users : Cardinality(InFlight(u)') + lost'[u] = Cardinality(InFlight(u)) + lost[u]

\* One turn that moves.
LEMMA FlightMoves ==
    ASSUME Typed, NEW u, NEW t \in Turns, NEW to, pc' = [pc EXCEPT ![t] = to],
           UNCHANGED acting \/ (pc[t] # "drawn" /\ to # "drawn" /\ \E v : acting' = [acting EXCEPT ![t] = v])
    PROVE  InFlight(u)' = IF to = "drawn" /\ acting[t] = u THEN InFlight(u) \cup {t} ELSE InFlight(u) \ {t}
  BY DEF InFlight, Typed

\* Every step accounts for them.
LEMMA LossNext ==
    ASSUME Typed, TenantsApart, FlightsFinite, [Next]_vars
    PROVE  Loss
<1> USE ConciergeConstants DEF Typed, Goto
<1>1. /\ \A u \in Users : IsFiniteSet(InFlight(u)) /\ Cardinality(InFlight(u)) \in Nat /\ lost[u] \in Nat
      /\ \A t \in Turns : pc[t] \in Agent \ {"agent"} => acting[t] \in Users
  BY FS_CardinalityType DEF FlightsFinite, TenantsApart
<1>2. ASSUME NEW t \in Turns, Draw(t) PROVE Loss
  <2>1. /\ pc[t] = "drawing" /\ pc' = [pc EXCEPT ![t] = "drawn"]
        /\ UNCHANGED <<acting, reports, lost>>
    BY <1>2 DEF Draw, tools
  <2>2. \A u \in Users : /\ t \notin InFlight(u)
                         /\ acting[t] = u => InFlight(u)' = InFlight(u) \cup {t}
                         /\ acting[t] # u => InFlight(u)' = InFlight(u)
    BY <2>1 DEF InFlight
  <2>3. ASSUME NEW u \in Users
        PROVE  /\ IsFiniteSet(InFlight(u)')
               /\ Cardinality(InFlight(u)') = Cardinality(InFlight(u)) + (IF acting[t] = u THEN 1 ELSE 0)
    <3>1. CASE acting[t] = u
      <4>1. InFlight(u)' = InFlight(u) \cup {t} /\ t \notin InFlight(u) /\ IsFiniteSet(InFlight(u))
        BY <3>1, <2>2, <1>1
      <4>2. /\ IsFiniteSet(InFlight(u) \cup {t})
            /\ Cardinality(InFlight(u) \cup {t}) = Cardinality(InFlight(u)) + 1
        BY <4>1, FS_AddElement
      <4> QED
        BY <4>1, <4>2, <3>1
    <3>2. CASE acting[t] # u
      <4>1. InFlight(u)' = InFlight(u)
        BY <3>2, <2>2
      <4> QED
        BY <4>1, <3>2, <1>1
    <3> QED
      BY <3>1, <3>2
  <2> QED
    BY <2>1, <2>3, <1>2 DEF Loss
<1>3. ASSUME NEW t \in Turns, CreateReport(t) PROVE Loss
  <2>1. /\ pc[t] = "drawn" /\ pc' = [pc EXCEPT ![t] = "starting"]
        /\ UNCHANGED <<acting, used, lost>>
    BY <1>3 DEF CreateReport, tools
  <2>2. \A u \in Users : /\ InFlight(u)' = InFlight(u) \ {t}
                         /\ t \in InFlight(u) <=> acting[t] = u
    BY <2>1, FlightMoves DEF InFlight
  <2>3. ASSUME NEW u \in Users
        PROVE  /\ IsFiniteSet(InFlight(u)')
               /\ Cardinality(InFlight(u)') = Cardinality(InFlight(u)) - (IF acting[t] = u THEN 1 ELSE 0)
    BY <2>2, <1>1, FS_RemoveElement
  <2> QED
    BY <2>1, <2>3, <1>3 DEF Loss
<1>4. ASSUME NEW t \in Turns, ToolFails(t) \/ TurnFails(t) \/ Disconnect(t) PROVE Loss
  <2>1. /\ \E to \in {"agent", "errored", "cut"} : pc' = [pc EXCEPT ![t] = to]
        /\ lost' = IF pc[t] = "drawn" THEN [lost EXCEPT ![acting[t]] = @ + 1] ELSE lost
        /\ UNCHANGED <<acting, reports, used>>
    BY <1>4 DEF ToolFails, TurnFails, Disconnect, Lose, tools
  <2>2. \A u \in Users : /\ InFlight(u)' = InFlight(u) \ {t}
                         /\ t \in InFlight(u) <=> pc[t] = "drawn" /\ acting[t] = u
    BY <2>1, FlightMoves DEF InFlight
  <2>3. ASSUME NEW u \in Users
        PROVE  /\ IsFiniteSet(InFlight(u)')
               /\ Cardinality(InFlight(u)')
                     = Cardinality(InFlight(u)) - (IF t \in InFlight(u) THEN 1 ELSE 0)
    BY <2>2, <1>1, FS_RemoveElement
  <2>4. pc[t] = "drawn" => acting[t] \in Users
    BY <1>1
  <2>5. /\ lost' \in [Users -> Nat]
        /\ \A u \in Users : lost'[u] = lost[u] + (IF t \in InFlight(u) THEN 1 ELSE 0)
    BY <2>1, <2>2, <2>4
  <2>6. ASSUME NEW u \in Users
        PROVE  Cardinality(InFlight(u)') + lost'[u] = Cardinality(InFlight(u)) + lost[u]
    <3>1. /\ Cardinality(InFlight(u)') = Cardinality(InFlight(u)) - (IF t \in InFlight(u) THEN 1 ELSE 0)
          /\ lost'[u] = lost[u] + (IF t \in InFlight(u) THEN 1 ELSE 0)
          /\ Cardinality(InFlight(u)) \in Nat /\ lost[u] \in Nat
      BY <2>3, <2>5, <1>1
    <3> DEFINE n == Cardinality(InFlight(u))
               o == Cardinality(InFlight(u)')
    <3> HIDE DEF n, o
    <3>2. n + lost[u] = o + lost'[u]
      BY <3>1 DEF n, o
    <3> QED
      BY <3>2 DEF n, o
  <2> QED
    BY <2>1, <2>3, <2>5, <2>6 DEF Loss
<1>5. ASSUME Crash PROVE Loss
  <2>1. /\ \A t \in Turns : pc'[t] # "drawn"
        /\ lost' = [u \in Users |-> lost[u] + Cardinality(InFlight(u))]
        /\ UNCHANGED <<reports, used>>
    BY <1>5 DEF Crash, Working
  <2>2. \A u \in Users : InFlight(u)' = {}
    BY <2>1 DEF InFlight
  <2>3. \A u \in Users : IsFiniteSet(InFlight(u)') /\ Cardinality(InFlight(u)') = 0
    BY <2>2, FS_EmptySet
  <2>4. lost' \in [Users -> Nat]
    BY <2>1, <1>1
  <2>5. \A u \in Users : Cardinality(InFlight(u)') + lost'[u] = Cardinality(InFlight(u)) + lost[u]
    BY <2>1, <2>3, <1>1
  <2> QED
    BY <2>1, <2>3, <2>4, <2>5 DEF Loss
<1>6. ASSUME UNCHANGED <<reports, used, lost>>, \A u \in Users : InFlight(u)' = InFlight(u) PROVE Loss
  BY <1>6, <1>1 DEF Loss
<1>7. ASSUME NEW t \in Turns,
             \/ Request(t) \/ Open(t) \/ Starve(t) \/ Classify(t) \/ Refuse(t) \/ Think(t) \/ Answer(t)
             \/ ReadReports(t) \/ CallTrigger(t) \/ OverQuota(t) \/ Launch(t)
      PROVE  Loss
  <2>1. UNCHANGED <<reports, used, lost>>
    BY <1>7 DEF Request, Open, Starve, Classify, Refuse, Think, Answer, ReadReports, CallTrigger,
                OverQuota, Launch, research
  <2>2. \/ UNCHANGED <<pc, acting>>
        \/ /\ \E to : pc[t] # "drawn" /\ to # "drawn" /\ pc' = [pc EXCEPT ![t] = to]
           /\ UNCHANGED acting \/ \E v : acting' = [acting EXCEPT ![t] = v]
    <3>1. CASE Request(t)
      BY <3>1 DEF Request, tools
    <3>2. CASE Open(t) \/ Starve(t) \/ Refuse(t)
      BY <3>2 DEF Open, Starve, Refuse, tools
    <3>3. CASE Classify(t)
      BY <3>3 DEF Classify, tools
    <3>4. CASE Think(t) \/ Answer(t)
      BY <3>4 DEF Think, Answer
    <3>5. CASE ReadReports(t) \/ CallTrigger(t) \/ OverQuota(t) \/ Launch(t)
      BY <3>5 DEF ReadReports, CallTrigger, OverQuota, Launch, tools
    <3> QED
      BY <1>7, <3>1, <3>2, <3>3, <3>4, <3>5
  <2>3. \A u \in Users : InFlight(u)' = InFlight(u)
    <3>1. CASE UNCHANGED <<pc, acting>>
      BY <3>1 DEF InFlight
    <3>2. CASE /\ \E to : pc[t] # "drawn" /\ to # "drawn" /\ pc' = [pc EXCEPT ![t] = to]
               /\ UNCHANGED acting \/ \E v : acting' = [acting EXCEPT ![t] = v]
      BY <3>2 DEF InFlight
    <3> QED
      BY <2>2, <3>1, <3>2
  <2> QED
    BY <2>1, <2>3, <1>6
<1>8. CASE UNCHANGED vars \/ (\E c \in Conversations : Create(c) \/ CommitConversation(c)) \/ \E u \in Users : ChangePlan(u)
  <2>1. UNCHANGED <<pc, acting, reports, used, lost>>
    BY <1>8 DEF vars, Create, CommitConversation, ChangePlan, tools, research
  <2>2. \A u \in Users : InFlight(u)' = InFlight(u)
    BY <2>1 DEF InFlight
  <2> QED
    BY <2>1, <2>2, <1>6
<1> QED
  BY <1>2, <1>3, <1>4, <1>5, <1>7, <1>8 DEF Next, Progress, Calls

\* Every step keeps the types.
LEMMA TypedNext == Typed /\ TenantsApart /\ FlightsFinite /\ [Next]_vars => Typed'
<1> SUFFICES ASSUME Typed, TenantsApart, FlightsFinite, [Next]_vars PROVE Typed'
  OBVIOUS
<1> USE ConciergeConstants DEF Typed
<1>1. pc' \in [Turns -> {"new"} \cup Working \cup Ended]
  BY Moves
<1>2. target' \in [Turns -> Conversations \cup {"none"}]
  <2>1. ASSUME NEW t \in Turns, Request(t) PROVE target' \in [Turns -> Conversations \cup {"none"}]
    <3>1. target' = target \/ \E c \in Conversations : target' = [target EXCEPT ![t] = c]
      BY <2>1 DEF Request
    <3> QED
      BY <3>1
  <2> QED
    BY <2>1, Books
<1>3. DOMAIN transcript' = Turns
  BY Books DEF Think
<1>4. seen' \in [Turns -> SUBSET Users]
  <2>1. CASE \E t \in Turns : ReadReports(t)
    <3> PICK t \in Turns : ReadReports(t)
      BY <2>1
    <3>1. {r.owner : r \in {q \in Range(reports) : q.owner = ToolUser(t)}} \subseteq Users
      BY DEF ReadReports, ToolUser, ContextOf
    <3> QED
      BY <3>1 DEF ReadReports
  <2> QED
    BY <2>1, Books
<1>5. reports' \in Seq(ReportRows) /\ used' \in [Users -> Nat]
  <2>1. \A t \in Turns : pc[t] \in Agent \ {"agent"} => acting[t] \in Users
    BY DEF TenantsApart
  <2>2. reports' \in Seq(ReportRows)
    <3>1. ASSUME NEW t \in Turns, CreateReport(t) PROVE reports' \in Seq(ReportRows)
      <4>1. [owner |-> acting[t], turn |-> t] \in ReportRows
        BY <2>1, <3>1 DEF CreateReport, Goto, ReportRows
      <4> QED
        BY <3>1, <4>1 DEF CreateReport
    <3> QED
      BY <3>1, Books
  <2>3. used' \in [Users -> Nat]
    BY <2>1, Books DEF Draw, Goto
  <2> QED
    BY <2>2, <2>3
<1>5a. context' \in [Turns -> Users \cup {None}] /\ acting' \in [Turns -> Users \cup {None}]
  <2>1. context' \in [Turns -> Users \cup {None}]
    BY Contexts
  <2>2. acting' \in [Turns -> Users \cup {None}]
    BY Books DEF CallTrigger, ToolUser, ContextOf
  <2> QED
    BY <2>1, <2>2
<1>5b. lost' \in [Users -> Nat]
  BY LossNext DEF Loss
<1>6. plan' \in [Users -> {"free", "pro"}] /\ text' \in [Turns -> SUBSET RuleIntents]
  <2>1. plan' \in [Users -> {"free", "pro"}]
    BY Books DEF ChangePlan
  <2> QED
    BY <2>1, Books
<1> QED
  BY <1>1, <1>2, <1>3, <1>4, <1>5, <1>5a, <1>5b, <1>6

\* What AdviceIsRefused says of a turn: of its own question ...
AdviceAlone(t) ==
    /\ "advice_request" \in text[t] =>
          /\ transcript[t] = <<>> /\ seen[t] = {}
          /\ \A i \in DOMAIN reports : reports[i].turn # t
    /\ t \in audit <=> pc[t] = "refused"

\* ... and of the questions its agent is shown.
RefusedFirst(t) ==
    \A k \in DOMAIN transcript[t] :
        "advice_request" \in text[transcript[t][k].turn] =>
            /\ transcript[t][k].turn \in audit
            /\ \E j \in k .. Len(transcript[t]) :
                  transcript[t][j] = Entry(transcript[t][k].turn, "assistant")

\* The two parts.
LEMMA AdviceParts == AdviceIsRefused <=> \A t \in Turns : AdviceAlone(t) /\ RefusedFirst(t)
  BY DEF AdviceIsRefused, AdviceAlone, RefusedFirst

\* Every step keeps a question about advice from its own turn's agent.
LEMMA AdviceNext ==
    Typed /\ AdviceStops /\ AdviceIsRefused /\ [Next]_vars
        => AdviceStops' /\ \A t \in Turns : AdviceAlone(t)'
<1> SUFFICES ASSUME Typed, AdviceStops, AdviceIsRefused, [Next]_vars
             PROVE  AdviceStops' /\ \A t \in Turns : AdviceAlone(t)'
  OBVIOUS
<1>0. \A t \in Turns : AdviceAlone(t)
  BY AdviceParts
<1>1. AdviceStops'
  <2> SUFFICES ASSUME NEW t \in Turns, "advice_request" \in text[t]
               PROVE  pc'[t] \notin {"routed", "answered"} \cup Agent
    BY Books DEF AdviceStops
  <2>1. Classify(t) => pc'[t] = "refusing"
    <3>1. RuleIntent(t) = "advice_request"
      BY AdviceFirst
    <3> QED
      BY <3>1 DEF Classify, Goto, Typed
  <2>2. pc[t] \notin {"routed", "answered"} \cup Agent
    BY DEF AdviceStops
  <2> QED
    BY <2>1, <2>2, Moves DEF Typed
<1>2. ASSUME NEW t \in Turns, "advice_request" \in text'[t]
      PROVE  /\ transcript'[t] = <<>> /\ seen'[t] = {}
             /\ \A i \in DOMAIN reports' : reports'[i].turn # t
  <2>1. /\ "advice_request" \in text[t]
        /\ transcript[t] = <<>> /\ seen[t] = {}
        /\ \A i \in DOMAIN reports : reports[i].turn # t
    BY <1>0, <1>2, Books DEF AdviceAlone
  <2>2. pc[t] \notin {"routed", "answered"} \cup Agent
    BY <2>1 DEF AdviceStops
  <2>3. transcript'[t] = <<>>
    <3>1. ASSUME NEW s \in Turns, Think(s) PROVE transcript'[t] = transcript[t]
      <4>1. s # t
        BY <3>1, <2>2 DEF Think, Goto
      <4> QED
        BY <3>1, <4>1 DEF Think, Typed
    <3> QED
      BY <3>1, <2>1, Books
  <2>4. seen'[t] = {}
    <3>1. ASSUME NEW s \in Turns, ReadReports(s) PROVE seen'[t] = seen[t]
      <4>1. s # t
        BY <3>1, <2>2 DEF ReadReports
      <4> QED
        BY <3>1, <4>1 DEF ReadReports, Typed
    <3> QED
      BY <3>1, <2>1, Books
  <2>5. \A i \in DOMAIN reports' : reports'[i].turn # t
    <3>1. ASSUME NEW s \in Turns, CreateReport(s)
          PROVE  \A i \in DOMAIN reports' : reports'[i].turn # t
      <4>1. s # t
        BY <3>1, <2>2 DEF CreateReport, Goto
      <4>2. reports' = Append(reports, [owner |-> acting[s], turn |-> s])
        BY <3>1 DEF CreateReport
      <4> QED
        BY <4>1, <4>2, <2>1 DEF Typed
    <3> QED
      BY <3>1, <2>1, Books
  <2> QED
    BY <2>3, <2>4, <2>5
<1>3. ASSUME NEW t \in Turns PROVE t \in audit' <=> pc'[t] = "refused"
  <2>1. t \in audit <=> pc[t] = "refused"
    BY <1>0 DEF AdviceAlone
  <2>2. ASSUME NEW s \in Turns, Refuse(s)
        PROVE  t \in audit' <=> pc'[t] = "refused"
    BY <2>1, <2>2 DEF Refuse, Goto, Typed
  <2>3. CASE UNCHANGED audit /\ ~Refuse(t)
    <3>1. pc'[t] = "refused" <=> pc[t] = "refused"
      BY <2>3, Moves DEF Typed, Ended
    <3> QED
      BY <3>1, <2>1, <2>3
  <2> QED
    BY <2>2, <2>3, Books
<1> QED
  BY <1>1, <1>2, <1>3 DEF AdviceAlone

\* Every step keeps the turns apart.
LEMMA TenantsNext == Typed /\ ContextsHold /\ TenantsApart /\ [Next]_vars => TenantsApart'
<1> SUFFICES ASSUME Typed, ContextsHold, TenantsApart, [Next]_vars, NEW t \in Turns
             PROVE  /\ target'[t] # "none" => Owner[target'[t]] = Caller[t]
                    /\ seen'[t] \subseteq {Caller[t]}
                    /\ pc'[t] \in Agent \ {"agent"} => acting'[t] = Caller[t]
                    /\ \A i \in DOMAIN reports' :
                          reports'[i].turn = t => reports'[i].owner = Caller[t]
  BY DEF TenantsApart
<1>1. /\ target[t] # "none" => Owner[target[t]] = Caller[t]
      /\ seen[t] \subseteq {Caller[t]}
      /\ \A s \in Turns : pc[s] \in Agent \ {"agent"} => acting[s] = Caller[s]
      /\ \A i \in DOMAIN reports : reports[i].turn = t => reports[i].owner = Caller[t]
  BY DEF TenantsApart
<1>1a. \A s \in Turns : pc[s] = "agent" => ToolUser(s) = Caller[s]
  BY DEF ContextsHold, ToolUser, ContextOf
<1>2. target'[t] # "none" => Owner[target'[t]] = Caller[t]
  BY <1>1, Books DEF Request, Accessible, Typed
<1>3. seen'[t] \subseteq {Caller[t]}
  <2>1. ASSUME NEW s \in Turns, ReadReports(s) PROVE seen'[t] \subseteq {Caller[t]}
    <3>1. {r.owner : r \in {q \in Range(reports) : q.owner = ToolUser(s)}} \subseteq {Caller[s]}
      BY <1>1a, <2>1 DEF ReadReports
    <3> QED
      BY <3>1, <2>1, <1>1 DEF ReadReports, Typed
  <2> QED
    BY <2>1, <1>1, Books
<1>3a. pc'[t] \in Agent \ {"agent"} => acting'[t] = Caller[t]
  <2>1. ASSUME NEW s \in Turns, CallTrigger(s) PROVE pc'[t] \in Agent \ {"agent"} => acting'[t] = Caller[t]
    <3>1. pc[s] = "agent" /\ pc' = [pc EXCEPT ![s] = "drawing"] /\ acting' = [acting EXCEPT ![s] = Caller[s]]
      BY <2>1, <1>1a DEF CallTrigger, Goto
    <3> QED
      BY <3>1, <1>1 DEF Typed
  <2>2. ASSUME UNCHANGED acting, pc'[t] \in Agent \ {"agent"}
        PROVE  pc[t] \in Agent \ {"agent"} \/ CallTrigger(t)
    BY <2>2, Away DEF Typed
  <2> QED
    BY <2>1, <2>2, <1>1, Books
<1>4. \A i \in DOMAIN reports' : reports'[i].turn = t => reports'[i].owner = Caller[t]
  <2>1. ASSUME NEW s \in Turns, CreateReport(s)
        PROVE  \A i \in DOMAIN reports' : reports'[i].turn = t => reports'[i].owner = Caller[t]
    <3>1. reports' = Append(reports, [owner |-> Caller[s], turn |-> s])
      BY <2>1, <1>1 DEF CreateReport, Goto
    <3> QED
      BY <3>1, <1>1 DEF Typed
  <2> QED
    BY <2>1, <1>1, Books
<1> QED
  BY <1>2, <1>3, <1>3a, <1>4

\* Every step keeps the runs metered.
LEMMA MeterNext ==
    ASSUME Typed, ContextsHold, TenantsApart, OnlyPayersArePro, FlightsFinite, ChatRunsMetered,
           [Next]_vars
    PROVE  OnlyPayersArePro' /\ FlightsFinite' /\ ChatRunsMetered'
<1>0. Loss
  BY LossNext
<1>1. OnlyPayersArePro'
  <2>1. \A u \in Users \ Payers : plan'[u] = "free"
    BY Books DEF OnlyPayersArePro, ChangePlan, Typed
  <2>2. ASSUME NEW t \in Turns, pc'[t] \in Agent \ {"agent"} PROVE acting'[t] \in Payers
    <3>1. ASSUME NEW s \in Turns, CallTrigger(s) PROVE acting'[t] \in Payers
      <4>1. /\ pc[s] = "agent" /\ pc' = [pc EXCEPT ![s] = "drawing"]
            /\ acting' = [acting EXCEPT ![s] = ToolUser(s)]
            /\ ToolUser(s) # None /\ plan[ToolUser(s)] = "pro"
        BY <3>1 DEF CallTrigger, Goto
      <4>2. ToolUser(s) \in Payers
        BY <4>1 DEF OnlyPayersArePro, Typed, ToolUser, ContextOf
      <4> QED
        BY <4>1, <4>2, <2>2 DEF OnlyPayersArePro, Typed
    <3>2. CASE UNCHANGED acting
      <4>1. pc[t] \in Agent \ {"agent"} \/ CallTrigger(t)
        BY <2>2, Away DEF Typed
      <4> QED
        BY <4>1, <3>1, <3>2 DEF OnlyPayersArePro
    <3> QED
      BY <3>1, <3>2, Books
  <2> QED
    BY <2>1, <2>2 DEF OnlyPayersArePro
<1>2. FlightsFinite'
  BY <1>0 DEF Loss, FlightsFinite
<1>3. ASSUME NEW u \in Users
      PROVE  /\ used'[u] = Cardinality(Runs(u)') + Cardinality(InFlight(u)') + lost'[u]
             /\ used'[u] <= IF u \in Payers THEN RunLimit ELSE 0
  <2>1. /\ used[u] = Cardinality(Runs(u)) + Cardinality(InFlight(u)) + lost[u]
        /\ used[u] <= IF u \in Payers THEN RunLimit ELSE 0
        /\ RunLimit \in Nat
    BY ConciergeConstants DEF ChatRunsMetered, Runs
  <2>2. /\ Cardinality(InFlight(u)) \in Nat /\ Cardinality(InFlight(u)') \in Nat
        /\ lost[u] \in Nat /\ lost'[u] \in Nat /\ used[u] \in Nat
    BY <1>0, FS_CardinalityType DEF Loss, FlightsFinite, Typed
  <2>2a. Cardinality(Runs(u)) \in Nat
    <3>1. IsFiniteSet(1 .. Len(reports)) /\ DOMAIN reports = 1 .. Len(reports)
      BY FS_Interval DEF Typed
    <3> QED
      BY <3>1, FS_Subset, FS_CardinalityType DEF Runs
  <2>3. ASSUME NEW t \in Turns, Draw(t), UNCHANGED <<reports, lost>>,
               Cardinality(InFlight(u)') = Cardinality(InFlight(u)) + (IF acting[t] = u THEN 1 ELSE 0)
        PROVE  /\ used'[u] = Cardinality(Runs(u)') + Cardinality(InFlight(u)') + lost'[u]
               /\ used'[u] <= IF u \in Payers THEN RunLimit ELSE 0
    <3>1. /\ pc[t] = "drawing" /\ ~(used[acting[t]] >= RunLimit)
          /\ used' = [used EXCEPT ![acting[t]] = @ + 1]
      BY <2>3 DEF Draw, Goto, Exhausted
    <3>2. acting[t] \in Payers /\ acting[t] \in Users
      BY <3>1, ConciergeConstants DEF OnlyPayersArePro
    <3>3. Runs(u)' = Runs(u) /\ lost'[u] = lost[u]
      BY <2>3 DEF Runs
    <3>4. used'[u] = used[u] + (IF acting[t] = u THEN 1 ELSE 0)
      BY <3>1, <3>2 DEF Typed
    <3>5. acting[t] = u => used[u] < RunLimit /\ u \in Payers
      BY <3>1, <3>2, <2>1, <2>2
    <3> QED
      BY <3>3, <3>4, <3>5, <2>1, <2>2, <2>2a, <2>3
  <2>4. ASSUME NEW t \in Turns, CreateReport(t), UNCHANGED <<used, lost>>,
               Cardinality(InFlight(u)') = Cardinality(InFlight(u)) - (IF acting[t] = u THEN 1 ELSE 0)
        PROVE  /\ used'[u] = Cardinality(Runs(u)') + Cardinality(InFlight(u)') + lost'[u]
               /\ used'[u] <= IF u \in Payers THEN RunLimit ELSE 0
    <3> DEFINE row == [owner |-> acting[t], turn |-> t]
    <3>1. pc[t] = "drawn" /\ reports' = Append(reports, row)
      BY <2>4 DEF CreateReport, Goto
    <3>2. row \in ReportRows /\ row.owner = acting[t]
      BY <3>1, ConciergeConstants DEF TenantsApart, ReportRows
    <3> HIDE DEF row
    <3>3. Cardinality(Runs(u)') = Cardinality(Runs(u)) + (IF u = row.owner THEN 1 ELSE 0)
      BY <3>1, <3>2, OneMoreRun DEF Typed
    <3>4. Cardinality(Runs(u)') + Cardinality(InFlight(u)') = Cardinality(Runs(u)) + Cardinality(InFlight(u))
      BY <3>2, <3>3, <2>2, <2>2a, <2>4
    <3>5. used'[u] = used[u] /\ lost'[u] = lost[u]
      BY <2>4
    <3> QED
      BY <3>4, <3>5, <2>1
  <2>5. ASSUME UNCHANGED <<reports, used>>,
               Cardinality(InFlight(u)') + lost'[u] = Cardinality(InFlight(u)) + lost[u]
        PROVE  /\ used'[u] = Cardinality(Runs(u)') + Cardinality(InFlight(u)') + lost'[u]
               /\ used'[u] <= IF u \in Payers THEN RunLimit ELSE 0
    <3>1. Runs(u)' = Runs(u) /\ used'[u] = used[u]
      BY <2>5 DEF Runs
    <3> QED
      BY <3>1, <2>1, <2>2, <2>2a, <2>5
  <2> QED
    BY <1>0, <2>3, <2>4, <2>5 DEF Loss
<1>4. ChatRunsMetered'
  BY <1>3 DEF ChatRunsMetered, Runs
<1> QED
  BY <1>1, <1>2, <1>4
-----------------------------------------------------------------------------
(* The turns of a conversation.                                            *)

Writes(t) == Refuse(t) \/ Think(t) \/ Answer(t) \/ TurnFails(t) \/ Disconnect(t)

\* A turn's move that leaves no mark in its conversation.
QuietMove(t) ==
    /\ pc[t] \in Agent <=> pc'[t] \in Agent
    /\ pc[t] \in {"answered", "refused"} <=> pc'[t] \in {"answered", "refused"}
    /\ target'[t] = target[t] \/ pc[t] = "new"
    /\ pc'[t] = "new" => pc[t] = "new"
    /\ pc'[t] \in Working /\ pc[t] \notin Working => target'[t] \in Conversations

\* A step crashes, writes rows for one turn, or leaves log and transcripts alone.
LEMMA Quiet ==
    ASSUME Typed, [Next]_vars
    PROVE  \/ Crash \/ \E t \in Turns : Writes(t)
           \/ UNCHANGED <<log, stored, transcript>> /\ \A t \in Turns : QuietMove(t)
<1> USE ConciergeConstants DEF QuietMove, chat, turn, Goto, Working, Ended, Typed
<1>1. CASE UNCHANGED vars
  BY <1>1 DEF vars
<1>2. CASE \E c \in Conversations : Create(c) \/ CommitConversation(c)
  BY <1>2 DEF Create, CommitConversation
<1>3. ASSUME NEW s \in Turns, Request(s)
      PROVE  UNCHANGED <<log, stored, transcript>> /\ \A t \in Turns : QuietMove(t)
  <2>1. UNCHANGED <<log, stored, transcript>>
    BY <1>3 DEF Request
  <2>2. \/ /\ pc[s] = "new" /\ pc' = [pc EXCEPT ![s] = "accepted"]
           /\ \E c \in Conversations : target' = [target EXCEPT ![s] = c]
        \/ pc[s] = "new" /\ pc' = [pc EXCEPT ![s] = "notfound"] /\ UNCHANGED target
    BY <1>3 DEF Request
  <2> QED
    BY <2>1, <2>2
<1>4. ASSUME NEW s \in Turns, Open(s) \/ Starve(s) \/ Classify(s) \/ Calls(s)
      PROVE  UNCHANGED <<log, stored, transcript>> /\ \A t \in Turns : QuietMove(t)
  <2> USE DEF ReadReports, CallTrigger, Draw, OverQuota, CreateReport, Launch, ToolFails
  <2>1. UNCHANGED <<log, stored, transcript, target>>
    BY <1>4 DEF Open, Starve, Classify, Calls
  <2>2. \/ pc' = pc
        \/ \E to \in {"opened", "cut"} :
              pc[s] \in {"new", "accepted"} /\ pc' = [pc EXCEPT ![s] = to] /\ (to = "opened" => pc[s] = "accepted")
        \/ \E to \in {"refusing", "routed"} : pc[s] = "opened" /\ pc' = [pc EXCEPT ![s] = to]
        \/ \E to \in Agent : pc[s] \in Agent /\ pc' = [pc EXCEPT ![s] = to]
    BY <1>4 DEF Open, Starve, Classify, Calls
  <2> QED
    BY <2>1, <2>2
<1>5. CASE \E u \in Users : ChangePlan(u)
  BY <1>5 DEF ChangePlan
<1> QED
  BY <1>1, <1>2, <1>3, <1>4, <1>5 DEF Next, Progress, Writes

\* A row more, and the two rows of a refusal.
Longer(new, rows, row) ==
    /\ new \in Seq(Entries)
    /\ \A ts : RowsOf(new, ts) = Grown(RowsOf(rows, ts), row, ts)
    /\ Range(new) = Range(rows) \cup {row}

\* A log that grew by one row ...
LEMMA OneRow ==
    ASSUME NEW rows \in Seq(Entries), NEW row \in Entries, NEW new, new = Append(rows, row)
    PROVE  Longer(new, rows, row)
<1>1. new \in Seq(Entries)
  OBVIOUS
<1>2. \A ts : RowsOf(new, ts) = Grown(RowsOf(rows, ts), row, ts)
  BY RowsOfOneMore
<1>3. Range(new) = Range(rows) \cup {row}
  BY RangeOfAppend
<1> QED
  BY <1>1, <1>2, <1>3 DEF Longer

\* Appending one by one is writing both at once.
LEMMA Pairs ==
    ASSUME NEW x, NEW y
    PROVE  Append(<<>>, x) = <<x>> /\ Append(<<x>>, y) = <<x, y>>
<1> DEFINE T    == {x, y}
           one  == <<x>>
           more == Append(one, y)
           two  == <<x, y>>
<1>1. /\ one \in Seq(T) /\ Len(one) = 1 /\ one[1] = x /\ y \in T
      /\ two \in Seq(T) /\ Len(two) = 2 /\ two[1] = x /\ two[2] = y
  OBVIOUS
<1>2. more = Append(one, y)
  OBVIOUS
<1> HIDE DEF T, one, more, two
<1>3. /\ more \in Seq(T) /\ Len(more) = Len(one) + 1
      /\ \A i \in 1 .. Len(one) : more[i] = one[i]
      /\ more[Len(one) + 1] = y
  <2> HIDE DEF Agent
  <2>1. one \in Seq(T) /\ y \in T
    BY <1>1
  <2> QED
    BY <2>1, <1>2, AppendProperties
<1>4. 1 \in 1 .. Len(one) /\ Len(one) + 1 = 2
  BY <1>1
<1>5. more = two
  BY <1>1, <1>3, <1>4, SeqEqual
<1>6. Append(<<>>, x) = <<x>>
  OBVIOUS
<1> QED
  BY <1>5, <1>6 DEF more, one, two

\* ... or by the question and the answer of one turn.
LEMMA TwoRows ==
    ASSUME NEW rows \in Seq(Entries), NEW s \in Turns, RowsOf(rows, {s}) = <<>>,
           NEW new, new = rows \o <<Entry(s, "user"), Entry(s, "assistant")>>
    PROVE  /\ new \in Seq(Entries)
           /\ RowsOf(new, {s}) = <<Entry(s, "user"), Entry(s, "assistant")>>
           /\ \A t \in Turns \ {s} : RowsOf(new, {t}) = RowsOf(rows, {t})
           /\ Range(rows) \subseteq Range(new)
<1> DEFINE user == Entry(s, "user")
           assistant == Entry(s, "assistant")
           one == Append(rows, user)
<1>1. /\ user \in Entries /\ assistant \in Entries
      /\ user.turn = s /\ assistant.turn = s
      /\ new = rows \o <<user, assistant>>
  BY DEF Entry, Entries
<1> HIDE DEF user, assistant
<1>1a. new = Append(one, assistant)
  BY <1>1
<1>2. one = Append(rows, user)
  OBVIOUS
<1> HIDE DEF one
<1>3. Longer(one, rows, user)
  BY <1>1, <1>2, OneRow
<1>4. Longer(new, one, assistant)
  <2>1. one \in Seq(Entries)
    BY <1>3 DEF Longer
  <2> QED
    BY <1>1, <1>1a, <2>1, OneRow
<1>5. RowsOf(new, {s}) = <<user, assistant>>
  <2>1. RowsOf(one, {s}) = <<user>>
    BY <1>1, <1>3, Pairs DEF Longer, Grown
  <2> QED
    BY <2>1, <1>1, <1>4, Pairs DEF Longer, Grown
<1>6. \A t \in Turns \ {s} : RowsOf(new, {t}) = RowsOf(rows, {t})
  BY <1>1, <1>3, <1>4 DEF Longer, Grown
<1>7. new \in Seq(Entries) /\ Range(rows) \subseteq Range(new)
  BY <1>3, <1>4 DEF Longer
<1> QED
  BY <1>5, <1>6, <1>7 DEF user, assistant

\* A turn that has not come so far has no rows.
LEMMA NoRowsYet ==
    ASSUME TurnsKept, NEW t \in Turns, pc[t] \notin Agent \cup {"answered", "refused"}
    PROVE  \A c \in Conversations : RowsOf(log[c], {t}) = <<>>
BY DEF TurnsKept, Recorded, Own

\* What is kept when some turns' rows are taken back.
LEMMA TakenBack ==
    ASSUME TypedRows, NEW ts, log' = [c \in Conversations |-> RowsOf(log[c], ts)]
    PROVE  /\ log' \in [Conversations -> Seq(Entries)]
           /\ \A c \in Conversations :
                 /\ \A t \in Turns : RowsOf(log'[c], {t}) = IF t \in ts THEN RowsOf(log[c], {t}) ELSE <<>>
                 /\ Range(log'[c]) = {e \in Range(log[c]) : e.turn \in ts}
<1>1. \A c \in Conversations : log[c] \in Seq(Entries) /\ log'[c] = RowsOf(log[c], ts)
  BY DEF TypedRows
<1>2. \A c \in Conversations : log'[c] \in Seq(Entries) /\ Range(log'[c]) = {e \in Range(log[c]) : e.turn \in ts}
  BY <1>1, RowsOfType
<1>3. \A c \in Conversations, t \in Turns :
         RowsOf(log'[c], {t}) = IF t \in ts THEN RowsOf(log[c], {t}) ELSE <<>>
  BY <1>1, RowsOfKept
<1> QED
  BY <1>2, <1>3

\* The other turns do not notice a write.
Others(s) ==
    /\ \A t \in Turns \ {s} : /\ pc'[t] = pc[t] /\ transcript'[t] = transcript[t]
                              /\ t \in stored' <=> t \in stored
                              /\ \A c \in Conversations : RowsOf(log'[c], {t}) = RowsOf(log[c], {t})
    /\ UNCHANGED target
    /\ stored \subseteq stored'
    /\ \A c \in Conversations : \A e \in Range(log[c]) : e.turn \in stored => e \in Range(log'[c])

\* Rows of one turn do not disturb another.
LEMMA OthersKept ==
    ASSUME TurnsKept, NEW s \in Turns, Others(s), NEW t \in Turns \ {s}
    PROVE  Recorded(t)' /\ Shown(t)'
<1>1. Recorded(t) /\ Shown(t)
  BY DEF TurnsKept
<1>2. Recorded(t)'
  BY <1>1 DEF Recorded, Own, Others
<1>3. Shown(t)'
  BY <1>1 DEF Shown, Others
<1> QED
  BY <1>2, <1>3

\* A refusal stores the question and the answer together,
LEMMA RefuseKeeps ==
    ASSUME Typed, TypedRows, TurnsKept, NEW s \in Turns, Refuse(s)
    PROVE  TurnsKept' /\ log' \in [Conversations -> Seq(Entries)]
<1> DEFINE c == target[s]
<1>1. /\ pc[s] = "refusing" /\ pc' = [pc EXCEPT ![s] = "refused"]
      /\ log' = [log EXCEPT ![c] = log[c] \o <<Entry(s, "user"), Entry(s, "assistant")>>]
      /\ stored' = stored \cup {s} /\ UNCHANGED <<target, transcript>>
  BY DEF Refuse, Goto, turn
<1>2. c \in Conversations /\ RowsOf(log[c], {s}) = <<>>
  BY <1>1, NoRowsYet DEF TurnsKept, Recorded, Working
<1>3. log[c] \in Seq(Entries) /\ log'[c] = log[c] \o <<Entry(s, "user"), Entry(s, "assistant")>>
  BY <1>1, <1>2 DEF TypedRows
<1>4. /\ log'[c] \in Seq(Entries)
      /\ RowsOf(log'[c], {s}) = <<Entry(s, "user"), Entry(s, "assistant")>>
      /\ \A t \in Turns \ {s} : RowsOf(log'[c], {t}) = RowsOf(log[c], {t})
      /\ Range(log[c]) \subseteq Range(log'[c])
  BY <1>2, <1>3, TwoRows
<1>5. log' \in [Conversations -> Seq(Entries)] /\ \A d \in Conversations \ {c} : log'[d] = log[d]
  BY <1>1, <1>2, <1>4 DEF TypedRows
<1> HIDE DEF c
<1>6. Others(s)
  BY <1>1, <1>2, <1>4, <1>5 DEF Others, Typed
<1>7. Recorded(s)'
  <2>1. pc'[s] = "refused" /\ s \in stored' /\ target'[s] = c
    BY <1>1 DEF Typed, c
  <2>2. \A d \in Conversations \ {c} : RowsOf(log'[d], {s}) = <<>>
    BY <1>1, <1>5, NoRowsYet
  <2> QED
    BY <2>1, <2>2, <1>2, <1>4 DEF Recorded, Own
<1>8. Shown(s)'
  BY <1>1, <1>6 DEF Shown, Others, TurnsKept
<1> QED
  BY <1>5, <1>6, <1>7, <1>8, OthersKept DEF TurnsKept

\* an answer completes its question,
LEMMA AnswerKeeps ==
    ASSUME Typed, TypedRows, TurnsKept, NEW s \in Turns, Answer(s)
    PROVE  TurnsKept' /\ log' \in [Conversations -> Seq(Entries)]
<1> DEFINE c == target[s]
<1>1. /\ pc[s] = "agent" /\ pc' = [pc EXCEPT ![s] = "answered"]
      /\ log' = [log EXCEPT ![c] = Append(log[c], Entry(s, "assistant"))]
      /\ stored' = stored \cup {s} /\ UNCHANGED <<target, transcript>>
  BY DEF Answer, Goto, turn
<1>2. Recorded(s) /\ Shown(s)
  BY DEF TurnsKept
<1>3. c \in Conversations /\ RowsOf(log[c], {s}) = <<Entry(s, "user")>>
  BY <1>1, <1>2 DEF Recorded, Working, Own
<1>4. log[c] \in Seq(Entries) /\ log'[c] = Append(log[c], Entry(s, "assistant"))
  BY <1>1, <1>3 DEF TypedRows
<1>5. /\ log'[c] \in Seq(Entries)
      /\ RowsOf(log'[c], {s}) = <<Entry(s, "user"), Entry(s, "assistant")>>
      /\ \A t \in Turns \ {s} : RowsOf(log'[c], {t}) = RowsOf(log[c], {t})
      /\ Range(log[c]) \subseteq Range(log'[c])
  <2> DEFINE old == log[c]
             new == log'[c]
  <2> DEFINE row == Entry(s, "assistant")
  <2>1. /\ old \in Seq(Entries) /\ new = Append(old, row)
        /\ RowsOf(old, {s}) = <<Entry(s, "user")>>
    BY <1>3, <1>4
  <2>1a. row \in Entries /\ row.turn = s
    BY DEF Entry, Entries
  <2> HIDE DEF old, new, row
  <2>2. Longer(new, old, row)
    BY <2>1, <2>1a, OneRow
  <2>3. RowsOf(new, {s}) = <<Entry(s, "user"), Entry(s, "assistant")>>
    <3>1. RowsOf(new, {s}) = Append(RowsOf(old, {s}), row)
      BY <2>1a, <2>2 DEF Longer, Grown
    <3> QED
      BY <3>1, <2>1, Pairs DEF row
  <2>4. \A t \in Turns \ {s} : RowsOf(new, {t}) = RowsOf(old, {t})
    BY <2>1a, <2>2 DEF Longer, Grown
  <2> QED
    BY <2>2, <2>3, <2>4 DEF old, new, Longer
<1>6. log' \in [Conversations -> Seq(Entries)] /\ \A d \in Conversations \ {c} : log'[d] = log[d]
  BY <1>1, <1>3, <1>5 DEF TypedRows
<1> HIDE DEF c
<1>7. Others(s)
  BY <1>1, <1>3, <1>5, <1>6 DEF Others, Typed
<1>8. Recorded(s)'
  <2>1. pc'[s] = "answered" /\ s \in stored' /\ target'[s] = c /\ pc[s] = "agent" /\ target[s] = c
    BY <1>1 DEF Typed, c
  <2>2. \A d \in Conversations \ {c} : RowsOf(log'[d], {s}) = <<>>
    BY <2>1, <1>2, <1>6 DEF Recorded, Own
  <2> QED
    BY <2>1, <2>2, <1>3, <1>5 DEF Recorded, Own
<1>9. Shown(s)'
  BY <1>1, <1>2, <1>7 DEF Shown, Others
<1> QED
  BY <1>6, <1>7, <1>8, <1>9, OthersKept DEF TurnsKept

\* The transcript is the question and rows the turn may see.
LEMMA Transcribed ==
    ASSUME Typed, TypedRows, NEW s \in Turns, Think(s), target[s] \in Conversations,
           log'[target[s]] \in Seq(Entries)
    PROVE  /\ transcript'[s] \in Seq(Entries)
           /\ \A e \in Range(transcript'[s]) :
                 e.turn = s \/ (e.turn \in stored /\ e \in Range(log'[target[s]]))
<1> DEFINE rows == RowsOf(log'[target[s]], Visible(s))
           from == IF Len(rows) > HistoryTurns THEN Len(rows) - HistoryTurns + 1 ELSE 1
           part == SubSeq(rows, from, Len(rows))
<1>1. /\ rows \in Seq(Entries)
      /\ Range(rows) = {e \in Range(log'[target[s]]) : e.turn \in Visible(s)}
  BY RowsOfType
<1>2. transcript'[s] = Append(part, Entry(s, "user"))
  BY DEF Think, Typed
<1> HIDE DEF rows
<1>3. from \in 1 .. Len(rows) + 1 /\ Len(rows) \in Nat /\ from \in Int
  BY <1>1, ConciergeConstants, LenProperties
<1> HIDE DEF from
<1>4. \A i \in from .. Len(rows) : rows[i] \in Range(rows) /\ rows[i] \in Entries
  BY <1>1, <1>3, LenProperties DEF Range
<1>5. part \in Seq(Range(rows)) /\ part \in Seq(Entries)
  BY <1>3, <1>4, SubSeqProperties
<1> HIDE DEF part
<1>6. Range(part) \subseteq Range(rows)
  <2> DEFINE S == Range(rows)
  <2>1. part \in Seq(S)
    BY <1>5
  <2> HIDE DEF S
  <2>2. DOMAIN part = 1 .. Len(part) /\ \A i \in 1 .. Len(part) : part[i] \in S
    BY <2>1, LenProperties, ElementOfSeq
  <2> QED
    BY <2>2 DEF Range, S
<1>7. Entry(s, "user") \in Entries /\ Entry(s, "user").turn = s
  BY DEF Entry, Entries
<1>8. /\ transcript'[s] \in Seq(Entries)
      /\ Range(transcript'[s]) = Range(part) \cup {Entry(s, "user")}
  BY <1>2, <1>5, <1>7, RangeOfAppend
<1>9. ASSUME NEW e \in Range(transcript'[s])
      PROVE  e.turn = s \/ (e.turn \in stored /\ e \in Range(log'[target[s]]))
  <2>1. CASE e = Entry(s, "user")
    <3>1. e.turn = s
      BY <2>1, <1>7
    <3> QED
      BY <3>1
  <2>2. CASE e \in Range(rows)
    BY <2>2, <1>1 DEF Visible
  <2> QED
    BY <2>1, <2>2, <1>6, <1>8
<1> QED
  BY <1>8, <1>9

\* a transcript is read with the question behind all that is stored,
LEMMA ThinkKeeps ==
    ASSUME Typed, TypedRows, TurnsKept, NEW s \in Turns, Think(s)
    PROVE  /\ TurnsKept' /\ log' \in [Conversations -> Seq(Entries)]
           /\ transcript' \in [Turns -> Seq(Entries)]
<1> DEFINE c == target[s]
<1>1. /\ pc[s] = "routed" /\ pc' = [pc EXCEPT ![s] = "agent"]
      /\ log' = [log EXCEPT ![c] = Append(log[c], Entry(s, "user"))]
      /\ UNCHANGED <<target, stored>>
      /\ \E v : transcript' = [transcript EXCEPT ![s] = v]
  BY DEF Think, Goto
<1>2. Recorded(s)
  BY DEF TurnsKept
<1>3. c \in Conversations /\ RowsOf(log[c], {s}) = <<>>
  BY <1>1, <1>2, NoRowsYet DEF Recorded, Working
<1>4. log[c] \in Seq(Entries) /\ log'[c] = Append(log[c], Entry(s, "user"))
  BY <1>1, <1>3 DEF TypedRows
<1>5. /\ log'[c] \in Seq(Entries)
      /\ RowsOf(log'[c], {s}) = <<Entry(s, "user")>>
      /\ \A t \in Turns \ {s} : RowsOf(log'[c], {t}) = RowsOf(log[c], {t})
      /\ Range(log[c]) \subseteq Range(log'[c])
  <2> DEFINE old == log[c]
             new == log'[c]
  <2> DEFINE row == Entry(s, "user")
  <2>1. old \in Seq(Entries) /\ new = Append(old, row) /\ RowsOf(old, {s}) = <<>>
    BY <1>3, <1>4
  <2>1a. row \in Entries /\ row.turn = s
    BY DEF Entry, Entries
  <2> HIDE DEF old, new, row
  <2>2. Longer(new, old, row)
    BY <2>1, <2>1a, OneRow
  <2>3. RowsOf(new, {s}) = <<Entry(s, "user")>>
    <3>1. RowsOf(new, {s}) = Append(RowsOf(old, {s}), row)
      BY <2>1a, <2>2 DEF Longer, Grown
    <3> QED
      BY <3>1, <2>1, Pairs DEF row
  <2>4. \A t \in Turns \ {s} : RowsOf(new, {t}) = RowsOf(old, {t})
    BY <2>1a, <2>2 DEF Longer, Grown
  <2> QED
    BY <2>2, <2>3, <2>4 DEF old, new, Longer
<1>6. log' \in [Conversations -> Seq(Entries)] /\ \A d \in Conversations \ {c} : log'[d] = log[d]
  BY <1>1, <1>3, <1>5 DEF TypedRows
<1>7. /\ transcript'[s] \in Seq(Entries)
      /\ \A e \in Range(transcript'[s]) : e.turn = s \/ (e.turn \in stored /\ e \in Range(log'[c]))
  BY <1>3, <1>5, Transcribed
<1> HIDE DEF c
<1>8. Others(s)
  BY <1>1, <1>3, <1>5, <1>6 DEF Others, Typed
<1>9. Recorded(s)'
  <2>1. pc'[s] = "agent" /\ s \notin stored' /\ target'[s] = c
    BY <1>1, <1>2 DEF Typed, c, Recorded
  <2>2. \A d \in Conversations \ {c} : RowsOf(log'[d], {s}) = <<>>
    BY <1>1, <1>6, NoRowsYet
  <2> QED
    BY <2>1, <2>2, <1>3, <1>5 DEF Recorded, Own
<1>10. Shown(s)'
  BY <1>1, <1>3, <1>7 DEF Shown, c
<1>11. transcript' \in [Turns -> Seq(Entries)]
  BY <1>1, <1>7 DEF TypedRows
<1> QED
  BY <1>6, <1>8, <1>9, <1>10, <1>11, OthersKept DEF TurnsKept

\* A turn that fails or is cut off takes back its own rows.
LEMMA RollbackKeeps ==
    ASSUME Typed, TypedRows, TurnsKept, NEW s \in Turns, TurnFails(s) \/ Disconnect(s)
    PROVE  TurnsKept' /\ log' \in [Conversations -> Seq(Entries)]
<1>1. /\ pc[s] \in Working /\ \E to \in {"errored", "cut"} : pc' = [pc EXCEPT ![s] = to]
      /\ log' = [c \in Conversations |-> RowsOf(log[c], Turns \ {s})]
      /\ UNCHANGED <<target, stored, transcript>>
  BY DEF TurnFails, Disconnect, Goto, RolledBack, turn
<1>2. Recorded(s) /\ Shown(s)
  BY DEF TurnsKept
<1>3. s \notin stored
  BY <1>1, <1>2 DEF Recorded, Working
<1>4. /\ log' \in [Conversations -> Seq(Entries)]
      /\ \A c \in Conversations :
            /\ \A t \in Turns : RowsOf(log'[c], {t}) = IF t \in Turns \ {s} THEN RowsOf(log[c], {t}) ELSE <<>>
            /\ Range(log'[c]) = {e \in Range(log[c]) : e.turn \in Turns \ {s}}
  BY <1>1, TakenBack
<1>5. Others(s)
  <2>1. \A c \in Conversations : \A e \in Range(log[c]) : e.turn \in stored => e \in Range(log'[c])
    BY <1>3, <1>4 DEF TypedRows
  <2>2. \A t \in Turns \ {s} : pc'[t] = pc[t]
    BY <1>1 DEF Typed
  <2> QED
    BY <1>1, <1>4, <2>1, <2>2 DEF Others
<1>6. Recorded(s)'
  BY <1>1, <1>3, <1>4 DEF Recorded, Own, Working, Typed
<1>7. Shown(s)'
  BY <1>1, <1>2, <1>5 DEF Shown, Others
<1> QED
  BY <1>4, <1>5, <1>6, <1>7, OthersKept DEF TurnsKept

\* and a crash takes back what was not stored.
LEMMA CrashKeeps ==
    ASSUME Typed, TypedRows, TurnsKept, Crash
    PROVE  TurnsKept' /\ log' \in [Conversations -> Seq(Entries)]
<1>1. /\ pc' = [t \in Turns |-> IF pc[t] \in Working THEN "cut" ELSE pc[t]]
      /\ log' = [c \in Conversations |-> RowsOf(log[c], stored)]
      /\ UNCHANGED <<target, stored, transcript>>
  BY DEF Crash, turn
<1>2. /\ log' \in [Conversations -> Seq(Entries)]
      /\ \A c \in Conversations :
            /\ \A t \in Turns : RowsOf(log'[c], {t}) = IF t \in stored THEN RowsOf(log[c], {t}) ELSE <<>>
            /\ Range(log'[c]) = {e \in Range(log[c]) : e.turn \in stored}
  BY <1>1, TakenBack
<1>3. ASSUME NEW t \in Turns PROVE Recorded(t)' /\ Shown(t)'
  <2>1. Recorded(t) /\ Shown(t)
    BY DEF TurnsKept
  <2>2. Recorded(t)'
    BY <2>1, <1>1, <1>2 DEF Recorded, Own, Working
  <2>3. Shown(t)'
    BY <2>1, <1>1, <1>2 DEF Shown
  <2> QED
    BY <2>2, <2>3
<1> QED
  BY <1>2, <1>3 DEF TurnsKept

\* Every step keeps the turns whole,
LEMMA TurnsNext ==
    ASSUME Typed, TypedRows, TurnsKept, [Next]_vars
    PROVE  /\ TurnsKept' /\ log' \in [Conversations -> Seq(Entries)]
           /\ transcript' \in [Turns -> Seq(Entries)]
<1>1. CASE \E s \in Turns : Writes(s)
  <2> PICK s \in Turns : Writes(s)
    BY <1>1
  <2>1. ~Think(s) => UNCHANGED transcript
    BY DEF Writes, Refuse, Answer, TurnFails, Disconnect, turn
  <2> QED
    BY <2>1, RefuseKeeps, AnswerKeeps, ThinkKeeps, RollbackKeeps DEF Writes, TypedRows
<1>2. CASE Crash
  <2>1. UNCHANGED transcript
    BY <1>2 DEF Crash, turn
  <2> QED
    BY <2>1, <1>2, CrashKeeps DEF TypedRows
<1>3. CASE UNCHANGED <<log, stored, transcript>> /\ \A t \in Turns : QuietMove(t)
  <2>1. ASSUME NEW t \in Turns PROVE Recorded(t)' /\ Shown(t)'
    <3>1. Recorded(t) /\ Shown(t) /\ QuietMove(t)
      BY <1>3 DEF TurnsKept
    <3>2. Recorded(t)'
      BY <3>1, <1>3 DEF Recorded, Own, QuietMove, Working
    <3>3. Shown(t)'
      <4>1. CASE target'[t] = target[t]
        BY <4>1, <3>1, <1>3 DEF Shown
      <4>2. CASE pc[t] = "new"
        <5>1. Range(transcript'[t]) = {}
          BY <4>2, <3>1, <1>3 DEF Recorded, Range
        <5> QED
          BY <5>1 DEF Shown
      <4> QED
        BY <4>1, <4>2, <3>1 DEF QuietMove
    <3> QED
      BY <3>2, <3>3
  <2> QED
    BY <2>1, <1>3 DEF TurnsKept, TypedRows
<1> QED
  BY <1>1, <1>2, <1>3, Quiet

\* and the rows typed.
LEMMA TypedRowsNext ==
    ASSUME Typed, TypedRows, TurnsKept, [Next]_vars
    PROVE  TypedRows'
<1> USE DEF TypedRows
<1>1. log' \in [Conversations -> Seq(Entries)] /\ transcript' \in [Turns -> Seq(Entries)]
  BY TurnsNext
<1>2. /\ conversation' \in [Conversations -> {"none", "flushed", "stored"}]
      /\ crashes' \in 0 .. Crashes /\ poolSize' \in PoolSizes
  <2> USE DEF given, chat, turn, tools, research
  <2>1. CASE UNCHANGED vars
    BY <2>1 DEF vars
  <2>2. CASE \E c \in Conversations : Create(c) \/ CommitConversation(c)
    BY <2>2 DEF Create, CommitConversation
  <2>3. CASE \E t \in Turns : Request(t) \/ Calls(t) \/ Disconnect(t) \/ Progress(t)
    <3>1. UNCHANGED <<conversation, crashes, poolSize>>
      BY <2>3 DEF Request, Calls, ReadReports, CallTrigger, Draw, OverQuota, CreateReport, Launch, ToolFails,
                  Disconnect, Progress, Open, Starve, Classify, Refuse, Think, Answer, TurnFails
    <3> QED
      BY <3>1
  <2>4. CASE \E u \in Users : ChangePlan(u)
    BY <2>4 DEF ChangePlan
  <2>5. CASE Crash
    BY <2>5, ConciergeConstants DEF Crash
  <2> QED
    BY <2>1, <2>2, <2>3, <2>4, <2>5 DEF Next
<1>3. /\ stored' \subseteq Turns /\ audit' \subseteq Turns /\ untitled' \subseteq Turns
      /\ titled' \in [Conversations -> SUBSET Turns]
  <2> USE DEF given, chat, turn, tools, research
  <2>1. CASE UNCHANGED vars
    BY <2>1 DEF vars
  <2>2. CASE \E t \in Turns : Answer(t)
    <3> PICK t \in Turns : Answer(t)
      BY <2>2
    <3>1. stored' = stored \cup {t} /\ UNCHANGED <<audit, untitled>>
      BY DEF Answer
    <3>2. titled' = titled \/ titled' = [titled EXCEPT ![target[t]] = {t}]
      BY DEF Answer
    <3>3. {t} \in SUBSET Turns
      OBVIOUS
    <3>4. titled' \in [Conversations -> SUBSET Turns]
      BY <3>2, <3>3
    <3> QED
      BY <3>1, <3>4
  <2>3. CASE \E t \in Turns : Open(t) \/ Refuse(t)
    BY <2>3 DEF Open, Refuse
  <2>4. CASE \/ \E c \in Conversations : Create(c) \/ CommitConversation(c)
             \/ \E u \in Users : ChangePlan(u)
             \/ Crash
    BY <2>4 DEF Create, CommitConversation, ChangePlan, Crash
  <2>5. CASE \E t \in Turns : \/ Request(t) \/ Calls(t) \/ Disconnect(t)
                              \/ Starve(t) \/ Classify(t) \/ Think(t) \/ TurnFails(t)
    BY <2>5 DEF Request, Calls, ReadReports, CallTrigger, Draw, OverQuota, CreateReport, Launch, ToolFails,
                Disconnect, Starve, Classify, Think, TurnFails
  <2> QED
    BY <2>1, <2>2, <2>3, <2>4, <2>5 DEF Next, Progress
<1> QED
  BY <1>1, <1>2, <1>3

-----------------------------------------------------------------------------
(* What the agents are shown of refused questions.                         *)

\* Where a turn's rows are a question and its answer, the answer comes later.
LEMMA Followed ==
    ASSUME NEW r \in Turns
    PROVE  \A rows \in Seq(Entries) :
              RowsOf(rows, {r}) = <<Entry(r, "user"), Entry(r, "assistant")>> =>
                 \A k \in 1 .. Len(rows) : rows[k].turn = r =>
                    \E j \in k .. Len(rows) : rows[j] = Entry(r, "assistant")
<1> DEFINE pair == <<Entry(r, "user"), Entry(r, "assistant")>>
           S == {rows \in Seq(Entries) :
                   RowsOf(rows, {r}) = pair =>
                      \A k \in 1 .. Len(rows) : rows[k].turn = r =>
                         \E j \in k .. Len(rows) : rows[j] = Entry(r, "assistant")}
<1>1. <<>> \in S
  <2>1. <<>> \in Seq(Entries) /\ 1 .. Len(<<>>) = {}
    BY EmptySeq
  <2> QED
    BY <2>1
<1>2. ASSUME NEW rows \in Seq(Entries), NEW row \in Entries, rows \in S
      PROVE  Append(rows, row) \in S
  <2> DEFINE new == Append(rows, row)
             len == Len(rows)
  <2>1. /\ new \in Seq(Entries) /\ Len(new) = len + 1 /\ len \in Nat
        /\ new[len + 1] = row /\ \A n \in 1 .. len : new[n] = rows[n]
    OBVIOUS
  <2>2. RowsOf(new, {r}) = Grown(RowsOf(rows, {r}), row, {r})
    BY RowsOfOneMore
  <2>3. /\ RowsOf(rows, {r}) = pair =>
              \A k \in 1 .. len : rows[k].turn = r =>
                 \E j \in k .. len : rows[j] = Entry(r, "assistant")
        /\ RowsOf(rows, {r}) \in Seq(Entries)
    BY <1>2, RowsOfType
  <2> DEFINE old == RowsOf(rows, {r})
  <2> HIDE DEF new, len, old
  <2>4. ASSUME RowsOf(new, {r}) = pair, NEW k \in 1 .. len + 1, new[k].turn = r
        PROVE  \E j \in k .. len + 1 : new[j] = Entry(r, "assistant")
    <3>1. CASE row.turn = r
      <4>1. Append(old, row) = pair /\ old \in Seq(Entries)
        BY <3>1, <2>2, <2>3, <2>4 DEF Grown, old
      <4>2. Len(Append(old, row)) = Len(old) + 1 /\ Append(old, row)[Len(old) + 1] = row /\ Len(old) \in Nat
        BY <4>1, AppendProperties, LenProperties
      <4>3. Len(pair) = 2 /\ pair[2] = Entry(r, "assistant")
        OBVIOUS
      <4>4. row = Entry(r, "assistant")
        <5> HIDE DEF pair
        <5> QED
          BY <4>1, <4>2, <4>3
      <4> QED
        BY <4>4, <2>1
    <3>2. CASE row.turn # r
      <4>1. RowsOf(rows, {r}) = pair
        BY <3>2, <2>2, <2>4 DEF Grown
      <4>2. k # len + 1
        BY <3>2, <2>1, <2>4
      <4>3. k \in 1 .. len /\ rows[k].turn = r
        BY <4>2, <2>1, <2>4
      <4>4. PICK j \in k .. len : rows[j] = Entry(r, "assistant")
        BY <4>1, <4>3, <2>3
      <4>5. j \in k .. len + 1 /\ new[j] = rows[j]
        BY <4>3, <4>4, <2>1
      <4> QED
        BY <4>4, <4>5
    <3> QED
      BY <3>1, <3>2
  <2> QED
    BY <2>1, <2>4 DEF new, len
<1> HIDE DEF S
<1>3. \A rows \in Seq(Entries) : rows \in S
  BY <1>1, <1>2, RowInduction
<1> QED
  BY <1>3 DEF S

\* An agent is shown a question about advice refused and audited, with its refusal.
LEMMA ThinkShows ==
    ASSUME Typed, TypedRows, TurnsKept, AdviceStops, AdviceIsRefused,
           NEW s \in Turns, Think(s)
    PROVE  RefusedFirst(s)'
<1> DEFINE c    == target[s]
           rows == RowsOf(log'[c], Visible(s))
           from == IF Len(rows) > HistoryTurns THEN Len(rows) - HistoryTurns + 1 ELSE 1
           part == SubSeq(rows, from, Len(rows))
<1>1. /\ pc[s] = "routed" /\ pc' = [pc EXCEPT ![s] = "agent"]
      /\ UNCHANGED <<target, stored, audit, text>>
  BY DEF Think, Goto, given
<1>2. Recorded(s)
  BY DEF TurnsKept
<1>3. c \in Conversations
  BY <1>1, <1>2 DEF Recorded, Working
<1>4. TurnsKept' /\ log'[c] \in Seq(Entries)
  BY <1>3, ThinkKeeps
<1>5. transcript'[s] = Append(part, Entry(s, "user"))
  BY DEF Think, Typed
<1>6. /\ rows \in Seq(Entries) /\ Len(rows) \in Nat
      /\ \A k \in 1 .. Len(rows) :
            rows[k] \in Entries /\ rows[k] \in Range(log'[c]) /\ rows[k].turn \in Visible(s)
  <2>1. rows \in Seq(Entries) /\ Range(rows) = {e \in Range(log'[c]) : e.turn \in Visible(s)}
    BY <1>4, RowsOfType
  <2> HIDE DEF rows
  <2>2. \A k \in 1 .. Len(rows) : rows[k] \in Range(rows) /\ rows[k] \in Entries
    BY <2>1, LenProperties DEF Range
  <2> QED
    BY <2>1, <2>2, LenProperties
<1>6a. \A r \in Visible(s) : RowsOf(rows, {r}) = RowsOf(log'[c], {r})
  BY <1>4, RowsOfKept
<1> HIDE DEF rows
<1>7. from \in 1 .. Len(rows) + 1 /\ from \in Int
  BY <1>6, ConciergeConstants
<1> HIDE DEF from
<1>8. /\ part \in Seq(Entries) /\ Len(part) = Len(rows) - from + 1
      /\ \A k \in 1 .. Len(part) : part[k] = rows[from + k - 1]
  BY <1>6, <1>7, SubSeqProperties
<1> HIDE DEF part
<1>9. /\ DOMAIN transcript'[s] = 1 .. Len(part) + 1 /\ Len(transcript'[s]) = Len(part) + 1
      /\ Len(part) \in Nat
      /\ \A k \in 1 .. Len(part) : transcript'[s][k] = part[k]
      /\ transcript'[s][Len(part) + 1].turn = s
  <2>1. Entry(s, "user") \in Entries /\ Entry(s, "user").turn = s
    BY DEF Entry, Entries
  <2> QED
    BY <1>5, <1>8, <2>1, AppendProperties, LenProperties
<1>10. ASSUME NEW k \in DOMAIN transcript'[s], NEW r, r = transcript'[s][k].turn,
              "advice_request" \in text[r]
       PROVE  r \in audit /\ \E j \in k .. Len(transcript'[s]) : transcript'[s][j] = Entry(r, "assistant")
  <2>1. "advice_request" \notin text[s]
    BY <1>1 DEF AdviceStops
  <2>2. k \in 1 .. Len(part)
    BY <1>9, <1>10, <2>1
  <2> DEFINE m == from + k - 1
  <2>3. m \in 1 .. Len(rows) /\ transcript'[s][k] = rows[m] /\ m = from + k - 1
    <3>1. k \in Int /\ 1 <= k /\ k <= Len(rows) - from + 1 /\ from \in Int /\ 1 <= from /\ Len(rows) \in Nat
      BY <2>2, <1>6, <1>7, <1>8
    <3>2. m \in 1 .. Len(rows)
      BY <3>1
    <3>3. transcript'[s][k] = part[k] /\ part[k] = rows[m]
      BY <2>2, <1>8, <1>9
    <3> QED
      BY <3>2, <3>3
  <2> HIDE DEF m
  <2>4. r \in Visible(s) /\ r # s /\ rows[m] \in Range(log'[c]) /\ rows[m].turn = r /\ r \in Turns
    BY <2>1, <2>3, <1>6, <1>10 DEF Entries
  <2>5. r \in stored /\ pc[r] = "refused"
    <3>1. r \in stored
      BY <2>4 DEF Visible
    <3>2. pc[r] \in {"answered", "refused"}
      BY <3>1, <2>4 DEF TurnsKept, Recorded
    <3> QED
      BY <3>1, <3>2, <2>4, <1>10 DEF AdviceStops
  <2>6. r \in audit
    BY <2>4, <2>5 DEF AdviceIsRefused
  <2>7. RowsOf(rows, {r}) = <<Entry(r, "user"), Entry(r, "assistant")>>
    <3>1. RowsOf(log'[c], {r}) = Own(r, c)' /\ pc'[r] = "refused"
      BY <1>1, <1>3, <1>4, <2>4, <2>5 DEF TurnsKept, Recorded, Typed
    <3>2. Range(RowsOf(log'[c], {r})) = {e \in Range(log'[c]) : e.turn \in {r}}
      BY <1>4, RowsOfType
    <3>3. RowsOf(log'[c], {r}) # <<>>
      <4>1. Range(<<>>) = {}
        BY DEF Range
      <4> QED
        BY <3>2, <4>1, <2>4
    <3>4. RowsOf(log'[c], {r}) = <<Entry(r, "user"), Entry(r, "assistant")>>
      BY <3>1, <3>3 DEF Own
    <3> QED
      BY <3>4, <2>4, <1>6a
  <2>8. PICK n \in m .. Len(rows) : rows[n] = Entry(r, "assistant")
    BY <2>3, <2>4, <2>7, <1>6, Followed
  <2> DEFINE j == n - from + 1
  <2>9. j \in k .. Len(part) /\ j \in 1 .. Len(part) /\ from + j - 1 = n
    BY <2>2, <2>3, <2>8, <1>6, <1>7, <1>8
  <2>10. transcript'[s][j] = rows[n] /\ j \in k .. Len(transcript'[s])
    BY <2>9, <2>2, <1>8, <1>9
  <2> QED
    BY <2>6, <2>8, <2>10
<1> QED
  BY <1>1, <1>10 DEF RefusedFirst

\* Every step keeps what the agents are shown behind its refusal.
LEMMA ShownNext ==
    ASSUME Typed, TypedRows, TurnsKept, AdviceStops, AdviceIsRefused, [Next]_vars,
           NEW t \in Turns
    PROVE  RefusedFirst(t)'
<1>1. RefusedFirst(t) /\ text' = text
  BY AdviceParts, Books
<1>2. audit \subseteq audit'
  BY Books DEF Refuse
<1>3. CASE UNCHANGED transcript
  BY <1>1, <1>2, <1>3 DEF RefusedFirst
<1>4. ASSUME NEW s \in Turns, Think(s) PROVE RefusedFirst(t)'
  <2>1. CASE s = t
    BY <1>4, <2>1, ThinkShows
  <2>2. CASE s # t
    <3>1. transcript'[t] = transcript[t]
      BY <1>4, <2>2 DEF Think, Typed
    <3> QED
      BY <3>1, <1>1, <1>2 DEF RefusedFirst
  <2> QED
    BY <2>1, <2>2
<1> QED
  BY <1>3, <1>4, Books

\* The conjunction is inductive.
LEMMA Invariance == Spec => []IInv
<1>1. IInv /\ [Next]_vars => IInv'
  <2> SUFFICES ASSUME IInv, [Next]_vars PROVE IInv'
    OBVIOUS
  <2> USE DEF IInv
  <2>1. Typed' /\ TypedRows' /\ TurnsKept'
    BY TypedNext, TypedRowsNext, TurnsNext
  <2>2. AdviceStops' /\ AdviceIsRefused'
    <3>1. AdviceStops' /\ \A t \in Turns : AdviceAlone(t)'
      BY AdviceNext
    <3>2. \A t \in Turns : RefusedFirst(t)'
      BY ShownNext
    <3>3. (AdviceIsRefused)' <=> \A t \in Turns : AdviceAlone(t)' /\ RefusedFirst(t)'
      BY DEF AdviceIsRefused, AdviceAlone, RefusedFirst
    <3> QED
      BY <3>1, <3>2, <3>3
  <2>3. ContextsHold'
    BY Contexts
  <2>4. TenantsApart'
    BY TenantsNext
  <2>5. OnlyPayersArePro' /\ FlightsFinite' /\ ChatRunsMetered'
    BY MeterNext
  <2> QED
    BY <2>1, <2>2, <2>3, <2>4, <2>5
<1> QED
  BY <1>1, Start, PTL DEF Spec
-----------------------------------------------------------------------------
(* The theorems.                                                           *)

\* Advice is refused before the agent (classifier, concierge_turn): whatever else a
\* message matches and whatever the intent model would have said, its turn builds no
\* transcript, calls no tool and starts no run; refusals and audit rows agree, and the
\* agents of later turns are shown the message only with the refusal that followed it.
THEOREM AdviceNeverServed == Spec => []AdviceIsRefused
<1>1. IInv => AdviceIsRefused
  BY DEF IInv
<1> QED
  BY <1>1, Invariance, PTL

\* Tenants stay apart (require_conversation, the tools' ContextVar): for any turns of
\* any users, however they interleave, a turn writes into its caller's conversation and
\* its tools, which have the user from the context alone, read, charge and start for
\* its caller only.
THEOREM TenantsStayApart == Spec => []TenantsApart
<1>1. IInv => TenantsApart
  BY DEF IInv
<1> QED
  BY <1>1, Invariance, PTL

\* The runs drawn by the assistant (trigger_research) are those that have a report, are
\* about to or were lost between the two commits, through failures, disconnects and
\* restarts; their number stays within the quota, and a user who never pays has none.
THEOREM ChatRunsArePaid == Spec => []ChatRunsMetered
<1>1. IInv => ChatRunsMetered
  BY DEF IInv
<1> QED
  BY <1>1, Invariance, PTL

\* A turn is stored whole or not at all (concierge_turn's one commit, get_db's
\* rollback): however turns of a conversation interleave, fail, are cut off or die with
\* the API, the rows of an ended turn are its question and its answer in its own
\* conversation, or none, and what an agent was shown of others stays in the log.
THEOREM TurnsAreStoredWhole == Spec => []TurnsInv
<1>1. ASSUME IInv PROVE TurnsInv
  <2> USE DEF IInv
  <2>1. TypeOK
    BY <1>1 DEF TypeOK, Typed, TypedRows
  <2>2. ASSUME NEW t \in Turns
        PROVE  /\ t \in stored <=> pc[t] \in {"answered", "refused"}
               /\ pc[t] \in Ended => \A c \in Conversations :
                     RowsOf(log[c], {t}) =
                        IF t \in stored /\ c = target[t]
                        THEN <<Entry(t, "user"), Entry(t, "assistant")>> ELSE <<>>
    <3>1. Recorded(t)
      BY <1>1 DEF TurnsKept
    <3> QED
      BY <3>1 DEF Recorded, Own, Ended
  <2>3. ASSUME NEW t \in Turns, NEW k \in DOMAIN transcript[t]
        PROVE  transcript[t][k].turn = t \/ transcript[t][k] \in Range(Messages(target[t]))
    <3>1. Shown(t) /\ transcript[t][k] \in Range(transcript[t])
      BY <1>1 DEF TurnsKept, Range
    <3>2. CASE /\ transcript[t][k].turn \in stored /\ target[t] \in Conversations
               /\ transcript[t][k] \in Range(log[target[t]])
      <4>1. log[target[t]] \in Seq(Entries)
        BY <1>1, <3>2 DEF TypedRows
      <4>2. Range(RowsOf(log[target[t]], stored)) = {e \in Range(log[target[t]]) : e.turn \in stored}
        BY <4>1, RowsOfType
      <4> QED
        BY <4>2, <3>2 DEF Messages
    <3> QED
      BY <3>1, <3>2 DEF Shown
  <2>4. TurnsStoredWhole
    BY <2>2, <2>3 DEF TurnsStoredWhole
  <2> QED
    BY <2>1, <2>4 DEF TurnsInv
<1> QED
  BY <1>1, Invariance, PTL
=============================================================================
