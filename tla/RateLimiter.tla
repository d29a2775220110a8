---------------------------- MODULE RateLimiter ----------------------------
(***************************************************************************)
(* The per-caller run budget (SlidingWindowLimiter, backend/api/limits.py) *)
(* on a clock of Second ticks a second.  check() and prune() never await,  *)
(* so each is one step of the event loop.                                  *)
(***************************************************************************)
EXTENDS Integers, Sequences, FiniteSets, SequencesExt

CONSTANTS Callers,        \* client addresses
          MaxRequests,    \* max_requests
          WindowTicks,    \* window_seconds, in ticks
          Second,         \* ticks in a second
          LastTick        \* bound: how long the clock runs

ASSUME LimiterConstants ==
    /\ MaxRequests \in Nat \ {0}
    /\ WindowTicks \in Nat \ {0}
    /\ Second \in Nat \ {0}
    /\ LastTick \in Nat

VARIABLES now,      \* time.monotonic()
          events,   \* self._events: the callers it knows and their deques
          granted,  \* history: every attempt let through, <<caller, time, how many before>>
          promised  \* the time by which each caller's last refusal said to come back, 0 for none

limiterVars == <<now, events, granted, promised>>

Clock   == 0 .. LastTick
Windows == UNION {[1 .. n -> Clock] : n \in 0 .. MaxRequests}

LimiterTypeOK == /\ now \in Clock
                 /\ DOMAIN events \subseteq Callers
                 /\ \A c \in DOMAIN events : events[c] \in Windows
                 /\ granted \subseteq Callers \X Clock \X Nat
                 /\ promised \in [Callers -> 0 .. LastTick + WindowTicks + Second]

LimiterInit == /\ now = 0
               /\ events = [c \in {} |-> <<>>]
               /\ granted = {}
               /\ promised = [c \in Callers |-> 0]

\* Plausible bugs, each a variant of the operator that follows it.
Expired_Late(t)        == t < now - WindowTicks
Spent_OffByOne(w)      == Len(w) > MaxRequests
Idle_OldestGone(c)     == events[c] = <<>> \/ Head(events[c]) <= now - WindowTicks
RetryAfter_Floor(w)    == (Head(w) + WindowTicks - now) \div Second

\* An event is out of the window once it is window_seconds old.
Expired(t) == t <= now - WindowTicks

\* setdefault, then popleft while the oldest event has expired.
Deque(c)   == IF c \in DOMAIN events THEN events[c] ELSE <<>>
Cleaned(w) == LET live == {i \in DOMAIN w : ~Expired(w[i])}
              IN  IF live = {} THEN <<>> ELSE SubSeq(w, Min(live), Len(w))
Window(c)  == Cleaned(Deque(c))

\* The budget, and how many seconds the refused caller is told to wait: the rest of
\* the oldest event's window, truncated by int(), plus one.
Spent(w)      == Len(w) >= MaxRequests
RetryAfter(w) == (Head(w) + WindowTicks - now) \div Second + 1

\* prune's test on a caller it may forget.
Idle(c) == events[c] = <<>> \/ Last(events[c]) <= now - WindowTicks

Keep(c, w) == [d \in DOMAIN events \cup {c} |-> IF d = c THEN w ELSE events[d]]
-----------------------------------------------------------------------------
Allow(c) ==
    /\ ~Spent(Window(c))
    /\ events' = Keep(c, Append(Window(c), now))
    /\ granted' = granted \cup {<<c, now, Cardinality({g \in granted : g[1] = c})>>}
    /\ promised' = [promised EXCEPT ![c] = 0]
    /\ UNCHANGED now

\* A refused attempt is not recorded: it costs the caller nothing.
Refuse(c) ==
    /\ Spent(Window(c))
    /\ events' = Keep(c, Window(c))
    /\ promised' = [promised EXCEPT ![c] = now + Second * RetryAfter(Window(c))]
    /\ UNCHANGED <<now, granted>>

\* prune(): callers with no event left in the window are forgotten.
Prune ==
    /\ events' = Restrict(events, {c \in DOMAIN events : ~Idle(c)})
    /\ UNCHANGED <<now, granted, promised>>

Tick ==
    /\ now < LastTick
    /\ now' = now + 1
    /\ UNCHANGED <<events, granted, promised>>

LimiterNext == Prune \/ Tick \/ \E c \in Callers : Allow(c) \/ Refuse(c)

LimiterSpec == LimiterInit /\ [][LimiterNext]_limiterVars
-----------------------------------------------------------------------------
(* Properties.                                                             *)

Grants(c, from, to) == {g \in granted : g[1] = c /\ g[2] \in from .. to}

\* "Exact (no fixed-window boundary bursts)": whatever the pattern of attempts,
\* refusals and prunes, no window_seconds of time, wherever it starts, ever
\* contains more than max_requests runs of one caller.
NeverOverBudget ==
    \A c \in Callers, t \in Clock :
        Cardinality(Grants(c, t, t + WindowTicks - 1)) <= MaxRequests

\* A caller is refused only while the last window_seconds really hold its whole
\* budget: neither a refusal nor another caller's attempts count against it.
RefusedOnlyWhenSpent ==
    \A c \in Callers :
        Spent(Window(c)) =>
            Cardinality(Grants(c, now - WindowTicks + 1, now)) >= MaxRequests

\* The budget is exact both ways: no window holds more than it, and no caller is refused
\* with less.
BudgetExact == LimiterTypeOK /\ NeverOverBudget /\ RefusedOnlyWhenSpent

\* Retry-After is enough: a caller that comes back when its last refusal said
\* is let through, whatever happened in between.
RetryAfterIsEnough ==
    \A c \in Callers : promised[c] \in 1 .. now => ~Spent(Window(c))
=============================================================================
