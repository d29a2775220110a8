---------------------------- MODULE MCInlineRuns ----------------------------
EXTENDS InlineRuns

\* ann makes one streaming call; bob streams, calls synchronously and asks the
\* assistant.  Three gated calls for two slots: one can be turned away.
MCKind == [r \in Requests |-> CASE r = "sync1" -> "sync"
                                [] r = "chat1" -> "chat"
                                [] OTHER       -> "stream"]
MCCaller == [r \in Requests |-> IF r = "stream1" THEN "ann" ELSE "bob"]

\* bob's plan covers two of his three calls.
MCLimit == [u \in Users |-> IF u = "ann" THEN 1 ELSE 2]
=============================================================================
