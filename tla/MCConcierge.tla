---------------------------- MODULE MCConcierge ----------------------------
(***************************************************************************)
(* Concierge for TLC: two turns in a paying user's conversation, one of    *)
(* which may ask for advice and research at once, and one of a free user,  *)
(* who may name that conversation too.  With three connections the turns   *)
(* starve each other; with five, two agents and a tool work side by side.  *)
(***************************************************************************)
EXTENDS Concierge

CONSTANTS ann, bob, a, b, open, advice, free

MCOwner    == [c \in Conversations |-> IF c = a THEN ann ELSE bob]
MCTargets  == [t \in Turns |-> IF t = free THEN {a, b} ELSE {a}]
MCCaller   == [t \in Turns |-> IF t = free THEN bob ELSE ann]
MCTexts    == [t \in Turns |-> CASE t = open   -> {{}}
                                 [] t = advice -> {{"advice_request", "research"}, {"education"}}
                                 [] t = free   -> {{"research", "education"}}]
=============================================================================
