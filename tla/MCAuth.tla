------------------------------- MODULE MCAuth -------------------------------
(***************************************************************************)
(* Auth for TLC: a key the issuer may withdraw, an unknown one, a user     *)
(* with several sessions, and another identity with the user's address.    *)
(***************************************************************************)
EXTENDS Auth, TLC

CONSTANTS bob, own, shared

MCEmail == [i \in Identities |-> IF i = bob THEN own ELSE shared]

Token(kid, genuine, sub) == [kid |-> kid, genuine |-> genuine, sub |-> sub]

MCTokens == {Token(k, TRUE, i) : k \in Kids, i \in Identities}
            \cup {Token(Forged, FALSE, i) : i \in Identities}

Symmetry == Permutations(Requests)
=============================================================================
