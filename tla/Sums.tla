-------------------------------- MODULE Sums --------------------------------
(***************************************************************************)
(* Sums of numbers (Python's sum), as partial sums.                        *)
(***************************************************************************)
EXTENDS Integers

\* f[1] + ... + f[n]
SumTo(f, n) ==
    LET upTo[k \in 0 .. n] == IF k = 0 THEN 0 ELSE upTo[k - 1] + f[k]
    IN  upTo[n]
=============================================================================
