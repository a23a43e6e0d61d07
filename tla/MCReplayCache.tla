--------------------------- MODULE MCReplayCache ---------------------------
(***************************************************************************)
(* ReplayCache for TLC: threads are interchangeable, nonces are not, their *)
(* tokens expire at different times.                                       *)
(***************************************************************************)
EXTENDS ReplayCache, TLC

CONSTANTS n1, n2, n3

ThreeNonces == {n1, n2, n3}
TwoNonces == {n1, n2}

\* n1 expires first; n2 and n3 live as long as the run.
ExpiryOf == [n \in Nonces |-> IF n = n1 THEN 1 ELSE 3]

Symmetry == Permutations(Threads)
=============================================================================
