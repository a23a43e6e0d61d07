----------------------------- MODULE MCServeApi -----------------------------
(***************************************************************************)
(* ServeApi for TLC: two interchangeable tokens for runs, with more calls  *)
(* than the configuration allows and a capability it does not grant, and   *)
(* one for sessions.                                                       *)
(***************************************************************************)
EXTENDS ServeApi, TLC

CONSTANTS k1, k2, k3

AllTokens == {k1, k2, k3}
PathOf == (k1 :> "run") @@ (k2 :> "run") @@ (k3 :> "sessions")
CapsOf == [k \in AllTokens |-> {"fs.read", "fs.write"}]
CallsOf == [k \in AllTokens |-> 2]

Symmetry ==
  Permutations(Threads) \cup Permutations(Sessions) \cup Permutations(Runs) \cup
    Permutations({k1, k2})
=============================================================================
