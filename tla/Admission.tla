------------------------------ MODULE Admission ------------------------------
(***************************************************************************)
(* What a replay cache promises its callers: requests are admitted one at  *)
(* a time, each nonce once, unless the cache has forgotten it in between,  *)
(* which happens at any time and is never undone.                          *)
(***************************************************************************)
EXTENDS Naturals

CONSTANT Nonces

VARIABLES
  uses,      \* uses[n]: requests admitted with nonce n
  forgotten  \* nonces that may be admitted once more

vars == <<uses, forgotten>>

Init ==
  /\ uses = [n \in Nonces |-> 0]
  /\ forgotten \in SUBSET Nonces

Admit(n) ==
  /\ uses[n] = 0 \/ n \in forgotten
  /\ uses' = [uses EXCEPT ![n] = @ + 1]
  /\ UNCHANGED forgotten

Forget ==
  /\ forgotten' \in SUBSET Nonces
  /\ forgotten \subseteq forgotten'
  /\ UNCHANGED uses

Next == Forget \/ \E n \in Nonces : Admit(n)

Spec == Init /\ [][Next]_vars
=============================================================================
