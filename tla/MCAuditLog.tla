----------------------------- MODULE MCAuditLog -----------------------------
(***************************************************************************)
(* AuditLog for TLC: processes, threads and keys are interchangeable.      *)
(***************************************************************************)
EXTENDS AuditLog, TLC

Symmetry ==
  Permutations(Loggers) \cup Permutations(Threads) \cup Permutations(Keys)
=============================================================================
