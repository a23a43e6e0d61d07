-------------------------- MODULE MCWorkspaceFile --------------------------
(***************************************************************************)
(* WorkspaceFile for TLC: the calls are interchangeable.                   *)
(***************************************************************************)
EXTENDS WorkspaceFile, TLC

CallSymmetry == Permutations(Calls)
=============================================================================
