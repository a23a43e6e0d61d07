---------------------------- MODULE ToolSandbox ----------------------------
(***************************************************************************)
(* ToolRegistry with PythonSandbox behind its run_python: the handler's    *)
(* program, which ToolRegistry only counts, is a source of Layouts, and    *)
(* whether the handler returns or raises is what run_python_sandboxed      *)
(* made of it.                                                             *)
(***************************************************************************)
EXTENDS ToolRegistry, PythonSandbox

CONSTANT Layouts  \* the layouts of the sources that are tried

VARIABLE program  \* the source just run, what it did, and its outcome

NoProgram == [layout |-> << >>, behaviour |-> "none", outcome |-> "none"]

\* With any step of the registry: SandboxError leaves the handler.
Sandboxed ==
  IF effects'.programs = effects.programs
    THEN program' = NoProgram
    ELSE \E q \in Layouts, b \in Behaviours :
           /\ program' = [layout |-> q, behaviour |-> b, outcome |-> Outcome(q, b)]
           /\ at' = IF Outcome(q, b) = "value" THEN "returned" ELSE "failed"

-----------------------------------------------------------------------------
(* Properties                                                              *)

=============================================================================
