--------------------------- MODULE MCToolRegistry ---------------------------
(***************************************************************************)
(* ToolSandbox for TLC: a caller that asks for any name, with valid        *)
(* arguments or not, and stops when it likes or at an exception, and every *)
(* source of up to MaxLines lines indented by Indents.                     *)
(***************************************************************************)
EXTENDS ToolSandbox

CONSTANTS
  MaxCalls,  \* bound on the caller's invocations
  MaxLines,  \* bound on the lines of a source
  Indents    \* indentations of the lines after the first, which has none

AllLayouts ==
  {q \in BoundedSeq([indent : Indents, kind : {"statement", "header", "continuation"}],
                    MaxLines) :
     Len(q) > 0 /\ q[1].indent = 0}

Call ==
  /\ budgets.tool_calls < MaxCalls
  /\ \E name \in Handlers \cup {"other"}, valid \in BOOLEAN :
       InvokeTool(name, valid)

Finished == at \in {"idle", "raised"} /\ UNCHANGED toolVars

Init == ToolInit /\ program = NoProgram

Next ==
  \/ ToolStep /\ Sandboxed
  \/ Call /\ program' = NoProgram
  \/ Finished /\ UNCHANGED program

Spec == Init /\ [][Next]_<<toolVars, program>>
=============================================================================
