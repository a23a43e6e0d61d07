------------------------------ MODULE AgentRun ------------------------------
(***************************************************************************)
(* agent/harness.py: AgentHarness.run, the loop that asks the model for a  *)
(* completion and makes of it a tool call, a rejected call, a request to   *)
(* answer in JSON, or the answer.  The tools are those of ToolRegistry.    *)
(*                                                                         *)
(* Of a completion only its outcome counts: what parse_tool_call and       *)
(* _try_parse_json_answer make of it.  Of the messages only their number   *)
(* beyond the first prompt is kept.                                        *)
(***************************************************************************)
EXTENDS ToolRegistry

CONSTANTS
  MaxIterations,        \* agent.max_iterations
  MaxInvalidToolCalls,  \* agent.max_invalid_tool_calls
  JsonFormat            \* agent.response_format = "json"

ASSUME LoopAssumption ==
  /\ MaxIterations \in Nat \ {0}
  /\ MaxInvalidToolCalls \in Nat \ {0}
  /\ JsonFormat \in BOOLEAN

VARIABLES
  pc,          \* where run stands
  reply,       \* what the last completion is
  i,           \* completions dealt with
  tool_calls, invalid_tool_calls, json_retries,
  messages,    \* messages after the first prompt
  result       \* the AgentRunResult, once returned

loopVars == <<pc, reply, i, tool_calls, invalid_tool_calls, json_retries,
              messages, result>>
vars == <<toolVars, loopVars>>

NoResult == [iterations |-> 0, tool_calls |-> 0, denials |-> 0]

TypeOK ==
  /\ ToolTypeOK
  /\ pc \in {"start", "complete", "reply", "invalid", "tool", "returned", "raised"}
  /\ reply \in {"none", "call", "malformed", "json", "text"}
  /\ i \in 0..MaxIterations
  /\ tool_calls \in Nat
  /\ invalid_tool_calls \in Nat
  /\ json_retries \in 0..1
  /\ messages \in Nat
  /\ result \in [iterations : Nat, tool_calls : Nat, denials : Nat]

Init ==
  /\ ToolInit
  /\ pc = "start"
  /\ reply = "none"
  /\ i = 0
  /\ tool_calls = 0
  /\ invalid_tool_calls = 0
  /\ json_retries = 0
  /\ messages = 0
  /\ result = NoResult

callVars == <<at, call, budgets, scan, effects>>
counterVars == <<tool_calls, invalid_tool_calls, json_retries>>

-----------------------------------------------------------------------------
\* Mutation: an exception of a tool starts its invocation again.
RaiseRetriesTool ==
  \/ /\ pc = "start"
     /\ pc' = "raised"
     /\ UNCHANGED <<toolVars, reply, i, counterVars, messages, result>>
  \/ /\ pc = "tool" /\ at = "raised"
     /\ at' = "checks"
     /\ UNCHANGED <<call, budgets, scan, trailVars, effects, loopVars>>

\* An exception leaves run: a task that is too long, a backend that fails,
\* or an audit record that cannot be written.
Raise ==
  /\ \/ pc = "start"
     \/ pc = "complete" /\ i < MaxIterations /\ "backend" \in Faults
     \/ pc \in {"complete", "reply", "invalid"} /\ "audit" \in Faults
     \/ pc = "tool" /\ at = "raised"
  /\ pc' = "raised"
  /\ UNCHANGED <<toolVars, reply, i, counterVars, messages, result>>

Start ==
  /\ pc = "start"
  /\ Emit("agent.start")
  /\ pc' = "complete"
  /\ UNCHANGED <<callVars, reply, i, counterVars, messages, result>>

\* backend.complete, then its record.
Complete ==
  /\ pc = "complete"
  /\ i < MaxIterations
  /\ reply' \in {"call", "malformed", "json", "text"}
  /\ Emit("agent.completion")
  /\ pc' = "reply"
  /\ UNCHANGED <<callVars, i, counterVars, messages, result>>

\* The assistant's message and the answer to it are appended, and the loop
\* goes round.
NextIteration ==
  /\ messages' = messages + 2
  /\ i' = i + 1
  /\ pc' = "complete"

\* The loop is left with a result, after its final record.
Return(iterations) ==
  /\ pc' = "returned"
  /\ result' = [iterations |-> iterations, tool_calls |-> tool_calls,
                denials |-> budgets.denials]

\* parse_tool_call returned an allowed tool and arguments that validate.
CallTool ==
  /\ pc = "reply"
  /\ reply = "call"
  /\ \E name \in AllowedTools \cap Handlers : InvokeTool(name, TRUE)
  /\ tool_calls' = tool_calls + 1
  /\ pc' = "tool"
  /\ UNCHANGED <<reply, i, invalid_tool_calls, json_retries, messages, result>>

RunTool ==
  /\ pc = "tool"
  /\ ToolStep
  /\ UNCHANGED loopVars

Observe ==
  /\ pc = "tool"
  /\ at = "idle"
  /\ NextIteration
  /\ UNCHANGED <<toolVars, reply, counterVars, result>>

RejectCall ==
  /\ pc = "reply"
  /\ reply = "malformed"
  /\ invalid_tool_calls' = invalid_tool_calls + 1
  /\ Emit("agent.invalid_tool_call")
  /\ pc' = "invalid"
  /\ UNCHANGED <<callVars, reply, i, tool_calls, json_retries, messages, result>>

BreakCircuit ==
  /\ pc = "invalid"
  /\ invalid_tool_calls >= MaxInvalidToolCalls
  /\ Emit("agent.circuit_breaker")
  /\ Return(i + 1)
  /\ UNCHANGED <<callVars, reply, i, counterVars, messages>>

ExplainRejection ==
  /\ pc = "invalid"
  /\ invalid_tool_calls < MaxInvalidToolCalls
  /\ NextIteration
  /\ UNCHANGED <<toolVars, reply, counterVars, result>>

\* Mutation: a retry is not counted.
RetryJsonUncounted ==
  /\ pc = "reply"
  /\ reply = "text"
  /\ JsonFormat /\ json_retries < 1
  /\ NextIteration
  /\ UNCHANGED <<toolVars, reply, counterVars, result>>

\* Mutation: there is no limit on retries.
RetryJsonAlways ==
  /\ pc = "reply"
  /\ reply = "text"
  /\ JsonFormat
  /\ json_retries' = json_retries + 1
  /\ NextIteration
  /\ UNCHANGED <<toolVars, reply, tool_calls, invalid_tool_calls, result>>

RetryJson ==
  /\ pc = "reply"
  /\ reply = "text"
  /\ JsonFormat /\ json_retries < 1
  /\ json_retries' = json_retries + 1
  /\ NextIteration
  /\ UNCHANGED <<toolVars, reply, tool_calls, invalid_tool_calls, result>>

\* Mutation: the index of the iteration is returned for their number.
AnswerOffByOne ==
  /\ pc = "reply"
  /\ reply \in {"json", "text"}
  /\ reply = "json" \/ ~(JsonFormat /\ json_retries < 1)
  /\ Emit("agent.done")
  /\ Return(i)
  /\ UNCHANGED <<callVars, reply, i, counterVars, messages>>

Answer ==
  /\ pc = "reply"
  /\ reply \in {"json", "text"}
  /\ reply = "json" \/ ~(JsonFormat /\ json_retries < 1)
  /\ Emit("agent.done")
  /\ Return(i + 1)
  /\ UNCHANGED <<callVars, reply, i, counterVars, messages>>

GiveUp ==
  /\ pc = "complete"
  /\ i = MaxIterations
  /\ Emit("agent.max_iterations")
  /\ Return(MaxIterations)
  /\ UNCHANGED <<callVars, reply, i, counterVars, messages>>

\* The run is over; the caller has its result or its exception.
Over == pc \in {"returned", "raised"} /\ UNCHANGED vars

Step ==
  \/ Raise \/ Start \/ Complete \/ CallTool \/ RunTool \/ Observe
  \/ RejectCall \/ BreakCircuit \/ ExplainRejection \/ RetryJson
  \/ Answer \/ GiveUp

Next == Step \/ Over

Spec == Init /\ [][Next]_vars

\* The run keeps going: the backend answers or fails (its requests have a
\* timeout), and a tool ends (so do the sandbox and the walk of a workspace).
FairSpec == Spec /\ WF_vars(Step)

-----------------------------------------------------------------------------
(* Properties                                                              *)

(***************************************************************************)
(* At the head of the loop every completion so far is accounted for once:  *)
(* it became a tool call, a rejected call or a request for JSON; each left *)
(* two messages and one record, and the registry charged as many calls as  *)
(* the loop counted (harness.py, run; tools.py, invoke).                   *)
(***************************************************************************)
LoopAccounting ==
  pc = "complete" =>
    /\ i = tool_calls + invalid_tool_calls + json_retries
    /\ i = count["agent.completion"]
    /\ messages = 2 * i
    /\ tool_calls = budgets.tool_calls
    /\ tool_calls = count["tool.denied"] + count["tool.invoke"]

(***************************************************************************)
(* What the caller is told of a run is what its audit trail shows, however *)
(* the loop was left (harness.py, the three places run returns at).        *)
(***************************************************************************)
ResultMatchesTrail ==
  pc = "returned" =>
    /\ result.iterations = count["agent.completion"]
    /\ result.tool_calls = count["tool.denied"] + count["tool.invoke"]
    /\ result.tool_calls = budgets.tool_calls
    /\ result.denials = count["tool.denied"]

(***************************************************************************)
(* The trail of a run keeps the contract of RunContract: the order of its  *)
(* records, at most one final record, every opened tool closed before the  *)
(* next completion, and the bounds on completions, malformed calls and     *)
(* tools (harness.py, run; tools.py, invoke).                              *)
(***************************************************************************)
Contract == INSTANCE RunContract WITH last <- last, count <- count
KeepsContract == Contract!Spec

(***************************************************************************)
(* Every run returns or raises, whatever the model answers (harness.py,    *)
(* the for loop of run).                                                   *)
(***************************************************************************)
Terminates == <>(pc \in {"returned", "raised"})
=============================================================================
