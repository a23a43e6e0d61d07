---------------------------- MODULE RunContract ----------------------------
(***************************************************************************)
(* What the audit trail of one agent run promises its reader: the order of *)
(* the records, and how many of each there can be.  Only the last record   *)
(* and the number of records of each kind are kept.                        *)
(*                                                                         *)
(* A run starts once, alternates completions of the model with what became *)
(* of them, closes every tool it opened, and ends with one final record;   *)
(* it may also stop anywhere, when an exception leaves it.                 *)
(***************************************************************************)
EXTENDS Naturals

CONSTANTS
  EventKinds,           \* kinds of records
  MaxIterations,        \* completions a run may ask for
  MaxInvalidToolCalls,  \* malformed tool calls that end it
  MaxToolCalls          \* tools it may open

VARIABLES last, count

vars == <<last, count>>

\* Completions that became neither a malformed call nor a tool: an answer,
\* or a request to repeat it as JSON.
Answers ==
  count["agent.completion"] -
    (count["agent.invalid_tool_call"] + count["tool.denied"] + count["tool.invoke"])

\* A completion has been dealt with.
Settled ==
  \/ last \in {"tool.denied", "tool.error", "tool.result"}
  \/ last = "agent.invalid_tool_call" /\
       count["agent.invalid_tool_call"] < MaxInvalidToolCalls
  \/ last = "agent.completion" /\ Answers = 1

CanFollow(k) ==
  CASE k = "agent.start" -> last = "none"
    [] k = "agent.completion" ->
         /\ last = "agent.start" \/ Settled
         /\ count["agent.completion"] < MaxIterations
    [] k = "agent.max_iterations" ->
         /\ last = "agent.start" \/ Settled
         /\ count["agent.completion"] = MaxIterations
    [] k = "agent.invalid_tool_call" -> last = "agent.completion"
    [] k = "agent.circuit_breaker" ->
         /\ last = "agent.invalid_tool_call"
         /\ count["agent.invalid_tool_call"] >= MaxInvalidToolCalls
    [] k = "agent.done" -> last = "agent.completion"
    [] k = "tool.denied" -> last = "agent.completion"
    [] k = "tool.invoke" ->
         /\ last = "agent.completion"
         /\ count["tool.invoke"] + count["tool.denied"] < MaxToolCalls
    [] k \in {"tool.error", "tool.result"} -> last = "tool.invoke"

Init ==
  /\ last = "none"
  /\ count = [k \in EventKinds |-> 0]

Record(k) ==
  /\ CanFollow(k)
  /\ last' = k
  /\ count' = [count EXCEPT ![k] = @ + 1]

Next == \E k \in EventKinds : Record(k)

Spec == Init /\ [][Next]_vars
=============================================================================
