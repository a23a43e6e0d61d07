--------------------------- MODULE AgentRunProofs ---------------------------
(***************************************************************************)
(* Proofs about AgentRun, for any configuration, any completions and any   *)
(* faults: type correctness, the budgets, the accounting of the loop, and  *)
(* that the trail of a run refines RunContract.                            *)
(***************************************************************************)
EXTENDS AgentRun, TLAPS

Tooling == {"handler", "search", "returned", "failed"}

-----------------------------------------------------------------------------
(* Types                                                                   *)

LEMMA EmitType ==
  ASSUME ToolTypeOK, NEW k \in EventKinds, Emit(k)
  PROVE  /\ last' \in EventKinds
         /\ count' \in [EventKinds -> Nat]
BY DEF ToolTypeOK, Emit

LEMMA ToolStepType == ToolTypeOK /\ ToolStep => ToolTypeOK'
<1> SUFFICES ASSUME ToolTypeOK, ToolStep PROVE ToolTypeOK'
  OBVIOUS
<1> USE DEF trailVars
<1>1. CASE Deny
  <2>1. Emit("tool.denied") /\ "tool.denied" \in EventKinds
    BY <1>1 DEF Deny, EventKinds
  <2> QED
    BY <1>1, <2>1, EmitType DEF Deny, ToolTypeOK
<1>2. CASE UnknownTool
  BY <1>2 DEF UnknownTool, ToolTypeOK
<1>3. CASE Admit
  <2>1. Emit("tool.invoke") /\ "tool.invoke" \in EventKinds
    BY <1>3 DEF Admit, EventKinds
  <2> QED
    BY <1>3, <2>1, EmitType DEF Admit, ToolTypeOK
<1>4. CASE CloseInvocation
  <2>1. \E k \in EventKinds : Emit(k)
    BY <1>4 DEF CloseInvocation, EventKinds
  <2> QED
    BY <1>4, <2>1, EmitType DEF CloseInvocation, ToolTypeOK, NoScan
<1>5. CASE AuditRaises
  BY <1>5 DEF AuditRaises, ToolTypeOK
<1>6. CASE Refuse
  BY <1>6 DEF Refuse, ToolTypeOK
<1>7. CASE ReadFile
  <2>1. CASE UNCHANGED <<budgets, effects>>
    BY <1>7, <2>1 DEF ReadFile, InHandler, ToolTypeOK
  <2>2. CASE ~UNCHANGED <<budgets, effects>>
    <3>1. PICK length \in 0..MaxFileSize :
            \E charge \in Charges(length) :
              /\ budgets' = [budgets EXCEPT !.read_bytes = @ + charge]
              /\ effects' = [effects EXCEPT !.bytes = @ + length]
      BY <1>7, <2>2 DEF ReadFile
    <3>2. \A charge \in Charges(length) : charge \in Nat
      BY BudgetAssumption DEF Charges
    <3> QED
      BY <1>7, <2>2, <3>1, <3>2 DEF ReadFile, InHandler, ToolTypeOK
  <2> QED
    BY <2>1, <2>2
<1>8. CASE ListDirectory
  BY <1>8 DEF ListDirectory, InHandler, ToolTypeOK
<1>9. CASE StartSearch
  BY <1>9 DEF StartSearch, InHandler, ToolTypeOK
<1>10. CASE SearchFile
  <2>1. PICK length \in 0..AtMost(MaxFileSize, MaxReadBytes),
             hits \in 0..(MaxSearchHits - scan.hits) :
          \E charge \in Charges(length) :
            /\ budgets' = [budgets EXCEPT !.read_bytes = @ + charge]
            /\ effects' = [effects EXCEPT !.bytes = @ + length]
            /\ scan' = [files |-> scan.files + 1, hits |-> scan.hits + hits]
    BY <1>10 DEF SearchFile
  <2>2. length \in Nat /\ hits \in Nat
    BY BudgetAssumption DEF AtMost, ToolTypeOK
  <2>3. \A charge \in Charges(length) : charge \in Nat
    BY BudgetAssumption, <2>2 DEF Charges
  <2>4. at' \in {"returned", "search"}
    BY <1>10 DEF SearchFile
  <2> QED
    BY <1>10, <2>1, <2>2, <2>3, <2>4 DEF SearchFile, ToolTypeOK
<1>11. CASE SearchFails
  BY <1>11 DEF SearchFails, ToolTypeOK
<1>12. CASE SearchEnds
  BY <1>12 DEF SearchEnds, ToolTypeOK
<1>13. CASE RunPython
  BY <1>13 DEF RunPython, InHandler, ToolTypeOK
<1>14. CASE WriteFile
  BY <1>14 DEF WriteFile, InHandler, ToolTypeOK
<1> QED
  BY <1>1, <1>2, <1>3, <1>4, <1>5, <1>6, <1>7, <1>8, <1>9, <1>10, <1>11,
     <1>12, <1>13, <1>14 DEF ToolStep

\* A completion is dealt with before the last iteration is over.
Iterating == pc \in {"reply", "invalid", "tool"} => i < MaxIterations

LEMMA TypeInvariant == Spec => [](TypeOK /\ Iterating)
<1>1. Init => TypeOK /\ Iterating
  BY LoopAssumption
  DEF Init, ToolInit, NoScan, NoResult, TypeOK, ToolTypeOK, Iterating
<1>2. TypeOK /\ Iterating /\ [Next]_vars => TypeOK' /\ Iterating'
  <2> SUFFICES ASSUME TypeOK, Iterating, [Next]_vars
               PROVE  TypeOK' /\ Iterating'
    OBVIOUS
  <2> USE LoopAssumption DEF TypeOK, Iterating
  <2>1. CASE Raise
    BY <2>1 DEF Raise, ToolTypeOK, toolVars, counterVars
  <2>2. CASE Start
    <3>1. Emit("agent.start") /\ "agent.start" \in EventKinds
      BY <2>2 DEF Start, EventKinds
    <3> QED
      BY <2>2, <3>1, EmitType DEF Start, ToolTypeOK, callVars, counterVars
  <2>3. CASE Complete
    <3>1. Emit("agent.completion") /\ "agent.completion" \in EventKinds
      BY <2>3 DEF Complete, EventKinds
    <3> QED
      BY <2>3, <3>1, EmitType DEF Complete, ToolTypeOK, callVars, counterVars
  <2>4. CASE CallTool
    BY <2>4 DEF CallTool, InvokeTool, ToolTypeOK, trailVars
  <2>5. CASE RunTool
    BY <2>5, ToolStepType DEF RunTool, loopVars
  <2>6. CASE RejectCall
    <3>1. Emit("agent.invalid_tool_call") /\ "agent.invalid_tool_call" \in EventKinds
      BY <2>6 DEF RejectCall, EventKinds
    <3> QED
      BY <2>6, <3>1, EmitType DEF RejectCall, ToolTypeOK, callVars
  <2>7. CASE Observe
    BY <2>7 DEF Observe, NextIteration, ToolTypeOK, toolVars, counterVars
  <2>8. CASE BreakCircuit
    <3>1. Emit("agent.circuit_breaker") /\ "agent.circuit_breaker" \in EventKinds
      BY <2>8 DEF BreakCircuit, EventKinds
    <3> QED
      BY <2>8, <3>1, EmitType
      DEF BreakCircuit, Return, ToolTypeOK, callVars, counterVars
  <2>9. CASE ExplainRejection
    BY <2>9 DEF ExplainRejection, NextIteration, ToolTypeOK, toolVars, counterVars
  <2>10. CASE RetryJson
    BY <2>10 DEF RetryJson, NextIteration, ToolTypeOK, toolVars
  <2>11. CASE Answer
    <3>1. Emit("agent.done") /\ "agent.done" \in EventKinds
      BY <2>11 DEF Answer, EventKinds
    <3> QED
      BY <2>11, <3>1, EmitType DEF Answer, Return, ToolTypeOK, callVars, counterVars
  <2>12. CASE GiveUp
    <3>1. Emit("agent.max_iterations") /\ "agent.max_iterations" \in EventKinds
      BY <2>12 DEF GiveUp, EventKinds
    <3> QED
      BY <2>12, <3>1, EmitType DEF GiveUp, Return, ToolTypeOK, callVars, counterVars
  <2>13. CASE UNCHANGED vars
    BY <2>13 DEF vars, toolVars, loopVars, ToolTypeOK
  <2> QED
    BY <2>1, <2>2, <2>3, <2>4, <2>5, <2>6, <2>7, <2>8, <2>9, <2>10, <2>11,
       <2>12, <2>13 DEF Next, Step, Over
<1> QED
  BY <1>1, <1>2, PTL DEF Spec

(***************************************************************************)
(* The variables of a run and of its registry keep their types (harness.py *)
(* and tools.py; TypeOK).                                                  *)
(***************************************************************************)
THEOREM TypeCorrect == Spec => []TypeOK
BY TypeInvariant, PTL

(***************************************************************************)
(* The registry keeps its types in every run, for any limits, sizes of     *)
(* files and faults (tools.py, RunBudgets and invoke).                     *)
(***************************************************************************)
THEOREM ToolTypeCorrect == Spec => []ToolTypeOK
<1>1. TypeOK => ToolTypeOK
  BY DEF TypeOK
<1> QED
  BY <1>1, TypeCorrect, PTL

-----------------------------------------------------------------------------
(* Budgets: what the handlers did is never more than what was charged.     *)

Charged ==
  /\ effects.programs <= budgets.python_execs
  /\ effects.programs <= MaxPythonExecs
  /\ effects.bytes <= budgets.read_bytes
  /\ effects.bytes <= MaxTotalReadBytes + MaxReadBytes
  /\ budgets.read_bytes <= MaxTotalReadBytes + Expansion * MaxReadBytes

LEMMA ChargeBounds ==
  ASSUME NEW length \in Nat, length <= MaxReadBytes, NEW charge \in Charges(length)
  PROVE  /\ charge \in Nat
         /\ length <= charge
         /\ charge <= Expansion * MaxReadBytes
<1>1. Expansion * length <= Expansion * MaxReadBytes
  BY BudgetAssumption
<1>2. charge \in Nat /\ length <= charge /\ charge <= Expansion * length
  BY BudgetAssumption DEF Charges
<1> QED
  BY <1>1, <1>2, BudgetAssumption

LEMMA ChargedStep == ToolTypeOK /\ Charged /\ ToolStep => Charged'
<1> SUFFICES ASSUME ToolTypeOK, Charged, ToolStep PROVE Charged'
  OBVIOUS
<1> USE DEF Charged
<1>1. CASE UNCHANGED effects /\ UNCHANGED <<budgets.python_execs, budgets.read_bytes>>
  BY <1>1
<1>2. CASE ReadFile
  <2>1. CASE UNCHANGED <<budgets, effects>>
    BY <2>1
  <2>2. CASE ~UNCHANGED <<budgets, effects>>
    <3>1. PICK size \in 0..MaxFileSize, length \in 0..MaxFileSize :
            /\ budgets.read_bytes + AtMost(size, MaxReadBytes) <= MaxTotalReadBytes
            /\ length <= MaxReadBytes
            /\ \E charge \in Charges(length) :
                 budgets' = [budgets EXCEPT !.read_bytes = @ + charge]
            /\ effects' = [effects EXCEPT !.bytes = @ + length]
      BY <1>2, <2>2 DEF ReadFile
    <3>2. PICK charge \in Charges(length) :
            budgets' = [budgets EXCEPT !.read_bytes = @ + charge]
      BY <3>1
    <3>3. charge \in Nat /\ length <= charge /\ charge <= Expansion * MaxReadBytes
      BY <3>1, ChargeBounds
    <3>4. budgets.read_bytes <= MaxTotalReadBytes
      BY <3>1, BudgetAssumption DEF AtMost, ToolTypeOK
    <3>5. Expansion * MaxReadBytes \in Nat
      BY BudgetAssumption
    <3> HIDE DEF Charges
    <3> QED
      BY <3>1, <3>2, <3>3, <3>4, <3>5, BudgetAssumption DEF ToolTypeOK
  <2> QED
    BY <2>1, <2>2
<1>3. CASE SearchFile
  <2>1. PICK length \in 0..AtMost(MaxFileSize, MaxReadBytes) :
          /\ effects' = [effects EXCEPT !.bytes = @ + length]
          /\ \E charge \in Charges(length) :
               budgets' = [budgets EXCEPT !.read_bytes = @ + charge]
    BY <1>3 DEF SearchFile
  <2>2. length \in Nat /\ length <= MaxReadBytes
    BY BudgetAssumption DEF AtMost
  <2>3. PICK charge \in Charges(length) :
          budgets' = [budgets EXCEPT !.read_bytes = @ + charge]
    BY <2>1
  <2>4. charge \in Nat /\ length <= charge /\ charge <= Expansion * MaxReadBytes
    BY <2>2, ChargeBounds
  <2>5. budgets.read_bytes <= MaxTotalReadBytes
    BY <1>3, BudgetAssumption DEF SearchFile, ToolTypeOK
  <2>6. Expansion * MaxReadBytes \in Nat
    BY BudgetAssumption
  <2> QED
    BY <2>1, <2>2, <2>3, <2>4, <2>5, <2>6, BudgetAssumption DEF ToolTypeOK
<1>4. CASE RunPython
  BY <1>4, BudgetAssumption DEF RunPython, ToolTypeOK
<1>5. CASE WriteFile
  BY <1>5 DEF WriteFile, ToolTypeOK
<1>6. CASE Deny
  BY <1>6 DEF Deny, ToolTypeOK
<1> QED
  BY <1>1, <1>2, <1>3, <1>4, <1>5, <1>6
  DEF ToolStep, UnknownTool, Admit, CloseInvocation, AuditRaises, Refuse,
      ListDirectory, StartSearch, SearchFails, SearchEnds

-----------------------------------------------------------------------------
(* The accounting of the loop.  Calls is what the registry has counted and *)
(* recorded; Progress is where the loop stands in each of its states.      *)

Recorded == count["tool.denied"] + count["tool.invoke"]

Calls ==
  /\ count["agent.invalid_tool_call"] = invalid_tool_calls
  /\ count["tool.denied"] = budgets.denials
  /\ budgets.tool_calls = tool_calls
  /\ pc \in {"start", "complete", "reply", "invalid", "returned"} => at = "idle"
  /\ at = "checks" => Recorded + 1 = tool_calls
  /\ at \notin {"checks", "raised"} => Recorded = tool_calls
  /\ count["tool.invoke"] <= MaxToolCalls

Taken == tool_calls + invalid_tool_calls + json_retries

Progress ==
  /\ pc = "start" =>
       /\ i = 0 /\ Taken = 0 /\ messages = 0
       /\ last = "none" /\ count["agent.completion"] = 0
  /\ pc = "complete" =>
       /\ Taken = i /\ count["agent.completion"] = i /\ messages = 2 * i
       /\ last = "agent.start" \/ Contract!Settled
  /\ pc = "reply" =>
       /\ Taken = i /\ count["agent.completion"] = i + 1 /\ messages = 2 * i
       /\ last = "agent.completion"
  /\ pc = "invalid" =>
       /\ Taken = i + 1 /\ count["agent.completion"] = i + 1 /\ messages = 2 * i
       /\ last = "agent.invalid_tool_call"
  /\ pc = "tool" =>
       /\ Taken = i + 1 /\ count["agent.completion"] = i + 1 /\ messages = 2 * i
       /\ at = "checks" => last = "agent.completion"
       /\ at \in Tooling => last = "tool.invoke"
       /\ at = "idle" => last \in {"tool.denied", "tool.error", "tool.result"}
  /\ ResultMatchesTrail

LoopInv == Calls /\ Progress

\* What a record does to the counts.
LEMMA EmitCounts ==
  ASSUME ToolTypeOK, NEW k \in EventKinds, Emit(k)
  PROVE  /\ last' = k
         /\ count'[k] = count[k] + 1
         /\ \A j \in EventKinds \ {k} : count'[j] = count[j]
         /\ \A j \in EventKinds : count[j] \in Nat /\ count'[j] \in Nat
BY DEF ToolTypeOK, Emit

LEMMA LoopInit == Init => LoopInv
BY BudgetAssumption
DEF Init, ToolInit, LoopInv, Calls, Recorded, Taken, Progress,
    ResultMatchesTrail, EventKinds

\* The steps of the registry.
LEMMA LoopTool ==
  ASSUME TypeOK, LoopInv, RunTool
  PROVE  LoopInv'
<1> USE DEF TypeOK, LoopInv, Calls, Recorded, Taken, Progress,
            ResultMatchesTrail, Tooling
<1>1. pc = "tool" /\ UNCHANGED loopVars /\ ToolStep
  BY DEF RunTool
<1>2. CASE Deny
  <2>1. Emit("tool.denied") /\ "tool.denied" \in EventKinds
    BY <1>2 DEF Deny, EventKinds
  <2>2. /\ last' = "tool.denied"
        /\ count'["tool.denied"] = count["tool.denied"] + 1
        /\ \A j \in {"agent.invalid_tool_call", "tool.invoke", "agent.completion"} :
             count'[j] = count[j] /\ count[j] \in Nat
    BY <2>1, EmitCounts DEF EventKinds
  <2> QED
    BY <1>1, <1>2, <2>2 DEF Deny, loopVars, ToolTypeOK, EventKinds
<1>3. CASE Admit
  <2>1. Emit("tool.invoke") /\ "tool.invoke" \in EventKinds
    BY <1>3 DEF Admit, EventKinds
  <2>2. /\ last' = "tool.invoke"
        /\ count'["tool.invoke"] = count["tool.invoke"] + 1
        /\ \A j \in {"agent.invalid_tool_call", "tool.denied", "agent.completion"} :
             count'[j] = count[j] /\ count[j] \in Nat
    BY <2>1, EmitCounts DEF EventKinds
  <2>3. budgets.tool_calls <= MaxToolCalls
    BY <1>3 DEF Admit, Admissible, WithinCallBudget
  <2> QED
    BY <1>1, <1>3, <2>2, <2>3, BudgetAssumption
    DEF Admit, loopVars, ToolTypeOK, EventKinds
<1>4. CASE CloseInvocation
  <2>1. PICK k \in {"tool.result", "tool.error"} : Emit(k)
    BY <1>4 DEF CloseInvocation
  <2>2. /\ last' = k
        /\ \A j \in {"agent.invalid_tool_call", "tool.denied", "tool.invoke",
                     "agent.completion"} : count'[j] = count[j]
    BY <2>1, EmitCounts DEF EventKinds
  <2> QED
    BY <1>1, <1>4, <2>2 DEF CloseInvocation, loopVars
<1>5. CASE UnknownTool \/ AuditRaises
  BY <1>1, <1>5 DEF UnknownTool, AuditRaises, loopVars, trailVars
<1>6. ASSUME /\ at \in Tooling /\ at' \in Tooling /\ UNCHANGED trailVars
             /\ UNCHANGED <<budgets.tool_calls, budgets.denials>>
      PROVE  LoopInv'
  BY <1>1, <1>6 DEF loopVars, trailVars
<1>7. CASE Refuse \/ ListDirectory \/ StartSearch \/ SearchFails \/ SearchEnds
  BY <1>6, <1>7
  DEF Refuse, ListDirectory, StartSearch, SearchFails, SearchEnds, InHandler
<1>8. CASE ReadFile
  <2>1. /\ budgets'.tool_calls = budgets.tool_calls
        /\ budgets'.denials = budgets.denials
    BY <1>8 DEF ReadFile, ToolTypeOK
  <2> QED
    BY <1>6, <1>8, <2>1 DEF ReadFile, InHandler
<1>9. CASE SearchFile
  <2>1. /\ budgets'.tool_calls = budgets.tool_calls
        /\ budgets'.denials = budgets.denials
        /\ at' \in {"returned", "search"}
    BY <1>9 DEF SearchFile, ToolTypeOK
  <2> QED
    BY <1>6, <1>9, <2>1 DEF SearchFile
<1>10. CASE RunPython
  <2>1. /\ budgets'.tool_calls = budgets.tool_calls
        /\ budgets'.denials = budgets.denials
    BY <1>10 DEF RunPython, ToolTypeOK
  <2> QED
    BY <1>6, <1>10, <2>1 DEF RunPython, InHandler
<1>11. CASE WriteFile
  BY <1>6, <1>11 DEF WriteFile, InHandler
<1> QED
  BY <1>1, <1>2, <1>3, <1>4, <1>5, <1>7, <1>8, <1>9, <1>10, <1>11 DEF ToolStep

LEMMA LoopStep == TypeOK /\ LoopInv /\ [Next]_vars => LoopInv'
<1> SUFFICES ASSUME TypeOK, LoopInv, [Next]_vars PROVE LoopInv'
  OBVIOUS
<1> USE DEF TypeOK, LoopInv, Calls, Recorded, Taken, Progress,
            ResultMatchesTrail
<1>1. CASE Raise
  BY <1>1 DEF Raise, toolVars, counterVars
<1>2. CASE Start
  <2>1. Emit("agent.start") /\ "agent.start" \in EventKinds
    BY <1>2 DEF Start, EventKinds
  <2>2. /\ last' = "agent.start"
        /\ \A j \in {"agent.invalid_tool_call", "tool.denied", "tool.invoke",
                     "agent.completion"} : count'[j] = count[j]
    BY <2>1, EmitCounts DEF EventKinds
  <2> QED
    BY <1>2, <2>2 DEF Start, callVars, counterVars
<1>3. CASE Complete
  <2>1. Emit("agent.completion") /\ "agent.completion" \in EventKinds
    BY <1>3 DEF Complete, EventKinds
  <2>2. /\ last' = "agent.completion"
        /\ count'["agent.completion"] = count["agent.completion"] + 1
        /\ \A j \in {"agent.invalid_tool_call", "tool.denied", "tool.invoke"} :
             count'[j] = count[j]
    BY <2>1, EmitCounts DEF EventKinds
  <2> QED
    BY <1>3, <2>2 DEF Complete, callVars, counterVars
<1>4. CASE CallTool
  <2>1. /\ pc = "reply" /\ pc' = "tool" /\ at = "idle" /\ at' = "checks"
        /\ budgets' = [budgets EXCEPT !.tool_calls = @ + 1]
        /\ tool_calls' = tool_calls + 1
        /\ UNCHANGED <<trailVars, i, invalid_tool_calls, json_retries, messages, result>>
    BY <1>4 DEF CallTool, InvokeTool
  <2> QED
    BY <2>1 DEF trailVars, ToolTypeOK, Tooling
<1>5. CASE RunTool
  BY <1>5, LoopTool
<1>6. CASE Observe
  <2>1. Contract!Settled'
    BY <1>6 DEF Observe, toolVars, Contract!Settled
  <2> QED
    BY <1>6, <2>1 DEF Observe, NextIteration, toolVars, counterVars
<1>7. CASE RejectCall
  <2>1. Emit("agent.invalid_tool_call") /\ "agent.invalid_tool_call" \in EventKinds
    BY <1>7 DEF RejectCall, EventKinds
  <2>2. /\ last' = "agent.invalid_tool_call"
        /\ count'["agent.invalid_tool_call"] = count["agent.invalid_tool_call"] + 1
        /\ \A j \in {"agent.completion", "tool.denied", "tool.invoke"} :
             count'[j] = count[j]
    BY <2>1, EmitCounts DEF EventKinds
  <2> QED
    BY <1>7, <2>2 DEF RejectCall, callVars
<1>8. CASE BreakCircuit
  <2>1. Emit("agent.circuit_breaker") /\ "agent.circuit_breaker" \in EventKinds
    BY <1>8 DEF BreakCircuit, EventKinds
  <2>2. \A j \in {"agent.invalid_tool_call", "agent.completion", "tool.denied",
                  "tool.invoke"} : count'[j] = count[j]
    BY <2>1, EmitCounts DEF EventKinds
  <2> QED
    BY <1>8, <2>2 DEF BreakCircuit, Return, callVars, counterVars
<1>9. CASE ExplainRejection
  <2>1. Contract!Settled'
    BY <1>9 DEF ExplainRejection, toolVars, Contract!Settled
  <2> QED
    BY <1>9, <2>1 DEF ExplainRejection, NextIteration, toolVars, counterVars
<1>10. CASE RetryJson
  <2>1. Contract!Settled'
    BY <1>10
    DEF RetryJson, toolVars, ToolTypeOK, EventKinds, Contract!Settled,
        Contract!Answers
  <2> QED
    BY <1>10, <2>1 DEF RetryJson, NextIteration, toolVars
<1>11. CASE Answer
  <2>1. Emit("agent.done") /\ "agent.done" \in EventKinds
    BY <1>11 DEF Answer, EventKinds
  <2>2. \A j \in {"agent.invalid_tool_call", "agent.completion", "tool.denied",
                  "tool.invoke"} : count'[j] = count[j]
    BY <2>1, EmitCounts DEF EventKinds
  <2> QED
    BY <1>11, <2>2 DEF Answer, Return, callVars, counterVars
<1>12. CASE GiveUp
  <2>1. Emit("agent.max_iterations") /\ "agent.max_iterations" \in EventKinds
    BY <1>12 DEF GiveUp, EventKinds
  <2>2. \A j \in {"agent.invalid_tool_call", "agent.completion", "tool.denied",
                  "tool.invoke"} : count'[j] = count[j]
    BY <2>1, EmitCounts DEF EventKinds
  <2> QED
    BY <1>12, <2>2 DEF GiveUp, Return, callVars, counterVars
<1>13. CASE UNCHANGED vars
  BY <1>13 DEF vars, toolVars, loopVars, Contract!Settled, Contract!Answers
<1> QED
  BY <1>1, <1>2, <1>3, <1>4, <1>5, <1>6, <1>7, <1>8, <1>9, <1>10, <1>11,
     <1>12, <1>13 DEF Next, Step, Over

LEMMA LoopInvariant == Spec => []LoopInv
BY LoopInit, LoopStep, TypeCorrect, PTL DEF Spec

(***************************************************************************)
(* At the head of the loop every completion is accounted for once          *)
(* (LoopAccounting; harness.py, run).                                      *)
(***************************************************************************)
THEOREM AccountingHolds == Spec => []LoopAccounting
<1>1. TypeOK /\ LoopInv => LoopAccounting
  BY DEF TypeOK, LoopInv, Calls, Recorded, Progress, Taken, LoopAccounting
<1> QED
  BY <1>1, LoopInvariant, TypeCorrect, PTL

(***************************************************************************)
(* What run returns agrees with the trail it left (ResultMatchesTrail;     *)
(* harness.py, run).                                                       *)
(***************************************************************************)
THEOREM ResultHolds == Spec => []ResultMatchesTrail
<1>1. LoopInv => ResultMatchesTrail
  BY DEF LoopInv, Progress
<1> QED
  BY <1>1, LoopInvariant, PTL

-----------------------------------------------------------------------------
(* Any caller of the registry                                              *)

(***************************************************************************)
(* What the registry promises does not rest on the loop that calls it: the *)
(* caller may ask for any name with any arguments, as often as it likes    *)
(* (tools.py, invoke, is public), and writes records of its own between    *)
(* invocations, of kinds the registry does not use.                        *)
(***************************************************************************)
ToolRecords == {"tool.denied", "tool.invoke", "tool.error", "tool.result"}

CallerStep ==
  \/ \E name, valid : InvokeTool(name, valid)
  \/ /\ at = "idle"
     /\ \E k \in EventKinds \ ToolRecords : Emit(k)
     /\ UNCHANGED callVars

RegistryNext == ToolStep \/ CallerStep

RegistrySpec == ToolInit /\ [][RegistryNext]_toolVars

\* The invocation being checked has been counted and has no record yet.
Opened ==
  /\ count["tool.invoke"] <= MaxToolCalls
  /\ count["tool.invoke"] <= budgets.tool_calls
  /\ at = "checks" => count["tool.invoke"] < budgets.tool_calls

\* Inside a handler the tool was authorised and its record is the last.
Entered ==
  at \in {"handler", "search"} => last = "tool.invoke" /\ Authorised(call.name)

RegistryInv == ToolTypeOK /\ Charged /\ Opened /\ Entered

LEMMA RegistryInit == ToolInit => RegistryInv
<1> SUFFICES ASSUME ToolInit PROVE RegistryInv
  OBVIOUS
<1>1. ToolTypeOK
  BY DEF ToolInit, ToolTypeOK, NoScan
<1>2. Charged
  <2>1. Expansion * MaxReadBytes \in Nat
    BY BudgetAssumption
  <2> QED
    BY <2>1, BudgetAssumption DEF ToolInit, Charged
<1>3. Opened /\ Entered
  BY BudgetAssumption DEF ToolInit, Opened, Entered, EventKinds
<1> QED
  BY <1>1, <1>2, <1>3 DEF RegistryInv

LEMMA OpenedStep ==
  ASSUME ToolTypeOK, Opened, RegistryNext
  PROVE  Opened'
<1>0. /\ count["tool.invoke"] \in Nat /\ budgets.tool_calls \in Nat
      /\ "tool.invoke" \in EventKinds
  BY DEF ToolTypeOK, EventKinds
<1>1. CASE Admit
  <2>1. count'["tool.invoke"] = count["tool.invoke"] + 1
    BY <1>0, <1>1 DEF Admit, Emit, ToolTypeOK
  <2> QED
    BY <1>0, <1>1, <2>1, BudgetAssumption
    DEF Admit, Admissible, WithinCallBudget, Opened
<1>2. ASSUME NEW name, NEW valid, InvokeTool(name, valid) PROVE Opened'
  BY <1>0, <1>2 DEF InvokeTool, trailVars, Opened, ToolTypeOK
<1>3. ASSUME at' # "checks", count'["tool.invoke"] = count["tool.invoke"],
             budgets'.tool_calls = budgets.tool_calls
      PROVE  Opened'
  BY <1>3 DEF Opened
<1>4. ASSUME NEW k \in EventKinds, Emit(k), k # "tool.invoke"
      PROVE  count'["tool.invoke"] = count["tool.invoke"]
  BY <1>0, <1>4 DEF Emit, ToolTypeOK
<1>5. CASE Deny
  <2>1. "tool.denied" \in EventKinds /\ budgets'.tool_calls = budgets.tool_calls
    BY <1>5 DEF Deny, EventKinds, ToolTypeOK
  <2> QED
    BY <1>3, <1>4, <1>5, <2>1 DEF Deny
<1>6. CASE CloseInvocation
  <2>1. {"tool.result", "tool.error"} \subseteq EventKinds
    BY DEF EventKinds
  <2> QED
    BY <1>3, <1>4, <1>6, <2>1 DEF CloseInvocation
<1>7. CASE UnknownTool \/ AuditRaises \/ Refuse \/ ListDirectory \/ StartSearch
           \/ SearchFails \/ SearchEnds \/ WriteFile
  BY <1>3, <1>7 DEF UnknownTool, AuditRaises, Refuse, ListDirectory, StartSearch,
                    SearchFails, SearchEnds, WriteFile, trailVars
<1>8. CASE ReadFile
  <2>1. budgets'.tool_calls = budgets.tool_calls
    BY <1>8 DEF ReadFile, ToolTypeOK
  <2> QED
    BY <1>3, <1>8, <2>1 DEF ReadFile, InHandler, trailVars
<1>9. CASE SearchFile
  <2>1. budgets'.tool_calls = budgets.tool_calls
    BY <1>9 DEF SearchFile, ToolTypeOK
  <2>2. at' # "checks"
    BY <1>9 DEF SearchFile
  <2> QED
    BY <1>3, <1>9, <2>1, <2>2 DEF SearchFile, trailVars
<1>10. CASE RunPython
  <2>1. budgets'.tool_calls = budgets.tool_calls /\ at' # "checks"
    BY <1>10 DEF RunPython, InHandler, ToolTypeOK
  <2> QED
    BY <1>3, <1>10, <2>1 DEF RunPython, trailVars
<1>11. CASE at = "idle" /\ (\E k \in EventKinds \ ToolRecords : Emit(k)) /\ UNCHANGED callVars
  BY <1>3, <1>4, <1>11 DEF callVars, ToolRecords
<1> QED
  BY <1>1, <1>2, <1>5, <1>6, <1>7, <1>8, <1>9, <1>10, <1>11
  DEF RegistryNext, CallerStep, ToolStep

LEMMA EnteredStep ==
  ASSUME Entered, RegistryNext
  PROVE  Entered' /\ (effects' # effects => last = "tool.invoke" /\ Authorised(call.name))
<1>1. ASSUME at \in {"handler", "search"}, UNCHANGED <<call, last>>
      PROVE  Entered' /\ (effects' # effects => last = "tool.invoke" /\ Authorised(call.name))
  BY <1>1 DEF Entered, Authorised
<1>2. ASSUME at' \notin {"handler", "search"}, UNCHANGED effects
      PROVE  Entered' /\ (effects' # effects => last = "tool.invoke" /\ Authorised(call.name))
  BY <1>2 DEF Entered
<1>3. CASE Admit
  BY <1>3 DEF Admit, Admissible, Authorised, Emit, Entered
<1>4. CASE Deny \/ UnknownTool \/ CloseInvocation \/ AuditRaises
  BY <1>2, <1>4 DEF Deny, UnknownTool, CloseInvocation, AuditRaises
<1>5. CASE Refuse \/ ReadFile \/ ListDirectory \/ StartSearch \/ SearchFile
           \/ SearchFails \/ SearchEnds \/ RunPython \/ WriteFile
  BY <1>1, <1>5 DEF Refuse, ReadFile, ListDirectory, StartSearch, SearchFile, SearchFails,
                    SearchEnds, RunPython, WriteFile, InHandler, trailVars
<1>6. CASE CallerStep
  BY <1>2, <1>6 DEF CallerStep, InvokeTool, callVars
<1> QED
  BY <1>3, <1>4, <1>5, <1>6 DEF RegistryNext, ToolStep

LEMMA RegistryStep == RegistryInv /\ [RegistryNext]_toolVars => RegistryInv'
<1> SUFFICES ASSUME RegistryInv, RegistryNext PROVE RegistryInv'
  BY DEF RegistryInv, toolVars, ToolTypeOK, Charged, Opened, Entered, Authorised
<1>1. ASSUME NEW name, NEW valid, InvokeTool(name, valid)
      PROVE  ToolTypeOK' /\ Charged'
  BY <1>1 DEF InvokeTool, trailVars, RegistryInv, ToolTypeOK, Charged
<1>2. ASSUME NEW k \in EventKinds, Emit(k), UNCHANGED callVars
      PROVE  ToolTypeOK' /\ Charged'
  BY <1>2, EmitType DEF callVars, RegistryInv, ToolTypeOK, Charged
<1>3. ToolTypeOK' /\ Charged'
  BY <1>1, <1>2, ToolStepType, ChargedStep DEF RegistryInv, RegistryNext, CallerStep
<1> QED
  BY <1>3, OpenedStep, EnteredStep DEF RegistryInv

LEMMA RegistryInvariant == RegistrySpec => []RegistryInv
BY RegistryInit, RegistryStep, PTL DEF RegistrySpec

(***************************************************************************)
(* The registry keeps its types under any caller, for any limits, sizes of *)
(* files and faults (ToolTypeOK; tools.py, RunBudgets and invoke).         *)
(***************************************************************************)
THEOREM AnyCallerTypes == RegistrySpec => []ToolTypeOK
BY RegistryInvariant, PTL DEF RegistryInv

(***************************************************************************)
(* The budgets cap what the handlers do under any caller, the bytes up to  *)
(* one file (BudgetsHold; tools.py, invoke and the handlers).              *)
(***************************************************************************)
THEOREM AnyCallerBudgets == RegistrySpec => []BudgetsHold
<1>1. RegistryInv => BudgetsHold
  BY DEF RegistryInv, Charged, Opened, BudgetsHold
<1> QED
  BY <1>1, RegistryInvariant, PTL

(***************************************************************************)
(* Under any caller, a handler touches the workspace or the sandbox only   *)
(* inside an invocation of an authorised tool whose record is the last of  *)
(* the trail (EffectsAreAudited; tools.py, invoke).                        *)
(***************************************************************************)
THEOREM AnyCallerAudited == RegistrySpec => EffectsAreAudited
<1>1. RegistryInv /\ [RegistryNext]_toolVars =>
        [effects' # effects => last = "tool.invoke" /\ Authorised(call.name)]_toolVars
  BY EnteredStep DEF RegistryInv
<1> QED
  BY <1>1, RegistryInvariant, PTL DEF RegistrySpec, EffectsAreAudited

(***************************************************************************)
(* The loop of a run is such a caller: it invokes tools and writes its     *)
(* records only while the registry is idle (harness.py, run).              *)
(***************************************************************************)
THEOREM RunIsACaller == Spec => RegistrySpec
<1>1. Init => ToolInit
  BY DEF Init
<1>2. LoopInv /\ [Next]_vars => [RegistryNext]_toolVars
  <2> SUFFICES ASSUME LoopInv, [Next]_vars PROVE [RegistryNext]_toolVars
    OBVIOUS
  <2>1. CASE RunTool
    BY <2>1 DEF RunTool, RegistryNext
  <2>2. CASE CallTool
    BY <2>2 DEF CallTool, RegistryNext, CallerStep
  <2>3. CASE Start \/ Complete \/ RejectCall \/ BreakCircuit \/ Answer \/ GiveUp
    <3>1. at = "idle" /\ UNCHANGED callVars
      BY <2>3 DEF Start, Complete, RejectCall, BreakCircuit, Answer, GiveUp, LoopInv, Calls
    <3>2. {"agent.start", "agent.completion", "agent.invalid_tool_call",
           "agent.circuit_breaker", "agent.done", "agent.max_iterations"}
            \subseteq EventKinds \ ToolRecords
      BY DEF EventKinds, ToolRecords
    <3>3. \E k \in EventKinds \ ToolRecords : Emit(k)
      BY <2>3, <3>2 DEF Start, Complete, RejectCall, BreakCircuit, Answer, GiveUp
    <3> QED
      BY <3>1, <3>3 DEF RegistryNext, CallerStep
  <2>4. CASE UNCHANGED toolVars
    BY <2>4
  <2> QED
    BY <2>1, <2>2, <2>3, <2>4
    DEF Next, Step, Over, Raise, Observe, ExplainRejection, RetryJson, vars
<1> QED
  BY <1>1, <1>2, LoopInvariant, PTL DEF Spec, RegistrySpec

(***************************************************************************)
(* The budgets cap what a run does, the bytes up to one file               *)
(* (BudgetsHold; tools.py, invoke and the handlers).                       *)
(***************************************************************************)
THEOREM BudgetsRespected == Spec => []BudgetsHold
BY RunIsACaller, AnyCallerBudgets, PTL

(***************************************************************************)
(* In every run, a handler touches the workspace or the sandbox only       *)
(* inside an invocation of an authorised tool whose record is the last of  *)
(* the trail (EffectsAreAudited; tools.py, invoke).                        *)
(***************************************************************************)
THEOREM EffectsRecorded == Spec => EffectsAreAudited
BY RunIsACaller, AnyCallerAudited, PTL

-----------------------------------------------------------------------------
(* How long a run can take                                                 *)

(***************************************************************************)
(* StepsLeft bounds the steps a run still has before it: Width for each    *)
(* iteration that may still come, what is left of the present one, and the *)
(* final record.  The longest way through an iteration is a search, with a *)
(* step for each file it may read.                                         *)
(***************************************************************************)
Width == MaxSearchFiles + 7

ToolStepsLeft ==
  CASE at = "checks"                 -> MaxSearchFiles + 5
    [] at = "handler"                -> MaxSearchFiles + 4
    [] at = "search"                 -> (MaxSearchFiles - scan.files) + 3
    [] at \in {"returned", "failed"} -> 2
    [] at \in {"raised", "idle"}     -> 1

IterationLeft ==
  CASE pc = "reply"   -> MaxSearchFiles + 6
    [] pc = "tool"    -> ToolStepsLeft
    [] pc = "invalid" -> 1

StepsLeft ==
  CASE pc = "start"                      -> MaxIterations * Width + 2
    [] pc = "complete"                   -> (MaxIterations - i) * Width + 1
    [] pc \in {"reply", "invalid", "tool"} ->
         (MaxIterations - (i + 1)) * Width + 1 + IterationLeft
    [] pc \in {"returned", "raised"}     -> 0

ScanBounded == scan.files <= MaxSearchFiles

LEMMA ScanStep == ToolTypeOK /\ ScanBounded /\ [RegistryNext]_toolVars => ScanBounded'
<1> SUFFICES ASSUME ToolTypeOK, ScanBounded, [RegistryNext]_toolVars PROVE ScanBounded'
  OBVIOUS
<1>1. CASE SearchFile
  <2>1. PICK hits : scan' = [files |-> scan.files + 1, hits |-> hits]
    BY <1>1 DEF SearchFile
  <2> QED
    BY <1>1, <2>1, BudgetAssumption DEF SearchFile, ToolTypeOK, ScanBounded
<1>2. CASE scan' = NoScan
  BY <1>2, BudgetAssumption DEF NoScan, ScanBounded
<1>3. CASE UNCHANGED scan
  BY <1>3 DEF ScanBounded
<1> QED
  BY <1>1, <1>2, <1>3
  DEF RegistryNext, CallerStep, ToolStep, InvokeTool, callVars, toolVars, Deny, UnknownTool,
      Admit, CloseInvocation, AuditRaises, Refuse, ReadFile, ListDirectory, StartSearch,
      SearchFails, SearchEnds, RunPython, WriteFile

LEMMA ToolStepsType ==
  ASSUME ToolTypeOK, ScanBounded
  PROVE  ToolStepsLeft \in 1..(MaxSearchFiles + 5)
<1>1. /\ MaxSearchFiles \in Nat /\ scan.files \in 0..MaxSearchFiles
      /\ at \in {"idle", "checks", "handler", "search", "returned", "failed", "raised"}
  BY BudgetAssumption DEF ToolTypeOK, ScanBounded
<1> QED
  BY <1>1 DEF ToolStepsLeft

LEMMA ToolStepsDecrease ==
  ASSUME ToolTypeOK, ScanBounded, ToolStep
  PROVE  ToolStepsLeft' < ToolStepsLeft
<1>0. MaxSearchFiles \in Nat /\ scan.files \in 0..MaxSearchFiles
  BY BudgetAssumption DEF ToolTypeOK, ScanBounded
<1> USE <1>0 DEF ToolStepsLeft
<1>1. CASE SearchFile
  <2>1. /\ at = "search" /\ at' \in {"returned", "search"} /\ scan.files < MaxSearchFiles
        /\ scan'.files = scan.files + 1
    BY <1>1 DEF SearchFile
  <2> QED
    BY <2>1
<1>2. CASE StartSearch
  BY <1>2 DEF StartSearch, InHandler
<1>3. CASE Admit
  BY <1>3 DEF Admit
<1>4. CASE Deny \/ UnknownTool \/ CloseInvocation \/ AuditRaises
  BY <1>4 DEF Deny, UnknownTool, CloseInvocation, AuditRaises
<1>5. CASE Refuse \/ ListDirectory \/ SearchFails \/ SearchEnds \/ WriteFile
  BY <1>5 DEF Refuse, ListDirectory, SearchFails, SearchEnds, WriteFile, InHandler
<1>6. CASE ReadFile \/ RunPython
  <2>1. at = "handler" /\ at' \in {"returned", "failed"}
    BY <1>6 DEF ReadFile, RunPython, InHandler
  <2> QED
    BY <2>1
<1> QED
  BY <1>1, <1>2, <1>3, <1>4, <1>5, <1>6 DEF ToolStep

\* An iteration that is over takes its share of the bound with it.
LEMMA RoundsLeft ==
  ASSUME NEW n \in Nat, n < MaxIterations
  PROVE  /\ (MaxIterations - n) * Width = (MaxIterations - (n + 1)) * Width + Width
         /\ (MaxIterations - (n + 1)) * Width \in Nat
         /\ Width \in Nat
<1>1. Width \in Nat /\ MaxIterations \in Nat
  BY BudgetAssumption, LoopAssumption DEF Width
<1>2. PICK m \in Nat : MaxIterations = (n + 1) + m
  <2>1. MaxIterations - (n + 1) \in Nat
    BY <1>1
  <2> QED
    BY <1>1, <2>1
<1>3. MaxIterations - n = m + 1 /\ MaxIterations - (n + 1) = m
  BY <1>2
<1>4. (m + 1) * Width = m * Width + Width /\ m * Width \in Nat
  BY <1>1
<1> QED
  BY <1>1, <1>3, <1>4

LEMMA StepsType ==
  ASSUME TypeOK, Iterating, ScanBounded
  PROVE  StepsLeft \in Nat
<1>1. i \in Nat /\ i <= MaxIterations /\ MaxIterations \in Nat /\ Width \in Nat
  BY BudgetAssumption, LoopAssumption DEF TypeOK, Width
<1>2. CASE pc \in {"start", "returned", "raised"}
  BY <1>1, <1>2 DEF StepsLeft
<1>3. CASE pc = "complete"
  <2>1. MaxIterations - i \in Nat
    BY <1>1
  <2> QED
    BY <1>1, <1>3, <2>1 DEF StepsLeft
<1>4. CASE pc \in {"reply", "invalid", "tool"}
  <2>1. (MaxIterations - (i + 1)) * Width \in Nat
    BY <1>1, <1>4, RoundsLeft DEF Iterating
  <2>2. IterationLeft \in Nat
    BY <1>4, ToolStepsType, BudgetAssumption DEF IterationLeft, TypeOK
  <2> QED
    BY <1>4, <2>1, <2>2 DEF StepsLeft
<1> QED
  BY <1>2, <1>3, <1>4 DEF TypeOK

LEMMA StepsDecrease ==
  ASSUME TypeOK, Iterating, LoopInv, ScanBounded, Step
  PROVE  StepsLeft' < StepsLeft
<1> DEFINE now == (MaxIterations - i) * Width
           next == (MaxIterations - (i + 1)) * Width
<1>0. /\ i \in Nat /\ MaxIterations \in Nat /\ MaxSearchFiles \in Nat
      /\ Width = MaxSearchFiles + 7 /\ StepsLeft \in Nat
  BY BudgetAssumption, LoopAssumption, StepsType DEF TypeOK, Width
<1>1. i < MaxIterations => now = next + Width /\ next \in Nat
  BY <1>0, RoundsLeft
<1>2. CASE Raise
  <2>1. StepsLeft' = 0 /\ pc \in {"start", "complete", "reply", "invalid", "tool"}
    BY <1>2 DEF Raise, StepsLeft
  <2>2. IterationLeft \in Nat \ {0} \/ pc \in {"start", "complete"}
    BY <1>0, <2>1, ToolStepsType DEF IterationLeft, TypeOK
  <2>3. pc = "start" => StepsLeft > 0
    <3>1. MaxIterations * Width \in Nat
      BY <1>0
    <3> QED
      BY <3>1 DEF StepsLeft
  <2>4. pc = "complete" => StepsLeft > 0
    <3>1. MaxIterations - i \in Nat
      BY <1>0 DEF TypeOK
    <3>2. now \in Nat
      BY <1>0, <3>1
    <3> QED
      BY <3>2 DEF StepsLeft
  <2>5. pc \in {"reply", "invalid", "tool"} => StepsLeft > 0
    BY <1>1, <2>2 DEF StepsLeft, Iterating
  <2> QED
    BY <2>1, <2>3, <2>4, <2>5
<1>3. CASE Start
  <2>1. pc = "start" /\ pc' = "complete" /\ i' = 0
    BY <1>3 DEF Start, LoopInv, Progress
  <2>2. MaxIterations - 0 = MaxIterations /\ MaxIterations * Width \in Nat
    BY <1>0
  <2> QED
    BY <2>1, <2>2 DEF StepsLeft
<1>4. CASE Complete
  <2>1. pc = "complete" /\ i < MaxIterations /\ pc' = "reply" /\ i' = i
    BY <1>4 DEF Complete
  <2>2. StepsLeft = now + 1 /\ StepsLeft' = next + 1 + (MaxSearchFiles + 6)
    BY <2>1 DEF StepsLeft, IterationLeft
  <2> HIDE DEF now, next
  <2> QED
    BY <1>0, <1>1, <2>1, <2>2
\* The rest of an iteration.
<1>5. ASSUME pc \in {"reply", "invalid", "tool"}, pc' \in {"invalid", "tool"}, i' = i,
             IterationLeft' \in Nat, IterationLeft \in Nat, IterationLeft' < IterationLeft
      PROVE  StepsLeft' < StepsLeft
  <2>1. StepsLeft = next + 1 + IterationLeft /\ StepsLeft' = next + 1 + IterationLeft'
    BY <1>5 DEF StepsLeft
  <2>2. next \in Nat
    BY <1>1, <1>5 DEF Iterating
  <2> HIDE DEF next
  <2>3. \A a, b, c \in Nat : a < b => c + 1 + a < c + 1 + b
    OBVIOUS
  <2>4. next + 1 + IterationLeft' < next + 1 + IterationLeft
    BY <1>5, <2>2, <2>3
  <2> QED
    BY <2>1, <2>4
<1>6. CASE CallTool
  <2>1. pc = "reply" /\ pc' = "tool" /\ i' = i /\ at' = "checks"
    BY <1>6 DEF CallTool, InvokeTool
  <2>2. IterationLeft = MaxSearchFiles + 6 /\ IterationLeft' = MaxSearchFiles + 5
    BY <2>1 DEF IterationLeft, ToolStepsLeft
  <2> QED
    BY <1>0, <1>5, <2>1, <2>2
<1>7. CASE RunTool
  <2>1. pc = "tool" /\ pc' = "tool" /\ i' = i /\ ToolStep
    BY <1>7 DEF RunTool, loopVars
  <2>2. ToolStepsLeft' < ToolStepsLeft /\ ToolStepsLeft \in Nat /\ ToolStepsLeft' \in Nat
    <3>1. ToolTypeOK' /\ ScanBounded'
      BY <2>1, ToolStepType, ScanStep DEF TypeOK, RegistryNext
    <3>2. ToolStepsLeft' \in 1..(MaxSearchFiles + 5)
      <4>1. /\ scan'.files \in 0..MaxSearchFiles
            /\ at' \in {"idle", "checks", "handler", "search", "returned", "failed", "raised"}
        BY <1>0, <3>1 DEF ToolTypeOK, ScanBounded
      <4> QED
        BY <1>0, <4>1 DEF ToolStepsLeft
    <3>3. ToolStepsLeft \in 1..(MaxSearchFiles + 5)
      BY ToolStepsType DEF TypeOK
    <3> QED
      BY <1>0, <2>1, <3>2, <3>3, ToolStepsDecrease DEF TypeOK
  <2>3. IterationLeft = ToolStepsLeft /\ IterationLeft' = ToolStepsLeft'
    BY <2>1 DEF IterationLeft
  <2> QED
    BY <1>5, <2>1, <2>2, <2>3
<1>8. CASE RejectCall
  <2>1. pc = "reply" /\ pc' = "invalid" /\ i' = i
    BY <1>8 DEF RejectCall
  <2>2. IterationLeft = MaxSearchFiles + 6 /\ IterationLeft' = 1
    BY <2>1 DEF IterationLeft
  <2> QED
    BY <1>0, <1>5, <2>1, <2>2
\* The end of an iteration.
<1>9. ASSUME pc \in {"reply", "invalid", "tool"}, pc' = "complete", i' = i + 1
      PROVE  StepsLeft' < StepsLeft
  <2>1. StepsLeft = next + 1 + IterationLeft /\ StepsLeft' = next + 1
    BY <1>9 DEF StepsLeft
  <2>2. next \in Nat /\ IterationLeft \in Nat \ {0}
    BY <1>0, <1>1, <1>9, ToolStepsType DEF Iterating, IterationLeft, TypeOK
  <2> HIDE DEF next
  <2> QED
    BY <2>1, <2>2
<1>10. CASE Observe \/ ExplainRejection \/ RetryJson
  BY <1>9, <1>10 DEF Observe, ExplainRejection, RetryJson, NextIteration
<1>11. ASSUME pc \in {"complete", "reply", "invalid"}, pc' = "returned"
       PROVE  StepsLeft' < StepsLeft
  <2>1. StepsLeft' = 0
    BY <1>11 DEF StepsLeft
  <2>2. CASE pc = "complete"
    <3>1. MaxIterations - i \in Nat
      BY <1>0 DEF TypeOK
    <3>2. now \in Nat
      BY <1>0, <3>1
    <3>3. StepsLeft = now + 1
      BY <2>2 DEF StepsLeft
    <3> HIDE DEF now
    <3> QED
      BY <2>1, <3>2, <3>3
  <2>3. CASE pc \in {"reply", "invalid"}
    <3>1. IterationLeft \in Nat /\ next \in Nat
      BY <1>0, <1>1, <2>3 DEF Iterating, IterationLeft
    <3>2. StepsLeft = next + 1 + IterationLeft
      BY <2>3 DEF StepsLeft
    <3> HIDE DEF next
    <3> QED
      BY <2>1, <3>1, <3>2
  <2> QED
    BY <1>11, <2>2, <2>3
<1>12. CASE BreakCircuit \/ Answer \/ GiveUp
  BY <1>11, <1>12 DEF BreakCircuit, Answer, GiveUp, Return
<1> QED
  BY <1>2, <1>3, <1>4, <1>6, <1>7, <1>8, <1>10, <1>12 DEF Step

(***************************************************************************)
(* A run takes at most MaxIterations * (MaxSearchFiles + 7) + 2 steps,     *)
(* whatever the model answers and whatever fails: StepsLeft starts at that *)
(* number, stays a natural number, and each step of the run lowers it      *)
(* (harness.py, the for loop of run; tools.py, _search_text).  This is the *)
(* part of Terminates that does not rest on fairness.                      *)
(***************************************************************************)
THEOREM RunsAreBounded ==
  /\ Init => StepsLeft = MaxIterations * (MaxSearchFiles + 7) + 2
  /\ Spec => [](StepsLeft \in Nat)
  /\ Spec => [][StepsLeft' < StepsLeft]_vars
<1>1. Init => StepsLeft = MaxIterations * (MaxSearchFiles + 7) + 2
  BY DEF Init, StepsLeft, Width
<1>2. Spec => []ScanBounded
  <2>1. ToolInit => ScanBounded
    BY BudgetAssumption DEF ToolInit, NoScan, ScanBounded
  <2>2. RegistrySpec => []ScanBounded
    BY <2>1, ScanStep, AnyCallerTypes, PTL DEF RegistrySpec
  <2> QED
    BY <2>2, RunIsACaller, PTL
<1>3. TypeOK /\ Iterating /\ ScanBounded => StepsLeft \in Nat
  BY StepsType
<1>4. TypeOK /\ Iterating /\ LoopInv /\ ScanBounded /\ [Next]_vars => [StepsLeft' < StepsLeft]_vars
  BY StepsDecrease DEF Next, Over
<1>5. Spec => [](StepsLeft \in Nat)
  BY <1>2, <1>3, TypeInvariant, PTL
<1>6. Spec => [][StepsLeft' < StepsLeft]_vars
  BY <1>2, <1>4, TypeInvariant, LoopInvariant, PTL DEF Spec
<1> QED
  BY <1>1, <1>5, <1>6

-----------------------------------------------------------------------------
(* Refinement of RunContract                                               *)

\* A record that may follow is a step of the contract.
LEMMA RecordStep ==
  ASSUME NEW k \in EventKinds, Emit(k), Contract!CanFollow(k)
  PROVE  Contract!Next
BY DEF Emit, Contract!Next, Contract!Record

\* The records of the registry.
LEMMA ToolContract ==
  ASSUME TypeOK, LoopInv, RunTool
  PROVE  [Contract!Next]_(Contract!vars)
<1> USE DEF TypeOK, LoopInv, Calls, Recorded, Progress, Tooling
<1>1. pc = "tool" /\ ToolStep
  BY DEF RunTool
<1>2. CASE Deny
  <2>1. Contract!CanFollow("tool.denied")
    BY <1>1, <1>2 DEF Deny, Contract!CanFollow
  <2> QED
    BY <1>2, <2>1, RecordStep, "tool.denied" \in EventKinds DEF Deny, EventKinds
<1>3. CASE Admit
  <2>1. count["tool.invoke"] + count["tool.denied"] < MaxToolCalls
    BY <1>1, <1>3, BudgetAssumption
    DEF Admit, Admissible, WithinCallBudget, ToolTypeOK, EventKinds
  <2>2. Contract!CanFollow("tool.invoke")
    BY <1>1, <1>3, <2>1 DEF Admit, Contract!CanFollow
  <2> QED
    BY <1>3, <2>2, RecordStep, "tool.invoke" \in EventKinds DEF Admit, EventKinds
<1>4. CASE CloseInvocation
  <2>1. Contract!CanFollow("tool.result") /\ Contract!CanFollow("tool.error")
    BY <1>1, <1>4 DEF CloseInvocation, Contract!CanFollow
  <2>2. PICK k \in {"tool.result", "tool.error"} : Emit(k)
    BY <1>4 DEF CloseInvocation
  <2> QED
    BY <2>1, <2>2, RecordStep, k \in EventKinds DEF EventKinds
<1>5. CASE UNCHANGED trailVars
  BY <1>5 DEF trailVars, Contract!vars
<1> QED
  BY <1>1, <1>2, <1>3, <1>4, <1>5
  DEF ToolStep, UnknownTool, AuditRaises, Refuse, ReadFile, ListDirectory,
      StartSearch, SearchFile, SearchFails, SearchEnds, RunPython, WriteFile

LEMMA ContractStep ==
  TypeOK /\ LoopInv /\ [Next]_vars => [Contract!Next]_(Contract!vars)
<1> SUFFICES ASSUME TypeOK, LoopInv, [Next]_vars
             PROVE  [Contract!Next]_(Contract!vars)
  OBVIOUS
<1> USE DEF TypeOK, LoopInv, Calls, Progress
<1>1. CASE RunTool
  BY <1>1, ToolContract
<1>2. CASE Start
  <2>1. Contract!CanFollow("agent.start")
    BY <1>2 DEF Start, Contract!CanFollow
  <2> QED
    BY <1>2, <2>1, RecordStep, "agent.start" \in EventKinds DEF Start, EventKinds
<1>3. CASE Complete
  <2>1. Contract!CanFollow("agent.completion")
    BY <1>3 DEF Complete, Contract!CanFollow
  <2> QED
    BY <1>3, <2>1, RecordStep, "agent.completion" \in EventKinds
    DEF Complete, EventKinds
<1>4. CASE RejectCall
  <2>1. Contract!CanFollow("agent.invalid_tool_call")
    BY <1>4 DEF RejectCall, Contract!CanFollow
  <2> QED
    BY <1>4, <2>1, RecordStep, "agent.invalid_tool_call" \in EventKinds
    DEF RejectCall, EventKinds
<1>5. CASE BreakCircuit
  <2>1. Contract!CanFollow("agent.circuit_breaker")
    BY <1>5 DEF BreakCircuit, Contract!CanFollow
  <2> QED
    BY <1>5, <2>1, RecordStep, "agent.circuit_breaker" \in EventKinds
    DEF BreakCircuit, EventKinds
<1>6. CASE Answer
  <2>1. Contract!CanFollow("agent.done")
    BY <1>6 DEF Answer, Contract!CanFollow
  <2> QED
    BY <1>6, <2>1, RecordStep, "agent.done" \in EventKinds DEF Answer, EventKinds
<1>7. CASE GiveUp
  <2>1. Contract!CanFollow("agent.max_iterations")
    BY <1>7 DEF GiveUp, Contract!CanFollow
  <2> QED
    BY <1>7, <2>1, RecordStep, "agent.max_iterations" \in EventKinds
    DEF GiveUp, EventKinds
<1>8. CASE UNCHANGED trailVars
  BY <1>8 DEF trailVars, Contract!vars
<1> QED
  BY <1>1, <1>2, <1>3, <1>4, <1>5, <1>6, <1>7, <1>8
  DEF Next, Step, Over, Raise, CallTool, InvokeTool, Observe,
      ExplainRejection, RetryJson, vars, toolVars, trailVars

(***************************************************************************)
(* The audit trail of every run keeps the contract: the detailed run       *)
(* implements RunContract (KeepsContract; harness.py, run; tools.py,       *)
(* invoke).                                                                *)
(***************************************************************************)
THEOREM Refinement == Spec => KeepsContract
<1>1. Init => Contract!Init
  BY DEF Init, ToolInit, Contract!Init
<1> QED
  BY <1>1, ContractStep, LoopInvariant, TypeCorrect, PTL
  DEF Spec, KeepsContract, Contract!Spec
=============================================================================
