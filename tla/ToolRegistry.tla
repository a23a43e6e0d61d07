---------------------------- MODULE ToolRegistry ----------------------------
(***************************************************************************)
(* agent/tools.py: one run's ToolRegistry, its budgets, and the tool it is *)
(* serving.  An invocation passes the checks of invoke, enters a handler,  *)
(* and comes back with a result; at every call of emit the audit log may   *)
(* raise OSError, which leaves invoke.                                     *)
(*                                                                         *)
(* The workspace belongs to others too: what stat said of a file need not  *)
(* hold when it is read.  Sizes are in bytes; text is charged re-encoded,  *)
(* and a byte that is not UTF-8 comes back as Expansion bytes of U+FFFD.   *)
(***************************************************************************)
EXTENDS Naturals

CONSTANTS
  AllowedTools,       \* security.allowed_tools
  GrantedTools,       \* tools whose capability is in allowed_capabilities
  PolicyTools,        \* tools the policy allows for tool.invoke
  MaxToolCalls,       \* max_total_tool_calls_per_run
  MaxTotalReadBytes,  \* max_total_read_bytes_per_run
  MaxPythonExecs,     \* max_total_python_execs_per_run
  MaxReadBytes,       \* max_read_bytes, of one file
  MaxSearchFiles,     \* max_search_files
  MaxSearchHits,      \* max_search_hits
  Expansion,          \* bytes a decoded byte may be charged (3 in UTF-8)
  Faults,             \* "audit": emit raises; "backend": complete raises
  MaxFileSize         \* bound on the sizes of workspace files

Handlers ==
  {"read_file", "list_directory", "search_text", "run_python", "write_file"}

ASSUME BudgetAssumption ==
  /\ {MaxToolCalls, MaxTotalReadBytes, MaxPythonExecs} \subseteq Nat
  /\ {MaxReadBytes, MaxSearchFiles, MaxFileSize} \subseteq Nat
  /\ {MaxSearchHits, Expansion} \subseteq Nat \ {0}

EventKinds ==
  {"agent.start", "agent.completion", "agent.invalid_tool_call",
   "agent.circuit_breaker", "agent.done", "agent.max_iterations",
   "tool.denied", "tool.invoke", "tool.error", "tool.result"}

VARIABLES
  at,       \* where invoke stands
  call,     \* the tool it serves, and whether its arguments are valid
  budgets,  \* the run's RunBudgets
  scan,     \* the counters of _search_text
  last,     \* kind of the last audit event of the run
  count,    \* count[k]: audit events of kind k of the run
  effects   \* what the handlers did: bytes read, programs run and
            \* files written (history)

trailVars == <<last, count>>
toolVars == <<at, call, budgets, scan, last, count, effects>>

NoCall == [name |-> "none", valid |-> FALSE]
NoScan == [files |-> 0, hits |-> 0]

ToolTypeOK ==
  /\ at \in {"idle", "checks", "handler", "search", "returned", "failed", "raised"}
  /\ budgets \in [tool_calls : Nat, read_bytes : Nat, python_execs : Nat,
                  denials : Nat]
  /\ scan \in [files : Nat, hits : Nat]
  /\ last \in EventKinds \cup {"none"}
  /\ count \in [EventKinds -> Nat]
  /\ effects \in [bytes : Nat, programs : Nat, writes : Nat]

ToolInit ==
  /\ at = "idle"
  /\ call = NoCall
  /\ budgets = [tool_calls |-> 0, read_bytes |-> 0, python_execs |-> 0,
                denials |-> 0]
  /\ scan = NoScan
  /\ last = "none"
  /\ count = [k \in EventKinds |-> 0]
  /\ effects = [bytes |-> 0, programs |-> 0, writes |-> 0]

\* audit.emit of a record of kind k.
Emit(k) ==
  /\ last' = k
  /\ count' = [count EXCEPT ![k] = @ + 1]

-----------------------------------------------------------------------------
(* invoke                                                                  *)

\* An invocation counts before anything is checked.
InvokeTool(name, valid) ==
  /\ at = "idle"
  /\ call' = [name |-> name, valid |-> valid]
  /\ budgets' = [budgets EXCEPT !.tool_calls = @ + 1]
  /\ at' = "checks"
  /\ UNCHANGED <<scan, trailVars, effects>>

\* Mutation: the call is checked as if it had not been counted yet.
WithinCallBudgetOffByOne == budgets.tool_calls <= MaxToolCalls + 1

WithinCallBudget == budgets.tool_calls <= MaxToolCalls

\* The allowlist, the tool's capability, and the signed policy.
Authorised(name) == name \in AllowedTools \cap GrantedTools \cap PolicyTools

\* An allowed name that is no tool: _capability_for_tool raises.
NoSuchTool == WithinCallBudget /\ call.name \in AllowedTools \ Handlers

Admissible ==
  /\ WithinCallBudget
  /\ Authorised(call.name)
  /\ call.name \in Handlers
  /\ call.valid

UnknownTool ==
  /\ at = "checks"
  /\ NoSuchTool
  /\ at' = "raised"
  /\ UNCHANGED <<call, budgets, scan, trailVars, effects>>

Deny ==
  /\ at = "checks"
  /\ ~NoSuchTool
  /\ ~Admissible
  /\ Emit("tool.denied")
  /\ budgets' = [budgets EXCEPT !.denials = @ + 1]
  /\ at' = "idle"
  /\ UNCHANGED <<call, scan, effects>>

\* Mutation: the handler is entered without a tool.invoke record.
AdmitSilently ==
  /\ at = "checks"
  /\ Admissible
  /\ at' = "handler"
  /\ UNCHANGED <<call, budgets, scan, trailVars, effects>>

Admit ==
  /\ at = "checks"
  /\ Admissible
  /\ Emit("tool.invoke")
  /\ at' = "handler"
  /\ UNCHANGED <<call, budgets, scan, effects>>

\* Mutation: an exception of the handler is not recorded.
CloseUnlessFailed ==
  /\ \/ at = "returned" /\ Emit("tool.result")
     \/ at = "failed" /\ UNCHANGED trailVars
  /\ at' = "idle"
  /\ scan' = NoScan
  /\ UNCHANGED <<call, budgets, effects>>

\* The handler's ToolResult, ok or not, and its exception, are both events.
CloseInvocation ==
  /\ \/ at = "returned" /\ Emit("tool.result")
     \/ at = "failed" /\ Emit("tool.error")
  /\ at' = "idle"
  /\ scan' = NoScan
  /\ UNCHANGED <<call, budgets, effects>>

\* emit raises: nothing of the step it belongs to happens.
AuditRaises ==
  /\ "audit" \in Faults
  /\ at \in {"checks", "returned", "failed"}
  /\ ~(at = "checks" /\ NoSuchTool)
  /\ at' = "raised"
  /\ UNCHANGED <<call, budgets, scan, trailVars, effects>>

-----------------------------------------------------------------------------
(* The handlers                                                            *)

InHandler(name) == at = "handler" /\ call.name = name

\* A bad path, the path's policy, a missing file: an error or an exception
\* before anything was done.
Refuse ==
  /\ at = "handler"
  /\ call.name # "run_python"
  /\ at' \in {"returned", "failed"}
  /\ UNCHANGED <<call, budgets, scan, trailVars, effects>>

AtMost(a, b) == IF a <= b THEN a ELSE b

\* What the bytes of a file cost once decoded and encoded again.
Charges(bytes) == bytes .. Expansion * bytes

\* The file's size is taken with stat, the budget checked with it, and then
\* the file, of whatever size it has by now, is read.
ReadFile ==
  /\ InHandler("read_file")
  /\ \E size, length \in 0..MaxFileSize :
       \/ /\ budgets.read_bytes + AtMost(size, MaxReadBytes) > MaxTotalReadBytes
          /\ at' = "returned"
          /\ UNCHANGED <<budgets, effects>>
       \/ /\ budgets.read_bytes + AtMost(size, MaxReadBytes) <= MaxTotalReadBytes
          /\ length > MaxReadBytes
          /\ at' = "failed"
          /\ UNCHANGED <<budgets, effects>>
       \/ /\ budgets.read_bytes + AtMost(size, MaxReadBytes) <= MaxTotalReadBytes
          /\ length <= MaxReadBytes
          /\ \E charge \in Charges(length) :
               budgets' = [budgets EXCEPT !.read_bytes = @ + charge]
          /\ effects' = [effects EXCEPT !.bytes = @ + length]
          /\ at' = "returned"
  /\ UNCHANGED <<call, scan, trailVars>>

ListDirectory ==
  /\ InHandler("list_directory")
  /\ at' = "returned"
  /\ UNCHANGED <<call, budgets, scan, trailVars, effects>>

StartSearch ==
  /\ InHandler("search_text")
  /\ at' = "search"
  /\ UNCHANGED <<call, budgets, scan, trailVars, effects>>

\* The next file of the walk that is a regular file of an allowed extension
\* and of a size that may be read.  The budget stops the walk only here, so
\* the file that passes it may be of any size.
SearchFile ==
  /\ at = "search"
  /\ scan.files < MaxSearchFiles
  /\ budgets.read_bytes < MaxTotalReadBytes
  /\ \E length \in 0..AtMost(MaxFileSize, MaxReadBytes) :
     \E charge \in Charges(length), hits \in 0..(MaxSearchHits - scan.hits) :
       /\ budgets' = [budgets EXCEPT !.read_bytes = @ + charge]
       /\ effects' = [effects EXCEPT !.bytes = @ + length]
       /\ scan' = [files |-> scan.files + 1, hits |-> scan.hits + hits]
       /\ at' = IF scan.hits + hits >= MaxSearchHits THEN "returned" ELSE "search"
  /\ UNCHANGED <<call, trailVars>>

\* A file that cannot be opened, or grew, raises SandboxError: the search is
\* over, and its hits are lost.
SearchFails ==
  /\ at = "search"
  /\ scan.files < MaxSearchFiles
  /\ budgets.read_bytes < MaxTotalReadBytes
  /\ at' = "failed"
  /\ UNCHANGED <<call, budgets, scan, trailVars, effects>>

\* No file is left, or the next one meets a limit.
SearchEnds ==
  /\ at = "search"
  /\ at' = "returned"
  /\ UNCHANGED <<call, budgets, scan, trailVars, effects>>

RunPython ==
  /\ InHandler("run_python")
  /\ budgets' = [budgets EXCEPT !.python_execs = @ + 1]
  /\ IF budgets.python_execs + 1 > MaxPythonExecs
       THEN at' = "returned" /\ UNCHANGED effects
       ELSE /\ effects' = [effects EXCEPT !.programs = @ + 1]
            /\ at' \in {"returned", "failed"}
  /\ UNCHANGED <<call, scan, trailVars>>

WriteFile ==
  /\ InHandler("write_file")
  /\ effects' = [effects EXCEPT !.writes = @ + 1]
  /\ at' \in {"returned", "failed"}
  /\ UNCHANGED <<call, budgets, scan, trailVars>>

ToolStep ==
  \/ Deny
  \/ UnknownTool
  \/ Admit
  \/ CloseInvocation
  \/ AuditRaises
  \/ Refuse
  \/ ReadFile
  \/ ListDirectory
  \/ StartSearch
  \/ SearchFile
  \/ SearchFails
  \/ SearchEnds
  \/ RunPython
  \/ WriteFile

-----------------------------------------------------------------------------
(* Properties                                                              *)

(***************************************************************************)
(* What the budgets really cap: handlers entered, programs run, and bytes  *)
(* read, the last up to the one file that may pass the check with any      *)
(* size, and in charged bytes up to what that file costs (tools.py,        *)
(* invoke, _read_file, _search_text, _run_python).                         *)
(***************************************************************************)
BudgetsHold ==
  /\ count["tool.invoke"] <= MaxToolCalls
  /\ effects.programs <= MaxPythonExecs
  /\ effects.bytes <= MaxTotalReadBytes + MaxReadBytes
  /\ budgets.read_bytes <= MaxTotalReadBytes + Expansion * MaxReadBytes

(***************************************************************************)
(* A handler touches the workspace or the sandbox only inside an           *)
(* invocation of an authorised tool whose tool.invoke record is the last   *)
(* of the trail: no effect is unaudited, none outlives its invocation      *)
(* (tools.py, invoke).                                                     *)
(***************************************************************************)
EffectsAreAudited ==
  [][effects' # effects => last = "tool.invoke" /\ Authorised(call.name)]_toolVars
=============================================================================
