------------------------------ MODULE ServeApi ------------------------------
(***************************************************************************)
(* cli.py: serve.  One thread per request works on the session store, the  *)
(* replay cache and the metrics they share.  A request that passed the     *)
(* bearer check is received with its kind, its token, its session and      *)
(* whether its body is any good.                                           *)
(*                                                                         *)
(* The replay cache is what ReplayCache shows it to be while tokens are    *)
(* neither expired nor evicted: accept is one step, which may fail to      *)
(* write the file, and a restart reads the file or finds it unreadable.    *)
(* Of a run (AgentRun) only its tool invocations are kept, and of the      *)
(* three budgets a token narrows, each in the same way, only their number. *)
(***************************************************************************)
EXTENDS SessionStore

CONSTANTS
  Threads,        \* handler threads
  Tokens,         \* validly signed tokens, each with a nonce of its own
  TokenPath,      \* TokenPath[k]: the path token k is for
  TokenCaps,      \* TokenCaps[k]: its capabilities
  TokenCalls,     \* TokenCalls[k]: its max_total_tool_calls_per_run
  ConfigCaps,     \* security.allowed_capabilities
  ConfigCalls,    \* security.max_total_tool_calls_per_run
  MaxIterations,  \* agent.max_iterations, the most invocations of a run
  None,           \* no session, no run
  MaxRequests,    \* bound on the requests served by one process
  MaxKills        \* bound on restarts

Capabilities == ConfigCaps \cup UNION {TokenCaps[k] : k \in Tokens}

ASSUME ServeAssumption ==
  /\ TokenPath \in [Tokens -> {"run", "sessions"}]
  /\ TokenCalls \in [Tokens -> Nat]
  /\ {ConfigCalls, MaxIterations, MaxRequests, MaxKills} \subseteq Nat
  /\ None \notin Sessions \cup Runs \cup Tokens
  /\ IsFiniteSet(Threads)

VARIABLES
  handler,  \* handler[t]: where do_POST stands in thread t, and with what
  accepted, \* nonces in the replay cache, by their tokens
  saved,    \* those in its file
  metrics,  \* the MetricsRegistry
  started,  \* runs started (history)
  answered, \* answered[r]: the session run r was answered in (history)
  ended,    \* runs of this process that were answered, or lost their
            \* connection to an exception, and the tool calls of the runs
            \* that ended without a result (history)
  spent,    \* spent[k]: the tools opened with token k since the nonces were
            \* last lost, their number and their capabilities (history)
  kills     \* restarts (history)

countVars == <<started, answered, ended, spent, kills>>
nonceVars == <<accepted, saved>>
serveVars == <<handler, nonceVars, metrics, countVars>>
vars == <<sessionVars, serveVars>>

Idle == [pc |-> "idle", token |-> None, session |-> None, run |-> None,
         caps |-> {}, limit |-> 0, calls |-> 0]

NoMetrics == [runs_total |-> 0, runs_failed |-> 0, tool_calls_total |-> 0,
              tool_denials_total |-> 0, api_requests_total |-> 0]

NothingSpent == [k \in Tokens |-> [calls |-> 0, caps |-> {}]]

NoneEnded == [ok |-> 0, dropped |-> 0, calls |-> 0]

TypeOK ==
  /\ SessionTypeOK
  /\ handler \in [Threads ->
       [pc : {"idle", "accept", "body", "scoped", "running", "ran", "counted",
              "stored"},
        token : Tokens \cup {None}, session : Sessions \cup {None},
        run : Runs \cup {None}, caps : SUBSET Capabilities,
        limit : Nat, calls : 0..MaxIterations]]
  /\ accepted \subseteq Tokens
  /\ saved \subseteq Tokens
  /\ metrics \in [runs_total : Nat, runs_failed : Nat, tool_calls_total : Nat,
                  tool_denials_total : Nat, api_requests_total : 0..MaxRequests]
  /\ started \subseteq Runs
  /\ answered \in [Runs -> Sessions \cup {None}]
  /\ ended \in [ok : Nat, dropped : Nat, calls : Nat]
  /\ spent \in [Tokens -> [calls : Nat, caps : SUBSET Capabilities]]
  /\ kills \in 0..MaxKills

Init ==
  /\ SessionInit
  /\ handler = [t \in Threads |-> Idle]
  /\ accepted = {}
  /\ saved = {}
  /\ metrics = NoMetrics
  /\ started = {}
  /\ answered = [r \in Runs |-> None]
  /\ ended = NoneEnded
  /\ spent = NothingSpent
  /\ kills = 0

-----------------------------------------------------------------------------
At(t, pc) == handler[t].pc = pc

Goto(t, pc) == handler' = [handler EXCEPT ![t].pc = pc]

\* The thread is done with its request.
Leave(t) == handler' = [handler EXCEPT ![t] = Idle]

CountRequest ==
  /\ metrics.api_requests_total < MaxRequests
  /\ metrics' = [metrics EXCEPT !.api_requests_total = @ + 1]

\* The requests served in one step, a thread's refusals included: a bad
\* bearer token, a capability token that is not for the path.
Refuse ==
  /\ CountRequest
  /\ UNCHANGED <<sessionVars, handler, nonceVars, countVars>>

\* POST /v1/sessions verifies the token and leaves its nonce alone.
CreateSession(k) ==
  /\ CountRequest
  /\ TokenPath[k] = "sessions"
  /\ \E s \in Sessions : Create(s)
  /\ UNCHANGED <<handler, nonceVars, countVars>>

ShowSession(s) ==
  /\ CountRequest
  /\ GetHistory(s)
  /\ UNCHANGED <<handler, nonceVars, countVars>>

DeleteSession(s) ==
  /\ CountRequest
  /\ Delete(s)
  /\ UNCHANGED <<handler, nonceVars, countVars>>

ShowMetrics ==
  /\ CountRequest
  /\ Stats
  /\ UNCHANGED <<handler, nonceVars, countVars>>

-----------------------------------------------------------------------------
(* POST /v1/agent/run                                                      *)

Receive(t, k) ==
  /\ At(t, "idle")
  /\ CountRequest
  /\ TokenPath[k] = "run"
  /\ handler' = [handler EXCEPT ![t] = [Idle EXCEPT !.pc = "accept", !.token = k]]
  /\ UNCHANGED <<sessionVars, nonceVars, countVars>>

\* Mutation: the nonce is looked up and not recorded.
AcceptUnrecorded(t) ==
  /\ At(t, "accept")
  /\ IF handler[t].token \in accepted
       THEN Leave(t)
       ELSE Goto(t, "body")
  /\ UNCHANGED <<sessionVars, nonceVars, metrics, countVars>>

\* A replay is forbidden.  From here on the token is spent, whatever
\* becomes of the request.
Accept(t) ==
  /\ At(t, "accept")
  /\ LET k == handler[t].token
     IN IF k \in accepted
          THEN Leave(t) /\ UNCHANGED nonceVars
          ELSE /\ accepted' = accepted \cup {k}
               /\ saved' = accepted'
               /\ Goto(t, "body")
  /\ UNCHANGED <<sessionVars, metrics, countVars>>

\* The file cannot be written: the exception ends the request, and the
\* nonce stays spent until a restart.
AcceptFails(t) ==
  /\ At(t, "accept")
  /\ handler[t].token \notin accepted
  /\ accepted' = accepted \cup {handler[t].token}
  /\ Leave(t)
  /\ UNCHANGED <<sessionVars, saved, metrics, countVars>>

\* Length, encoding, JSON or task: 400 or 413.
BadBody(t) ==
  /\ At(t, "body")
  /\ Leave(t)
  /\ UNCHANGED <<sessionVars, nonceVars, metrics, countVars>>

WithoutSession(t) ==
  /\ At(t, "body")
  /\ Goto(t, "scoped")
  /\ UNCHANGED <<sessionVars, nonceVars, metrics, countVars>>

\* The session's history is read; an unknown one is not found.
WithSession(t, s) ==
  /\ At(t, "body")
  /\ GetHistory(s)
  /\ IF s \in Alive
       THEN handler' = [handler EXCEPT ![t].pc = "scoped", ![t].session = s]
       ELSE Leave(t)
  /\ UNCHANGED <<nonceVars, metrics, countVars>>

AtMost(a, b) == IF a <= b THEN a ELSE b

\* Mutation: the token's budget replaces the configured one.
ScopedToToken(k) == [caps |-> ConfigCaps \cap TokenCaps[k], calls |-> TokenCalls[k]]

\* The configuration narrowed by the token.
Scoped(k) == [caps |-> ConfigCaps \cap TokenCaps[k],
              calls |-> AtMost(ConfigCalls, TokenCalls[k])]

StartRun(t, r) ==
  /\ At(t, "scoped")
  /\ r \notin started
  /\ started' = started \cup {r}
  /\ LET scope == Scoped(handler[t].token)
     IN handler' = [handler EXCEPT ![t].pc = "running", ![t].run = r,
                      ![t].caps = scope.caps, ![t].limit = scope.calls]
  /\ metrics' = [metrics EXCEPT !.runs_total = @ + 1]
  /\ UNCHANGED <<sessionVars, nonceVars, answered, ended, spent, kills>>

\* One invocation of the run; it is opened, or denied for its capability,
\* its budget, or another reason.  A denial is counted at once.
Invoke(t, c) ==
  LET h == handler[t]
  IN /\ At(t, "running")
     /\ h.calls < MaxIterations
     /\ handler' = [handler EXCEPT ![t].calls = @ + 1]
     /\ \/ /\ c \in h.caps
           /\ h.calls + 1 <= h.limit
           /\ spent' = [spent EXCEPT ![h.token] =
                          [calls |-> @.calls + 1, caps |-> @.caps \cup {c}]]
           /\ UNCHANGED metrics
        \/ /\ metrics' = [metrics EXCEPT !.tool_denials_total = @ + 1]
           /\ UNCHANGED spent
     /\ UNCHANGED <<sessionVars, nonceVars, started, answered, ended, kills>>

\* Mutation: a failed run is answered and not counted.
RunFailsUncounted(t) ==
  /\ At(t, "running")
  /\ Leave(t)
  /\ UNCHANGED <<sessionVars, nonceVars, metrics, countVars>>

\* A ValueError of run: 400.
RunFails(t) ==
  /\ At(t, "running")
  /\ metrics' = [metrics EXCEPT !.runs_failed = @ + 1]
  /\ ended' = [ended EXCEPT !.calls = @ + handler[t].calls]
  /\ Leave(t)
  /\ UNCHANGED <<sessionVars, nonceVars, started, answered, spent, kills>>

\* Any other exception, of the backend or the audit log: no reply at all.
RunRaises(t) ==
  /\ At(t, "running")
  /\ ended' = [ended EXCEPT !.dropped = @ + 1, !.calls = @ + handler[t].calls]
  /\ Leave(t)
  /\ UNCHANGED <<sessionVars, nonceVars, metrics, started, answered, spent,
                 kills>>

RunReturns(t) ==
  /\ At(t, "running")
  /\ Goto(t, "ran")
  /\ UNCHANGED <<sessionVars, nonceVars, metrics, countVars>>

CountCalls(t) ==
  /\ At(t, "ran")
  /\ metrics' = [metrics EXCEPT !.tool_calls_total = @ + handler[t].calls]
  /\ Goto(t, "counted")
  /\ UNCHANGED <<sessionVars, nonceVars, countVars>>

\* Whether append found the session is not looked at.
Store(t) ==
  /\ At(t, "counted")
  /\ IF handler[t].session # None
       THEN AppendTurn(handler[t].session, handler[t].run)
       ELSE UNCHANGED sessionVars
  /\ Goto(t, "stored")
  /\ UNCHANGED <<nonceVars, metrics, countVars>>

\* Mutation: the reply may go out before the turn is stored.
ReplyEarly(t) ==
  /\ handler[t].pc \in {"counted", "stored"}
  /\ answered' = [answered EXCEPT ![handler[t].run] = handler[t].session]
  /\ ended' = [ended EXCEPT !.ok = @ + 1]
  /\ Leave(t)
  /\ UNCHANGED <<sessionVars, nonceVars, metrics, started, spent, kills>>

Reply(t) ==
  /\ At(t, "stored")
  /\ answered' = [answered EXCEPT ![handler[t].run] = handler[t].session]
  /\ ended' = [ended EXCEPT !.ok = @ + 1]
  /\ Leave(t)
  /\ UNCHANGED <<sessionVars, nonceVars, metrics, started, spent, kills>>

\* The client is gone: the reply raises, and nobody has the answer.
ReplyFails(t) ==
  /\ At(t, "stored")
  /\ ended' = [ended EXCEPT !.dropped = @ + 1]
  /\ Leave(t)
  /\ UNCHANGED <<sessionVars, nonceVars, metrics, started, answered, spent,
                 kills>>

\* The process ends and is started again: only the replay cache is on disk,
\* and a file that cannot be read counts as an empty one.
Restart ==
  /\ kills < MaxKills
  /\ kills' = kills + 1
  /\ handler' = [t \in Threads |-> Idle]
  /\ sessions' = << >>
  /\ older' = {}
  /\ metrics' = NoMetrics
  /\ ended' = NoneEnded
  /\ \/ accepted' = saved /\ UNCHANGED spent
     \/ accepted' = {} /\ spent' = NothingSpent
  /\ UNCHANGED <<now, issued, since, saved, started, answered>>

Work(t) ==
  \/ Accept(t) \/ AcceptFails(t) \/ BadBody(t) \/ WithoutSession(t)
  \/ \E s \in Sessions : WithSession(t, s)
  \/ \E r \in Runs : StartRun(t, r)
  \/ \E c \in Capabilities : Invoke(t, c)
  \/ RunFails(t) \/ RunRaises(t) \/ RunReturns(t)
  \/ CountCalls(t) \/ Store(t) \/ Reply(t) \/ ReplyFails(t)

Arrival ==
  \/ Refuse
  \/ \E k \in Tokens : CreateSession(k) \/ \E t \in Threads : Receive(t, k)
  \/ \E s \in Sessions : ShowSession(s) \/ DeleteSession(s)
  \/ ShowMetrics

\* serve_forever waits for a request, or the runs of the model are used up.
Waiting ==
  /\ \A t \in Threads : At(t, "idle") \/ (At(t, "scoped") /\ Runs \subseteq started)
  /\ UNCHANGED vars

Next ==
  \/ \E t \in Threads : Work(t)
  \/ Arrival
  \/ Waiting
  \/ Restart
  \/ Tick /\ UNCHANGED serveVars

Spec == Init /\ [][Next]_vars

-----------------------------------------------------------------------------
(* Properties                                                              *)

(***************************************************************************)
(* A capability token buys at most what it says, in all: whatever requests *)
(* present it, at once or after a restart, the tools opened with it are    *)
(* of its capabilities and the configured ones, and no more than the       *)
(* smaller of the two budgets; again so once a start lost the nonces       *)
(* (cli.py, do_POST, replay check and scope; replay_cache.py, _load).      *)
(***************************************************************************)
TokenBuysItsBudget ==
  \A k \in Tokens :
    /\ spent[k].calls <= AtMost(ConfigCalls, TokenCalls[k])
    /\ spent[k].caps \subseteq ConfigCaps \cap TokenCaps[k]

\* The tool calls of the runs under way, which may still be counted.
Owed(t) == IF handler[t].pc \in {"running", "ran"} THEN handler[t].calls ELSE 0

Uncounted == {call \in Threads \X (1..MaxIterations) : call[2] <= Owed(call[1])}

(***************************************************************************)
(* Every run counted as started is under way, was answered, was counted as *)
(* failed, or lost its connection to an exception.  Denials are counted at *)
(* once and calls when the run returns, so that the two counters agree     *)
(* only up to the calls of runs that are under way or ended without a      *)
(* result (cli.py, do_POST and its calls of inc_run, inc_run_failed and    *)
(* inc_tool_calls; tools.py, _record_denial).                              *)
(***************************************************************************)
RunsAccountedFor ==
  /\ metrics.runs_total =
       metrics.runs_failed + ended.ok + ended.dropped +
         Cardinality({t \in Threads : handler[t].run # None})
  /\ metrics.tool_denials_total <=
       metrics.tool_calls_total + ended.calls + Cardinality(Uncounted)

(***************************************************************************)
(* While a session lives it remembers every turn its clients were given an *)
(* answer to, up to the limit of its messages, if it has one, however      *)
(* requests, deletions and expiry interleave (cli.py, do_POST; session.py, *)
(* append).                                                                *)
(***************************************************************************)
AnswersAreRemembered ==
  \A s \in DOMAIN sessions : \A r \in Runs :
    answered[r] = s =>
      LET q == sessions[s].messages
      IN \/ Turn(r)[2] \in {q[i] : i \in DOMAIN q}
         \/ MaxMessages > 0 /\ Len(q) >= MaxMessages

(***************************************************************************)
(* While the process runs, a session leaves the store only because it was  *)
(* deleted, expired, or is not among the most recently used: a session in  *)
(* use is not evicted before its elders (session.py, _evict and the        *)
(* move_to_end of get_history and append).                                 *)
(***************************************************************************)
SessionsLeaveForCause == [][LeaveForCause \/ Restart]_vars
=============================================================================
