--------------------------- MODULE ServeApiProofs ---------------------------
(***************************************************************************)
(* Proofs about ServeApi, for any tokens, threads, requests and restarts:  *)
(* what a capability token buys, the accounting of runs, that sessions     *)
(* that are gone stay gone, and that the others remember what was answered.*)
(***************************************************************************)
EXTENDS ServeApi, SessionStoreProofs

Handlers ==
  [pc : {"idle", "accept", "body", "scoped", "running", "ran", "counted", "stored"},
   token : Tokens \cup {None}, session : Sessions \cup {None},
   run : Runs \cup {None}, caps : SUBSET Capabilities,
   limit : Nat, calls : 0..MaxIterations]

Metrics ==
  [runs_total : Nat, runs_failed : Nat, tool_calls_total : Nat,
   tool_denials_total : Nat, api_requests_total : 0..MaxRequests]

\* The types of what the proofs below look at.
ServeTypes ==
  /\ handler \in [Threads -> Handlers]
  /\ accepted \subseteq Tokens
  /\ saved \subseteq Tokens
  /\ metrics \in Metrics
  /\ ended \in [ok : Nat, dropped : Nat, calls : Nat]
  /\ spent \in [Tokens -> [calls : Nat, caps : SUBSET Capabilities]]

\* A handler has a token once it is past its first checks.
HasToken == \A t \in Threads : ~At(t, "idle") => handler[t].token \in Tokens

\* The thread of a handler moves to a place of the types, with a token unless idle.
LEMMA MoveType ==
  ASSUME ServeTypes, HasToken, NEW t \in Threads, NEW h \in Handlers,
         h.pc # "idle" => h.token \in Tokens,
         handler' = [handler EXCEPT ![t] = h]
  PROVE  handler' \in [Threads -> Handlers] /\ HasToken'
BY DEF ServeTypes, HasToken, At

LEMMA LeaveType ==
  ASSUME ServeTypes, HasToken, NEW t \in Threads, Leave(t)
  PROVE  handler' \in [Threads -> Handlers] /\ HasToken'
<1>1. Idle \in Handlers /\ Idle.pc = "idle"
  BY ServeAssumption DEF Idle, Handlers
<1> QED
  BY <1>1, MoveType DEF Leave

LEMMA GotoType ==
  ASSUME ServeTypes, HasToken, NEW t \in Threads, ~At(t, "idle"),
         NEW p \in {"body", "scoped", "ran", "counted", "stored"}, Goto(t, p)
  PROVE  handler' \in [Threads -> Handlers] /\ HasToken'
<1> DEFINE h == [handler[t] EXCEPT !.pc = p]
<1>1. h \in Handlers /\ h.token \in Tokens
  BY DEF ServeTypes, HasToken, Handlers
<1>2. handler' = [handler EXCEPT ![t] = h]
  BY DEF Goto
<1> HIDE DEF h
<1> QED
  BY <1>1, <1>2, MoveType

LEMMA TypesInit == Init => ServeTypes /\ HasToken
<1>1. Idle \in Handlers /\ Idle.pc = "idle"
  BY ServeAssumption DEF Idle, Handlers
<1>2. NoMetrics \in Metrics
  BY ServeAssumption DEF NoMetrics, Metrics
<1> QED
  BY <1>1, <1>2 DEF Init, NothingSpent, NoneEnded, ServeTypes, HasToken, At

\* The steps of one handler.
LEMMA TypesWork ==
  ASSUME ServeTypes, HasToken, NEW t \in Threads, Work(t)
  PROVE  ServeTypes' /\ HasToken'
<1> USE DEF countVars, nonceVars
<1>1. CASE Accept(t)
  <2>1. handler[t].token \in Tokens /\ ~At(t, "idle")
    BY <1>1 DEF Accept, At, HasToken
  <2>2. /\ accepted' \subseteq Tokens /\ saved' \subseteq Tokens
        /\ Leave(t) \/ Goto(t, "body")
        /\ UNCHANGED <<metrics, ended, spent>>
    BY <1>1, <2>1 DEF Accept, ServeTypes
  <2> QED
    BY <2>1, <2>2, LeaveType, GotoType DEF ServeTypes
<1>2. CASE BadBody(t)
  BY <1>2, LeaveType DEF BadBody, ServeTypes
<1>3. CASE WithoutSession(t)
  <2>1. ~At(t, "idle")
    BY <1>3 DEF WithoutSession, At
  <2> QED
    BY <1>3, <2>1, GotoType DEF WithoutSession, ServeTypes
<1>4. ASSUME NEW s \in Sessions, WithSession(t, s)
      PROVE  ServeTypes' /\ HasToken'
  <2> DEFINE h == [handler[t] EXCEPT !.pc = "scoped", !.session = s]
  <2>0. handler[t] \in Handlers /\ handler[t].token \in Tokens
    BY <1>4 DEF WithSession, At, ServeTypes, HasToken
  <2>1. h \in Handlers /\ h.token \in Tokens
    BY <2>0 DEF Handlers
  <2>2. Leave(t) \/ handler' = [handler EXCEPT ![t] = h]
    BY <1>4 DEF WithSession, ServeTypes
  <2> HIDE DEF h
  <2> QED
    BY <1>4, <2>1, <2>2, LeaveType, MoveType DEF WithSession, ServeTypes
<1>5. ASSUME NEW r \in Runs, StartRun(t, r)
      PROVE  ServeTypes' /\ HasToken'
  <2> DEFINE scope == Scoped(handler[t].token)
             h == [handler[t] EXCEPT !.pc = "running", !.run = r,
                                     !.caps = scope.caps, !.limit = scope.calls]
  <2>1. handler[t].token \in Tokens
    BY <1>5 DEF StartRun, At, HasToken
  <2>2. scope.caps \subseteq Capabilities /\ scope.calls \in Nat
    BY <2>1, ServeAssumption DEF Scoped, AtMost, Capabilities
  <2>3. handler' = [handler EXCEPT ![t] = h]
    BY <1>5 DEF StartRun, ServeTypes
  <2> HIDE DEF scope
  <2>0. handler[t] \in Handlers
    BY DEF ServeTypes
  <2>4. h \in Handlers /\ h.token \in Tokens
    BY <2>0, <2>1, <2>2 DEF Handlers
  <2>5. metrics' \in Metrics
    BY <1>5 DEF StartRun, ServeTypes, Metrics
  <2> HIDE DEF h
  <2> QED
    BY <1>5, <2>3, <2>4, <2>5, MoveType DEF StartRun, ServeTypes
<1>6. ASSUME NEW c \in Capabilities, Invoke(t, c)
      PROVE  ServeTypes' /\ HasToken'
  <2> DEFINE h == [handler[t] EXCEPT !.calls = @ + 1]
  <2>1. handler[t].token \in Tokens
    BY <1>6 DEF Invoke, At, HasToken
  <2>0. handler[t] \in Handlers
    BY DEF ServeTypes
  <2>2. h \in Handlers /\ h.token \in Tokens
    BY <1>6, <2>0, <2>1, ServeAssumption DEF Invoke, Handlers
  <2>3. handler' = [handler EXCEPT ![t] = h]
    BY <1>6 DEF Invoke, ServeTypes
  <2>4. metrics' \in Metrics
    BY <1>6 DEF Invoke, ServeTypes, Metrics
  <2>5. spent' \in [Tokens -> [calls : Nat, caps : SUBSET Capabilities]]
    BY <1>6, <2>1 DEF Invoke, ServeTypes
  <2> HIDE DEF h
  <2> QED
    BY <1>6, <2>2, <2>3, <2>4, <2>5, MoveType DEF Invoke, ServeTypes
<1>0. handler[t].calls \in Nat
  BY ServeAssumption DEF ServeTypes, Handlers
<1>7. CASE RunFails(t)
  <2>1. metrics' \in Metrics
    BY <1>7 DEF RunFails, ServeTypes, Metrics
  <2>2. ended' \in [ok : Nat, dropped : Nat, calls : Nat]
    BY <1>0, <1>7 DEF RunFails, ServeTypes
  <2> QED
    BY <1>7, <2>1, <2>2, LeaveType DEF RunFails, ServeTypes
<1>8. CASE RunRaises(t)
  <2>1. ended' = [ok |-> ended.ok, dropped |-> ended.dropped + 1,
                  calls |-> ended.calls + handler[t].calls]
    BY <1>8 DEF RunRaises, ServeTypes
  <2>2. ended' \in [ok : Nat, dropped : Nat, calls : Nat]
    BY <1>0, <2>1 DEF ServeTypes
  <2> QED
    BY <1>8, <2>2, LeaveType DEF RunRaises, ServeTypes
<1>9. CASE RunReturns(t)
  <2>1. ~At(t, "idle")
    BY <1>9 DEF RunReturns, At
  <2> QED
    BY <1>9, <2>1, GotoType DEF RunReturns, ServeTypes
<1>10. CASE CountCalls(t)
  <2>1. ~At(t, "idle")
    BY <1>10 DEF CountCalls, At
  <2>2. metrics' \in Metrics
    BY <1>10, ServeAssumption DEF CountCalls, ServeTypes, Metrics, Handlers
  <2> QED
    BY <1>10, <2>1, <2>2, GotoType DEF CountCalls, ServeTypes
<1>11. CASE Store(t)
  <2>1. ~At(t, "idle")
    BY <1>11 DEF Store, At
  <2> QED
    BY <1>11, <2>1, GotoType DEF Store, ServeTypes
<1>12. CASE Reply(t)
  BY <1>12, LeaveType DEF Reply, ServeTypes
<1>13. CASE ReplyFails(t)
  BY <1>13, LeaveType DEF ReplyFails, ServeTypes
<1>14. CASE AcceptFails(t)
  <2>1. handler[t].token \in Tokens
    BY <1>14 DEF AcceptFails, At, HasToken
  <2> QED
    BY <1>14, <2>1, LeaveType DEF AcceptFails, ServeTypes
<1> QED
  BY <1>1, <1>2, <1>3, <1>4, <1>5, <1>6, <1>7, <1>8, <1>9, <1>10, <1>11,
     <1>12, <1>13, <1>14 DEF Work

\* What the requests served in one step leave alone.
LEMMA ArrivalStep ==
  ASSUME Arrival
  PROVE  /\ CountRequest
         /\ UNCHANGED <<nonceVars, countVars>>
         /\ \/ UNCHANGED handler
            \/ \E t \in Threads, k \in Tokens : Receive(t, k)
BY DEF Arrival, Refuse, CreateSession, ShowSession, DeleteSession, ShowMetrics,
       Receive

LEMMA TypesStep == ServeTypes /\ HasToken /\ [Next]_vars => ServeTypes' /\ HasToken'
<1> SUFFICES ASSUME ServeTypes, HasToken, [Next]_vars
             PROVE  ServeTypes' /\ HasToken'
  OBVIOUS
<1>1. ASSUME Arrival PROVE ServeTypes' /\ HasToken'
  <2>1. metrics' \in Metrics
    BY <1>1, ArrivalStep, ServeAssumption DEF CountRequest, ServeTypes, Metrics
  <2>2. CASE UNCHANGED handler
    BY <1>1, <2>1, <2>2, ArrivalStep DEF ServeTypes, HasToken, At, countVars, nonceVars
  <2>3. ASSUME NEW t \in Threads, NEW k \in Tokens, Receive(t, k)
        PROVE  ServeTypes' /\ HasToken'
    <3> DEFINE h == [Idle EXCEPT !.pc = "accept", !.token = k]
    <3>0. Idle \in Handlers
      BY ServeAssumption DEF Idle, Handlers
    <3>1. h \in Handlers /\ h.token \in Tokens
      BY <3>0 DEF Handlers
    <3>2. handler' = [handler EXCEPT ![t] = h]
      BY <2>3 DEF Receive
    <3> HIDE DEF h
    <3> QED
      BY <2>1, <2>3, <3>1, <3>2, MoveType DEF Receive, ServeTypes, countVars, nonceVars
  <2> QED
    BY <1>1, <2>2, <2>3, ArrivalStep
<1>2. ASSUME Restart PROVE ServeTypes' /\ HasToken'
  <2>1. Idle \in Handlers /\ Idle.pc = "idle"
    BY ServeAssumption DEF Idle, Handlers
  <2>2. NoMetrics \in Metrics
    BY ServeAssumption DEF NoMetrics, Metrics
  <2> QED
    BY <1>2, <2>1, <2>2 DEF Restart, NothingSpent, NoneEnded, ServeTypes, HasToken, At
<1>3. CASE UNCHANGED serveVars
  BY <1>3 DEF serveVars, countVars, nonceVars, ServeTypes, HasToken, At
<1> QED
  BY <1>1, <1>2, <1>3, TypesWork DEF Next, Waiting, vars

LEMMA Types == Spec => [](ServeTypes /\ HasToken)
BY TypesInit, TypesStep, PTL DEF Spec
-----------------------------------------------------------------------------
(* What a token buys                                                       *)

\* Where the nonce of the request has been recorded by this very thread.
Admitted(t) ==
  handler[t].pc \in {"body", "scoped", "running", "ran", "counted", "stored"}

\* The nonces that are in the cache and in its file.
Recorded == accepted \cap saved

\* No two threads are admitted with one token, ever; until the run starts
\* nothing was bought with it, and the run counts what it buys.
TokenInv ==
  /\ \A t \in Threads : Admitted(t) => handler[t].token \in Recorded
  /\ \A t, u \in Threads :
       Admitted(t) /\ Admitted(u) /\ t # u => handler[t].token # handler[u].token
  /\ \A t \in Threads :
       handler[t].pc \in {"idle", "accept", "body", "scoped"} => handler[t].calls = 0
  /\ \A t \in Threads :
       handler[t].pc \in {"body", "scoped"} => spent[handler[t].token].calls = 0
  /\ \A t \in Threads :
       At(t, "running") =>
         /\ handler[t].caps = Scoped(handler[t].token).caps
         /\ handler[t].limit = Scoped(handler[t].token).calls
         /\ spent[handler[t].token].calls <= handler[t].calls
  /\ \A k \in Tokens : k \notin Recorded => spent[k].calls = 0

\* A thread that moves on with nothing bought, or leaves.
LEMMA TokenMove ==
  ASSUME ServeTypes, HasToken, TokenInv, TokenBuysItsBudget,
         NEW t \in Threads, NEW h \in Handlers,
         handler' = [handler EXCEPT ![t] = h],
         UNCHANGED <<saved, spent>>, accepted \subseteq accepted',
         \/ h = Idle
         \/ h.pc = "accept" /\ h.calls = 0
         \/ /\ Admitted(t)
            /\ h.token = handler[t].token
            /\ \/ /\ h.pc = "scoped"
                  /\ At(t, "body")
                  /\ h.calls = handler[t].calls
               \/ h.pc \in {"ran", "counted", "stored"}
               \/ /\ h.pc = "running"
                  /\ handler[t].pc \in {"scoped", "running"}
                  /\ h.caps = Scoped(h.token).caps
                  /\ h.limit = Scoped(h.token).calls
                  /\ h.calls >= handler[t].calls
  PROVE  TokenInv' /\ TokenBuysItsBudget'
<1>1. TokenBuysItsBudget'
  BY DEF TokenBuysItsBudget, ServeTypes
<1>2. \A u \in Threads : handler'[u] = IF u = t THEN h ELSE handler[u]
  BY DEF ServeTypes
<1>3. \A k \in Tokens : spent[k].calls \in Nat
  BY DEF ServeTypes
<1>4. handler[t] \in Handlers
  BY DEF ServeTypes
<1>5. Admitted(t) => handler[t].token \in Tokens
  BY DEF HasToken, Admitted, At
<1>6. Idle.pc = "idle" /\ Idle.calls = 0
  BY DEF Idle
<1>7. Admitted(t)' => Admitted(t) /\ h.token = handler[t].token
  BY <1>2, <1>6 DEF Admitted
<1>8. /\ (\A u \in Threads : Admitted(u) => handler[u].token \in Recorded)'
      /\ (\A v, u \in Threads :
            Admitted(v) /\ Admitted(u) /\ v # u => handler[v].token # handler[u].token)'
  BY <1>2, <1>7 DEF TokenInv, Admitted, Recorded
<1>9. (\A u \in Threads :
         handler[u].pc \in {"idle", "accept", "body", "scoped"} => handler[u].calls = 0)'
  BY <1>2, <1>6 DEF TokenInv, Admitted, At
<1>10. (\A u \in Threads :
          handler[u].pc \in {"body", "scoped"} => spent[handler[u].token].calls = 0)'
  BY <1>2, <1>6 DEF TokenInv, Admitted, At
<1>11. ASSUME NEW u \in Threads, At(u, "running")'
       PROVE  /\ handler'[u].caps = Scoped(handler'[u].token).caps
              /\ handler'[u].limit = Scoped(handler'[u].token).calls
              /\ spent'[handler'[u].token].calls <= handler'[u].calls
  <2>1. CASE u # t
    BY <1>2, <1>11, <2>1 DEF TokenInv, At
  <2>2. CASE u = t
    <3>1. /\ Admitted(t)
          /\ h.token = handler[t].token
          /\ handler[t].pc \in {"scoped", "running"}
          /\ h.caps = Scoped(h.token).caps
          /\ h.limit = Scoped(h.token).calls
          /\ h.calls >= handler[t].calls
      BY <1>2, <1>6, <1>11, <2>2 DEF At
    <3>2. spent[h.token].calls <= handler[t].calls
      <4>1. CASE handler[t].pc = "scoped"
        <5>1. spent[h.token].calls = 0 /\ handler[t].calls = 0
          BY <3>1, <4>1 DEF TokenInv
        <5> QED
          BY <5>1
      <4>2. CASE handler[t].pc = "running"
        BY <3>1, <4>2 DEF TokenInv, At
      <4> QED
        BY <3>1, <4>1, <4>2
    <3>3. spent[h.token].calls \in Nat /\ handler[t].calls \in Int /\ h.calls \in Int
      BY <1>3, <1>4, <1>5, <3>1, ServeAssumption DEF Handlers
    <3> QED
      BY <1>2, <2>2, <3>1, <3>2, <3>3
  <2> QED
    BY <2>1, <2>2
<1>12. (\A k \in Tokens : k \notin Recorded => spent[k].calls = 0)'
  BY DEF TokenInv, Recorded
<1> QED
  BY <1>1, <1>8, <1>9, <1>10, <1>11, <1>12 DEF TokenInv

LEMMA TokenAccept ==
  ASSUME ServeTypes, HasToken, TokenInv, TokenBuysItsBudget,
         NEW t \in Threads, Accept(t)
  PROVE  TokenInv' /\ TokenBuysItsBudget'
<1> DEFINE k == handler[t].token
           h == [handler[t] EXCEPT !.pc = "body"]
<1>1. k \in Tokens /\ At(t, "accept") /\ UNCHANGED spent
  BY DEF Accept, HasToken, At, countVars
<1>2. CASE k \in accepted
  <2>1. Idle \in Handlers
    BY ServeAssumption DEF Idle, Handlers
  <2> QED
    BY <1>1, <1>2, <2>1, TokenMove DEF Accept, Leave, nonceVars
<1>3. CASE k \notin accepted
  <2>1. /\ accepted' = accepted \cup {k} /\ saved' = accepted'
        /\ handler' = [handler EXCEPT ![t] = h]
    BY <1>3 DEF Accept, Goto
  <2>2. h.pc = "body" /\ h.token = k /\ h.calls = 0
    BY <1>1 DEF ServeTypes, Handlers, TokenInv, At
  <2> HIDE DEF h
  <2>3. \A u \in Threads : handler'[u] = IF u = t THEN h ELSE handler[u]
    BY <2>1 DEF ServeTypes
  <2>4. /\ Recorded \subseteq Recorded' /\ Recorded' = accepted \cup {k}
        /\ \A u \in Threads : Admitted(u) => handler[u].token # k
    BY <1>3, <2>1 DEF TokenInv, Recorded
  <2>5. spent[k].calls = 0
    BY <1>1, <1>3 DEF TokenInv, Recorded
  <2>6. TokenBuysItsBudget'
    BY <1>1 DEF TokenBuysItsBudget
  <2>7. /\ (\A u \in Threads : Admitted(u) => handler[u].token \in Recorded)'
        /\ (\A v, u \in Threads :
              Admitted(v) /\ Admitted(u) /\ v # u => handler[v].token # handler[u].token)'
    BY <2>1, <2>2, <2>3, <2>4 DEF TokenInv, Admitted
  <2>8. /\ (\A u \in Threads :
              handler[u].pc \in {"idle", "accept", "body", "scoped"} =>
                handler[u].calls = 0)'
        /\ (\A u \in Threads :
              handler[u].pc \in {"body", "scoped"} =>
                spent[handler[u].token].calls = 0)'
    BY <1>1, <2>2, <2>3, <2>5 DEF TokenInv
  <2>9. (\A u \in Threads :
           At(u, "running") =>
             /\ handler[u].caps = Scoped(handler[u].token).caps
             /\ handler[u].limit = Scoped(handler[u].token).calls
             /\ spent[handler[u].token].calls <= handler[u].calls)'
    BY <1>1, <2>2, <2>3 DEF TokenInv, At
  <2>10. (\A c \in Tokens : c \notin Recorded => spent[c].calls = 0)'
    BY <1>1, <2>4 DEF TokenInv
  <2> QED
    BY <2>4, <2>6, <2>7, <2>8, <2>9, <2>10 DEF TokenInv
<1> QED
  BY <1>2, <1>3

LEMMA TokenInvoke ==
  ASSUME ServeTypes, HasToken, TokenInv, TokenBuysItsBudget,
         NEW t \in Threads, NEW c \in Capabilities, Invoke(t, c)
  PROVE  TokenInv' /\ TokenBuysItsBudget'
<1> DEFINE k == handler[t].token
           h == [handler[t] EXCEPT !.calls = @ + 1]
<1>1. /\ k \in Tokens /\ At(t, "running") /\ Admitted(t) /\ k \in Recorded
      /\ UNCHANGED <<accepted, saved>>
      /\ handler' = [handler EXCEPT ![t] = h]
  BY DEF Invoke, HasToken, At, Admitted, TokenInv, ServeTypes, nonceVars
<1>0. handler[t] \in Handlers
  BY DEF ServeTypes
<1>2. /\ handler[t].calls \in Nat
      /\ handler[t].calls + 1 \in 0..MaxIterations
      /\ h \in Handlers
  BY <1>0, ServeAssumption DEF Invoke, Handlers
<1>3. h.pc = "running" /\ h.token = k /\ h.calls = handler[t].calls + 1
      /\ h.caps = handler[t].caps /\ h.limit = handler[t].limit
  BY <1>1 DEF ServeTypes, Handlers, At
<1> HIDE DEF h
<1>4. /\ handler[t].caps = Scoped(k).caps
      /\ handler[t].limit = Scoped(k).calls
      /\ spent[k].calls <= handler[t].calls
  BY <1>1 DEF TokenInv, At
<1>5. spent[k].calls \in Nat
  BY <1>1 DEF ServeTypes
<1>6. CASE UNCHANGED spent
  <2>1. h.caps = Scoped(h.token).caps /\ h.limit = Scoped(h.token).calls
    BY <1>3, <1>4
  <2>2. h.calls >= handler[t].calls
    BY <1>2, <1>3
  <2>3. handler[t].pc = "running"
    BY <1>1 DEF At
  <2> QED
    BY <1>1, <1>2, <1>3, <1>6, <2>1, <2>2, <2>3, TokenMove
<1>7. CASE /\ c \in handler[t].caps
           /\ handler[t].calls + 1 <= handler[t].limit
           /\ spent' = [spent EXCEPT ![k] =
                          [calls |-> @.calls + 1, caps |-> @.caps \cup {c}]]
  <2>1. \A u \in Threads : handler'[u] = IF u = t THEN h ELSE handler[u]
    BY <1>1 DEF ServeTypes
  <2>2. \A j \in Tokens : j # k => spent'[j] = spent[j]
    BY <1>7 DEF ServeTypes
  <2>3. spent'[k].calls = spent[k].calls + 1 /\ spent'[k].caps = spent[k].caps \cup {c}
    BY <1>1, <1>7 DEF ServeTypes
  <2>4. spent'[k].calls <= h.calls /\ spent'[k].calls <= Scoped(k).calls
    <3>1. Scoped(k).calls \in Nat
      BY <1>1, ServeAssumption DEF Scoped, AtMost
    <3>2. spent[k].calls + 1 <= handler[t].calls + 1
      BY <1>2, <1>4, <1>5
    <3> QED
      BY <1>2, <1>3, <1>4, <1>5, <1>7, <2>3, <3>1, <3>2
  <2>5. TokenBuysItsBudget'
    <3>1. ASSUME NEW j \in Tokens
          PROVE  /\ spent'[j].calls <= AtMost(ConfigCalls, TokenCalls[j])
                 /\ spent'[j].caps \subseteq ConfigCaps \cap TokenCaps[j]
      <4>1. CASE j = k
        BY <1>1, <1>4, <1>7, <2>3, <2>4, <4>1 DEF TokenBuysItsBudget, Scoped
      <4>2. CASE j # k
        BY <2>2, <4>2 DEF TokenBuysItsBudget
      <4> QED
        BY <4>1, <4>2
    <3> QED
      BY <3>1 DEF TokenBuysItsBudget
  <2>6. \A u \in Threads : Admitted(u) /\ u # t =>
          handler[u].token # k /\ handler[u].token \in Tokens
    BY <1>1 DEF TokenInv, HasToken, Admitted, At
  <2>7. /\ (\A u \in Threads : Admitted(u) => handler[u].token \in Recorded)'
        /\ (\A v, u \in Threads :
              Admitted(v) /\ Admitted(u) /\ v # u => handler[v].token # handler[u].token)'
    BY <1>1, <1>3, <2>1, <2>6 DEF TokenInv, Admitted, Recorded
  <2>8. (\A u \in Threads :
           handler[u].pc \in {"idle", "accept", "body", "scoped"} =>
             handler[u].calls = 0)'
    BY <1>3, <2>1 DEF TokenInv
  <2>9. (\A u \in Threads :
           handler[u].pc \in {"body", "scoped"} => spent[handler[u].token].calls = 0)'
    BY <1>3, <2>1, <2>2, <2>6 DEF TokenInv, Admitted
  <2>10. (\A u \in Threads :
            At(u, "running") =>
              /\ handler[u].caps = Scoped(handler[u].token).caps
              /\ handler[u].limit = Scoped(handler[u].token).calls
              /\ spent[handler[u].token].calls <= handler[u].calls)'
    BY <1>3, <1>4, <2>1, <2>2, <2>4, <2>6 DEF TokenInv, Admitted, At
  <2>11. (\A j \in Tokens : j \notin Recorded => spent[j].calls = 0)'
    BY <1>1, <2>2 DEF TokenInv, Recorded
  <2> QED
    BY <2>5, <2>7, <2>8, <2>9, <2>10, <2>11 DEF TokenInv
<1> QED
  BY <1>6, <1>7 DEF Invoke
LEMMA TokenInit == Init => TokenInv /\ TokenBuysItsBudget
BY ServeAssumption
   DEF Init, NothingSpent, Idle, TokenInv, TokenBuysItsBudget, Admitted, At, AtMost

LEMMA TokenWork ==
  ASSUME ServeTypes, HasToken, TokenInv, TokenBuysItsBudget,
         NEW t \in Threads, Work(t)
  PROVE  TokenInv' /\ TokenBuysItsBudget'
<1> USE DEF countVars, nonceVars
<1>h. handler[t] \in Handlers
  BY DEF ServeTypes
<1>1. CASE Accept(t)
  BY <1>1, TokenAccept
<1>2. ASSUME Leave(t), UNCHANGED <<saved, spent>>, accepted \subseteq accepted'
      PROVE  TokenInv' /\ TokenBuysItsBudget'
  <2>1. Idle \in Handlers
    BY ServeAssumption DEF Idle, Handlers
  <2> QED
    BY <1>2, <2>1, TokenMove DEF Leave
<1>3. ASSUME NEW p \in {"ran", "counted", "stored"}, Goto(t, p), Admitted(t),
             UNCHANGED <<saved, spent>>, accepted \subseteq accepted'
      PROVE  TokenInv' /\ TokenBuysItsBudget'
  <2> DEFINE h == [handler[t] EXCEPT !.pc = p]
  <2>1. h \in Handlers /\ h.token = handler[t].token /\ h.pc = p
    BY <1>h DEF Handlers
  <2>2. handler' = [handler EXCEPT ![t] = h]
    BY <1>3 DEF Goto
  <2> HIDE DEF h
  <2> QED
    BY <1>3, <2>1, <2>2, TokenMove
<1>4. CASE WithoutSession(t)
  <2> DEFINE h == [handler[t] EXCEPT !.pc = "scoped"]
  <2>1. /\ h \in Handlers /\ h.token = handler[t].token /\ h.pc = "scoped"
        /\ h.calls = handler[t].calls
    BY <1>h DEF Handlers
  <2>2. handler' = [handler EXCEPT ![t] = h]
    BY <1>4 DEF WithoutSession, Goto
  <2>3. Admitted(t) /\ At(t, "body") /\ UNCHANGED <<nonceVars, spent>>
    BY <1>4 DEF WithoutSession, Admitted, At
  <2> HIDE DEF h
  <2> QED
    BY <2>1, <2>2, <2>3, TokenMove
<1>5. ASSUME NEW s \in Sessions, WithSession(t, s)
      PROVE  TokenInv' /\ TokenBuysItsBudget'
  <2> DEFINE h == [handler[t] EXCEPT !.pc = "scoped", !.session = s]
  <2>1. /\ h \in Handlers /\ h.token = handler[t].token /\ h.pc = "scoped"
        /\ h.calls = handler[t].calls
    BY <1>h DEF Handlers
  <2>2. Leave(t) \/ handler' = [handler EXCEPT ![t] = h]
    BY <1>5 DEF WithSession
  <2>3. Admitted(t) /\ At(t, "body") /\ UNCHANGED <<nonceVars, spent>>
    BY <1>5 DEF WithSession, Admitted, At
  <2> HIDE DEF h
  <2> QED
    BY <1>2, <2>1, <2>2, <2>3, TokenMove
<1>6. ASSUME NEW r \in Runs, StartRun(t, r)
      PROVE  TokenInv' /\ TokenBuysItsBudget'
  <2> DEFINE scope == Scoped(handler[t].token)
             h == [handler[t] EXCEPT !.pc = "running", !.run = r,
                                     !.caps = scope.caps, !.limit = scope.calls]
  <2>1. handler[t].token \in Tokens
    BY <1>6 DEF StartRun, At, HasToken
  <2>2. scope.caps \subseteq Capabilities /\ scope.calls \in Nat
    BY <2>1, ServeAssumption DEF Scoped, AtMost, Capabilities
  <2>3. handler' = [handler EXCEPT ![t] = h]
    BY <1>6 DEF StartRun
  <2>4. Admitted(t) /\ handler[t].pc = "scoped" /\ UNCHANGED <<nonceVars, spent>>
    BY <1>6 DEF StartRun, Admitted, At
  <2> HIDE DEF scope
  <2>5. h \in Handlers /\ handler[t].calls \in Int
    <3>1. handler[t] \in Handlers
      BY DEF ServeTypes
    <3>2. handler[t].calls \in Int
      BY <3>1, ServeAssumption DEF Handlers
    <3>3. h \in Handlers
      BY <2>2, <3>1 DEF Handlers
    <3> QED
      BY <3>2, <3>3
  <2>8. /\ h.token = handler[t].token /\ h.pc = "running"
        /\ h.caps = scope.caps /\ h.limit = scope.calls
        /\ h.calls = handler[t].calls
    BY <1>h DEF Handlers
  <2> HIDE DEF h
  <2>6. h.caps = Scoped(h.token).caps /\ h.limit = Scoped(h.token).calls
    BY <2>8 DEF scope
  <2>7. h.calls >= handler[t].calls
    BY <2>5, <2>8
  <2> QED
    BY <2>3, <2>4, <2>5, <2>6, <2>7, <2>8, TokenMove
<1>7. ASSUME NEW c \in Capabilities, Invoke(t, c)
      PROVE  TokenInv' /\ TokenBuysItsBudget'
  BY <1>7, TokenInvoke
<1>8. CASE BadBody(t) \/ RunFails(t) \/ RunRaises(t) \/ Reply(t) \/ ReplyFails(t)
               \/ AcceptFails(t)
  BY <1>2, <1>8 DEF BadBody, RunFails, RunRaises, Reply, ReplyFails, AcceptFails
<1>9. CASE RunReturns(t) \/ CountCalls(t) \/ Store(t)
  <2>1. Admitted(t) /\ UNCHANGED <<nonceVars, spent>>
    BY <1>9 DEF RunReturns, CountCalls, Store, Admitted, At
  <2> QED
    BY <1>3, <1>9, <2>1 DEF RunReturns, CountCalls, Store
<1> QED
  BY <1>1, <1>4, <1>5, <1>6, <1>7, <1>8, <1>9 DEF Work

LEMMA TokenStep ==
  ServeTypes /\ HasToken /\ TokenInv /\ TokenBuysItsBudget /\ [Next]_vars =>
    TokenInv' /\ TokenBuysItsBudget'
<1> SUFFICES ASSUME ServeTypes, HasToken, TokenInv, TokenBuysItsBudget, [Next]_vars
             PROVE  TokenInv' /\ TokenBuysItsBudget'
  OBVIOUS
<1>1. ASSUME UNCHANGED <<handler, nonceVars, spent>>
      PROVE  TokenInv' /\ TokenBuysItsBudget'
  BY <1>1 DEF TokenInv, TokenBuysItsBudget, Admitted, At, Recorded, nonceVars
<1>2. CASE Arrival
  <2>1. ASSUME NEW t \in Threads, NEW k \in Tokens, Receive(t, k)
        PROVE  TokenInv' /\ TokenBuysItsBudget'
    <3> DEFINE h == [Idle EXCEPT !.pc = "accept", !.token = k]
    <3>1. Idle \in Handlers /\ Idle.calls = 0
      BY ServeAssumption DEF Idle, Handlers
    <3>2. h \in Handlers /\ h.pc = "accept" /\ h.calls = 0
      BY <3>1 DEF Handlers
    <3>3. handler' = [handler EXCEPT ![t] = h] /\ UNCHANGED <<nonceVars, spent>>
      BY <2>1 DEF Receive, countVars, nonceVars
    <3> HIDE DEF h
    <3> QED
      BY <3>2, <3>3, TokenMove DEF nonceVars
  <2> QED
    BY <1>1, <1>2, <2>1, ArrivalStep DEF countVars, nonceVars
<1>3. CASE Restart
  <2>1. \A t \in Threads : handler'[t].pc = "idle" /\ handler'[t].calls = 0
    BY <1>3 DEF Restart, Idle
  <2>2. CASE accepted' = saved /\ UNCHANGED spent
    <3>1. (\A k \in Tokens : k \notin Recorded => spent[k].calls = 0)'
      BY <1>3, <2>2 DEF Restart, TokenInv, Recorded
    <3> QED
      BY <2>1, <2>2, <3>1 DEF TokenInv, TokenBuysItsBudget, Admitted, At
  <2>3. CASE spent' = NothingSpent
    BY <2>1, <2>3, ServeAssumption
       DEF TokenInv, TokenBuysItsBudget, NothingSpent, Admitted, At, AtMost
  <2> QED
    BY <1>3, <2>2, <2>3 DEF Restart
<1> QED
  BY <1>1, <1>2, <1>3, TokenWork DEF Next, Waiting, vars, serveVars, countVars, nonceVars

(***************************************************************************)
(* For any tokens, threads, requests and restarts: the tools opened with a *)
(* capability token are of its capabilities and no more than its budget    *)
(* (cli.py, do_POST: replay check, then scope).                            *)
(***************************************************************************)
THEOREM TokensAreBudgeted == Spec => []TokenBuysItsBudget
BY Types, TokenInit, TokenStep, PTL DEF Spec
-----------------------------------------------------------------------------
(* The accounting of runs                                                  *)

Busy == {t \in Threads : handler[t].run # None}

\* A handler has a run while one is under way or not yet answered.
RunInv ==
  \A t \in Threads :
    handler[t].run # None <=> handler[t].pc \in {"running", "ran", "counted", "stored"}

LEMMA BusyCount ==
  ASSUME NEW t \in Threads
  PROVE  /\ Cardinality(Busy) \in Nat
         /\ t \notin Busy => Cardinality(Busy \cup {t}) = Cardinality(Busy) + 1
         /\ t \in Busy => Cardinality(Busy \ {t}) = Cardinality(Busy) - 1
<1>1. IsFiniteSet(Busy)
  BY ServeAssumption, FS_Subset DEF Busy
<1> QED
  BY <1>1, FS_CardinalityType, FS_AddElement, FS_RemoveElement

\* A handler that keeps its run, or has none before and after.
LEMMA RunKept ==
  ASSUME ServeTypes, RunInv, NEW t \in Threads, NEW h \in Handlers,
         handler' = [handler EXCEPT ![t] = h],
         h.run = handler[t].run,
         h.pc \in {"running", "ran", "counted", "stored"} <=>
           handler[t].pc \in {"running", "ran", "counted", "stored"}
  PROVE  RunInv' /\ Busy' = Busy
BY DEF ServeTypes, RunInv, Busy

\* A handler that is done with its run.
LEMMA RunLeft ==
  ASSUME ServeTypes, RunInv, NEW t \in Threads, Leave(t)
  PROVE  /\ RunInv'
         /\ handler[t].pc \in {"running", "ran", "counted", "stored"} =>
              t \in Busy /\ Busy' = Busy \ {t}
         /\ handler[t].pc \notin {"running", "ran", "counted", "stored"} => Busy' = Busy
<1>1. Idle.pc = "idle" /\ Idle.run = None
  BY DEF Idle
<1>2. \A u \in Threads : handler'[u] = IF u = t THEN Idle ELSE handler[u]
  BY DEF Leave, ServeTypes
<1> QED
  BY <1>1, <1>2 DEF RunInv, Busy

\* What each thread owes, the calls this stands for, and those of one thread
\* and of the others.
Debts == [u \in Threads |-> Owed(u)]

CallsUpTo(f) == {call \in Threads \X (1..MaxIterations) : call[2] <= f[call[1]]}

CallsOf(f, t) == {t} \X (1..f[t])

OthersCalls(f, t) == {call \in CallsUpTo(f) : call[1] # t}

LEMMA CallsSplit ==
  ASSUME NEW f \in [Threads -> 0..MaxIterations], NEW t \in Threads
  PROVE  /\ f[t] \in Nat
         /\ Cardinality(OthersCalls(f, t)) \in Nat
         /\ Cardinality(CallsUpTo(f)) = Cardinality(OthersCalls(f, t)) + f[t]
<1>0. MaxIterations \in Nat
  BY ServeAssumption
<1>1. f[t] \in 0..MaxIterations /\ f[t] \in Nat
  BY <1>0
<1>2. IsFiniteSet(Threads \X (1..MaxIterations))
  <2>1. IsFiniteSet(1..MaxIterations)
    BY <1>0, FS_Interval
  <2>2. IsFiniteSet(Threads)
    BY ServeAssumption
  <2> QED
    BY <2>1, <2>2, FS_Product
<1>3. IsFiniteSet(OthersCalls(f, t))
  <2>1. OthersCalls(f, t) \subseteq Threads \X (1..MaxIterations)
    BY DEF OthersCalls, CallsUpTo
  <2> QED
    BY <1>2, <2>1, FS_Subset
<1>4. IsFiniteSet(CallsOf(f, t)) /\ Cardinality(CallsOf(f, t)) = f[t]
  <2>1. IsFiniteSet(1..f[t]) /\ Cardinality(1..f[t]) = f[t]
    BY <1>1, FS_Interval
  <2>2. IsFiniteSet({t}) /\ Cardinality({t}) = 1
    BY FS_Singleton
  <2>3. /\ IsFiniteSet(CallsOf(f, t))
        /\ Cardinality(CallsOf(f, t)) = Cardinality({t}) * Cardinality(1..f[t])
    BY <2>1, <2>2, FS_Product DEF CallsOf
  <2>4. Cardinality({t}) * Cardinality(1..f[t]) = 1 * f[t]
    BY <2>1, <2>2
  <2>5. 1 * f[t] = f[t]
    BY <1>1
  <2> QED
    BY <2>3, <2>4, <2>5
<1>5. CallsUpTo(f) = OthersCalls(f, t) \cup CallsOf(f, t)
  <2>1. ASSUME NEW call \in CallsOf(f, t) PROVE call \in CallsUpTo(f)
    <3>1. call \in {t} \X (1..f[t]) /\ call[1] = t /\ call[2] \in 1..f[t]
      BY <2>1 DEF CallsOf
    <3>2. call[2] \in 1..MaxIterations /\ call[2] <= f[call[1]]
      BY <1>0, <1>1, <3>1
    <3>3. call \in Threads \X (1..MaxIterations)
      BY <3>1, <3>2
    <3> QED
      BY <3>2, <3>3 DEF CallsUpTo
  <2>2. ASSUME NEW call \in CallsUpTo(f), call[1] = t PROVE call \in CallsOf(f, t)
    <3>1. /\ call \in Threads \X (1..MaxIterations)
          /\ call[2] \in 1..MaxIterations /\ call[2] <= f[t]
      BY <2>2 DEF CallsUpTo
    <3>2. call[2] \in 1..f[t]
      BY <1>0, <1>1, <3>1
    <3> QED
      BY <2>2, <3>1, <3>2 DEF CallsOf
  <2>3. OthersCalls(f, t) \subseteq CallsUpTo(f)
    BY DEF OthersCalls
  <2>4. ASSUME NEW call \in CallsUpTo(f), call[1] # t PROVE call \in OthersCalls(f, t)
    BY <2>4 DEF OthersCalls
  <2> QED
    BY <2>1, <2>2, <2>3, <2>4
<1>6. OthersCalls(f, t) \cap CallsOf(f, t) = {}
  BY DEF OthersCalls, CallsOf
<1>7. Cardinality(CallsUpTo(f)) =
        Cardinality(OthersCalls(f, t)) + Cardinality(CallsOf(f, t))
          - Cardinality(OthersCalls(f, t) \cap CallsOf(f, t))
  BY <1>3, <1>4, <1>5, FS_Union
<1>8. Cardinality(OthersCalls(f, t)) \in Nat
  BY <1>3, FS_CardinalityType
<1>9. Cardinality(OthersCalls(f, t) \cap CallsOf(f, t)) = 0
  BY <1>6, FS_EmptySet
<1> QED
  BY <1>1, <1>4, <1>7, <1>8, <1>9

LEMMA DebtsType ==
  ASSUME handler \in [Threads -> Handlers]
  PROVE  /\ Debts \in [Threads -> 0..MaxIterations]
         /\ Uncounted = CallsUpTo(Debts)
<1>1. ASSUME NEW u \in Threads PROVE Owed(u) \in 0..MaxIterations
  <2>1. handler[u].calls \in 0..MaxIterations /\ 0 \in 0..MaxIterations
    BY ServeAssumption DEF Handlers
  <2> QED
    BY <2>1 DEF Owed
<1>2. \A call \in Threads \X (1..MaxIterations) : Debts[call[1]] = Owed(call[1])
  BY DEF Debts
<1>3. Debts \in [Threads -> 0..MaxIterations]
  BY <1>1 DEF Debts
<1> HIDE DEF Debts
<1> QED
  BY <1>2, <1>3 DEF Uncounted, CallsUpTo

\* The runs balance, and no denial is counted without a call.
Balance ==
  metrics.runs_total =
    metrics.runs_failed + ended.ok + ended.dropped + Cardinality(Busy)

Covered ==
  metrics.tool_denials_total <=
    metrics.tool_calls_total + ended.calls + Cardinality(Uncounted)

\* A step of one thread counts and owes together at least what it denies.
LEMMA CoveredMove ==
  ASSUME ServeTypes, ServeTypes', Covered, NEW t \in Threads,
         \A u \in Threads : u # t => handler'[u] = handler[u],
         metrics'.tool_denials_total + metrics.tool_calls_total + ended.calls + Owed(t)
           <= metrics.tool_denials_total + metrics'.tool_calls_total + ended'.calls
                + Owed(t)'
  PROVE  Covered'
<1> DEFINE f == Debts
           g == [u \in Threads |-> Owed(u)']
<1>1. f \in [Threads -> 0..MaxIterations] /\ Uncounted = CallsUpTo(f)
  BY DebtsType DEF ServeTypes
<1>2. g \in [Threads -> 0..MaxIterations] /\ Uncounted' = CallsUpTo(g)
  <2>1. ASSUME NEW u \in Threads PROVE Owed(u)' \in 0..MaxIterations
    <3>1. handler'[u].calls \in 0..MaxIterations /\ 0 \in 0..MaxIterations
      BY ServeAssumption DEF ServeTypes, Handlers
    <3> QED
      BY <3>1 DEF Owed
  <2>2. \A call \in Threads \X (1..MaxIterations) : g[call[1]] = Owed(call[1])'
    OBVIOUS
  <2>3. g \in [Threads -> 0..MaxIterations]
    BY <2>1
  <2> HIDE DEF g
  <2> QED
    BY <2>2, <2>3 DEF Uncounted, CallsUpTo
<1>3. f[t] = Owed(t) /\ g[t] = Owed(t)'
  BY DEF Debts
<1>4. \A u \in Threads : u # t => f[u] = g[u]
  BY DEF Debts, Owed
<1> HIDE DEF f, g
<1>5. OthersCalls(f, t) = OthersCalls(g, t)
  <2>1. \A call \in Threads \X (1..MaxIterations) :
          call[1] # t => f[call[1]] = g[call[1]]
    BY <1>4
  <2> QED
    BY <2>1 DEF OthersCalls, CallsUpTo
<1>6. /\ f[t] \in Nat /\ Cardinality(OthersCalls(f, t)) \in Nat
      /\ Cardinality(Uncounted) = Cardinality(OthersCalls(f, t)) + f[t]
  BY <1>1, CallsSplit
<1>7. /\ g[t] \in Nat
      /\ Cardinality(Uncounted') = Cardinality(OthersCalls(g, t)) + g[t]
  BY <1>2, CallsSplit
<1>8. /\ metrics.tool_denials_total \in Nat /\ metrics'.tool_denials_total \in Nat
      /\ metrics.tool_calls_total \in Nat /\ metrics'.tool_calls_total \in Nat
      /\ ended.calls \in Nat /\ ended'.calls \in Nat
  BY DEF ServeTypes, Metrics
<1> QED
  BY <1>3, <1>5, <1>6, <1>7, <1>8 DEF Covered

LEMMA RunsInit == Init => RunInv /\ Balance /\ Covered
<1> SUFFICES ASSUME Init PROVE RunInv /\ Balance /\ Covered
  OBVIOUS
<1>1. RunInv
  BY DEF Init, Idle, RunInv
<1>2. Busy = {}
  BY DEF Busy, Init, Idle
<1>3. Uncounted = {}
  <2>1. \A call \in Threads \X (1..MaxIterations) : Owed(call[1]) = 0 /\ call[2] > 0
    BY ServeAssumption DEF Owed, Init, Idle
  <2>2. \A call \in Threads \X (1..MaxIterations) : ~(call[2] <= Owed(call[1]))
    BY <2>1, ServeAssumption
  <2> QED
    BY <2>2 DEF Uncounted
<1>4. Cardinality(Busy) = 0 /\ Cardinality(Uncounted) = 0
  BY <1>2, <1>3, FS_EmptySet
<1> QED
  BY <1>1, <1>4 DEF Init, NoMetrics, NoneEnded, Balance, Covered

LEMMA RunsWork ==
  ASSUME ServeTypes, RunInv, Balance, NEW t \in Threads, Work(t)
  PROVE  RunInv' /\ Balance'
<1> USE DEF countVars, nonceVars
<1>0. Balance => metrics.runs_total =
        metrics.runs_failed + ended.ok + ended.dropped + Cardinality(Busy)
  BY DEF Balance
<1>a. /\ metrics.runs_total \in Nat /\ metrics.runs_failed \in Nat
      /\ ended.ok \in Nat /\ ended.dropped \in Nat /\ Cardinality(Busy) \in Nat
  BY BusyCount DEF ServeTypes, Metrics
<1>b. handler[t] \in Handlers
  BY DEF ServeTypes
<1>1. ASSUME Leave(t), handler[t].pc \in {"accept", "body"}, UNCHANGED <<metrics, ended>>
      PROVE  RunInv' /\ Balance'
  BY <1>0, <1>1, RunLeft DEF Balance
<1>2. ASSUME NEW h \in Handlers, handler' = [handler EXCEPT ![t] = h],
             h.run = handler[t].run,
             h.pc \in {"running", "ran", "counted", "stored"} <=>
               handler[t].pc \in {"running", "ran", "counted", "stored"},
             metrics'.runs_total = metrics.runs_total,
             metrics'.runs_failed = metrics.runs_failed,
             ended' = ended
      PROVE  RunInv' /\ Balance'
  BY <1>0, <1>2, RunKept DEF Balance
<1>3. ASSUME NEW p \in {"body", "scoped", "ran", "counted", "stored"}, Goto(t, p),
             p \in {"ran", "counted", "stored"} <=>
               handler[t].pc \in {"running", "ran", "counted", "stored"},
             metrics'.runs_total = metrics.runs_total,
             metrics'.runs_failed = metrics.runs_failed,
             ended' = ended
      PROVE  RunInv' /\ Balance'
  <2> DEFINE h == [handler[t] EXCEPT !.pc = p]
  <2>1. h \in Handlers /\ h.run = handler[t].run /\ h.pc = p
    BY <1>b DEF Handlers
  <2>2. handler' = [handler EXCEPT ![t] = h]
    BY <1>3 DEF Goto
  <2> HIDE DEF h
  <2> QED
    BY <1>2, <1>3, <2>1, <2>2
<1>4. CASE Accept(t)
  BY <1>1, <1>3, <1>4 DEF Accept, At
<1>5. CASE BadBody(t)
  BY <1>1, <1>5 DEF BadBody, At
<1>6. CASE WithoutSession(t)
  BY <1>3, <1>6 DEF WithoutSession, At
<1>7. ASSUME NEW s \in Sessions, WithSession(t, s)
      PROVE  RunInv' /\ Balance'
  <2> DEFINE h == [handler[t] EXCEPT !.pc = "scoped", !.session = s]
  <2>1. h \in Handlers /\ h.run = handler[t].run /\ h.pc = "scoped"
    BY <1>b DEF Handlers
  <2>2. Leave(t) \/ handler' = [handler EXCEPT ![t] = h]
    BY <1>7 DEF WithSession
  <2>3. handler[t].pc = "body" /\ UNCHANGED <<metrics, ended>>
    BY <1>7 DEF WithSession, At
  <2> HIDE DEF h
  <2> QED
    BY <1>1, <1>2, <2>1, <2>2, <2>3
<1>8. ASSUME NEW r \in Runs, StartRun(t, r)
      PROVE  RunInv' /\ Balance'
  <2>1. handler[t].pc = "scoped" /\ r # None
    BY <1>8, ServeAssumption DEF StartRun, At
  <2>2. \A u \in Threads : u # t => handler'[u] = handler[u]
    BY <1>8 DEF StartRun, ServeTypes
  <2>3. handler'[t].run = r /\ handler'[t].pc = "running"
    BY <1>8, <1>b DEF StartRun, ServeTypes, Handlers
  <2>4. RunInv'
    BY <2>1, <2>2, <2>3 DEF RunInv
  <2>5. t \notin Busy /\ Busy' = Busy \cup {t}
    BY <2>1, <2>2, <2>3 DEF RunInv, Busy
  <2>6. /\ metrics'.runs_total = metrics.runs_total + 1
        /\ metrics'.runs_failed = metrics.runs_failed
        /\ ended' = ended
    BY <1>8 DEF StartRun, ServeTypes, Metrics
  <2>7. Cardinality(Busy') = Cardinality(Busy) + 1
    BY <2>5, BusyCount
  <2> QED
    BY <1>0, <1>a, <2>4, <2>6, <2>7 DEF Balance
<1>9. ASSUME NEW c \in Capabilities, Invoke(t, c)
      PROVE  RunInv' /\ Balance'
  <2> DEFINE h == [handler[t] EXCEPT !.calls = @ + 1]
  <2>1. h \in Handlers /\ h.run = handler[t].run /\ h.pc = handler[t].pc
    BY <1>9, <1>b, ServeAssumption DEF Invoke, Handlers
  <2>2. handler' = [handler EXCEPT ![t] = h] /\ ended' = ended
    BY <1>9 DEF Invoke
  <2>3. /\ metrics'.runs_total = metrics.runs_total
        /\ metrics'.runs_failed = metrics.runs_failed
    BY <1>9 DEF Invoke, ServeTypes, Metrics
  <2> HIDE DEF h
  <2> QED
    BY <1>2, <2>1, <2>2, <2>3
<1>10. ASSUME Leave(t), handler[t].pc \in {"running", "stored"}
       PROVE  /\ RunInv'
              /\ Cardinality(Busy') = Cardinality(Busy) - 1
  BY <1>10, RunLeft, BusyCount
<1>11. CASE RunFails(t)
  <2>1. /\ metrics'.runs_total = metrics.runs_total
        /\ metrics'.runs_failed = metrics.runs_failed + 1
        /\ ended'.ok = ended.ok /\ ended'.dropped = ended.dropped
    BY <1>11 DEF RunFails, ServeTypes, Metrics
  <2>2. RunInv' /\ Cardinality(Busy') = Cardinality(Busy) - 1
    BY <1>10, <1>11 DEF RunFails, At
  <2> QED
    BY <1>0, <1>a, <2>1, <2>2 DEF Balance
<1>12. CASE RunRaises(t)
  <2>1. /\ metrics' = metrics /\ ended'.ok = ended.ok
        /\ ended'.dropped = ended.dropped + 1
    BY <1>12 DEF RunRaises, ServeTypes
  <2>2. RunInv' /\ Cardinality(Busy') = Cardinality(Busy) - 1
    BY <1>10, <1>12 DEF RunRaises, At
  <2> QED
    BY <1>0, <1>a, <2>1, <2>2 DEF Balance
<1>13. CASE RunReturns(t)
  BY <1>3, <1>13 DEF RunReturns, At
<1>14. CASE CountCalls(t)
  <2>1. /\ metrics'.runs_total = metrics.runs_total
        /\ metrics'.runs_failed = metrics.runs_failed
    BY <1>14 DEF CountCalls, ServeTypes, Metrics
  <2> QED
    BY <1>3, <1>14, <2>1 DEF CountCalls, At
<1>15. CASE Store(t)
  BY <1>3, <1>15 DEF Store, At
<1>16. CASE Reply(t)
  <2>1. /\ metrics' = metrics /\ ended'.dropped = ended.dropped
        /\ ended'.ok = ended.ok + 1
    BY <1>16 DEF Reply, ServeTypes
  <2>2. RunInv' /\ Cardinality(Busy') = Cardinality(Busy) - 1
    BY <1>10, <1>16 DEF Reply, At
  <2> QED
    BY <1>0, <1>a, <2>1, <2>2 DEF Balance
<1>17. CASE ReplyFails(t)
  <2>1. /\ metrics' = metrics /\ ended'.ok = ended.ok
        /\ ended'.dropped = ended.dropped + 1
    BY <1>17 DEF ReplyFails, ServeTypes
  <2>2. RunInv' /\ Cardinality(Busy') = Cardinality(Busy) - 1
    BY <1>10, <1>17 DEF ReplyFails, At
  <2> QED
    BY <1>0, <1>a, <2>1, <2>2 DEF Balance
<1>18. CASE AcceptFails(t)
  BY <1>1, <1>18 DEF AcceptFails, At
<1> QED
  BY <1>4, <1>5, <1>6, <1>7, <1>8, <1>9, <1>11, <1>12, <1>13, <1>14,
     <1>15, <1>16, <1>17, <1>18 DEF Work

LEMMA CoveredWork ==
  ASSUME ServeTypes, ServeTypes', Covered, NEW t \in Threads, Work(t)
  PROVE  Covered'
<1> USE DEF countVars, nonceVars
<1>1. handler[t] \in Handlers /\ handler[t].calls \in Nat
  BY ServeAssumption DEF ServeTypes, Handlers
<1>2. Owed(t) \in Nat
  BY <1>1 DEF Owed
<1>3. /\ metrics.tool_denials_total \in Nat /\ metrics.tool_calls_total \in Nat
      /\ ended.calls \in Nat
  BY DEF ServeTypes, Metrics
<1>4. ASSUME NEW h \in Handlers, handler' = [handler EXCEPT ![t] = h]
      PROVE  /\ \A u \in Threads : u # t => handler'[u] = handler[u]
             /\ Owed(t)' = IF h.pc \in {"running", "ran"} THEN h.calls ELSE 0
  BY <1>4 DEF ServeTypes, Owed
\* A step that counts nothing, of a thread that owes no less than before.
<1>5. ASSUME NEW h \in Handlers, handler' = [handler EXCEPT ![t] = h],
             \/ handler[t].pc \notin {"running", "ran"}
             \/ h.pc \in {"running", "ran"} /\ h.calls = handler[t].calls,
             metrics'.tool_denials_total = metrics.tool_denials_total,
             metrics'.tool_calls_total = metrics.tool_calls_total,
             ended'.calls = ended.calls
      PROVE  Covered'
  <2>1. h.calls \in Nat
    BY ServeAssumption DEF Handlers
  <2>2. Owed(t)' \in Nat /\ Owed(t) <= Owed(t)'
    BY <1>1, <1>4, <1>5, <2>1 DEF Owed
  <2> QED
    BY <1>2, <1>3, <1>4, <1>5, <2>2, CoveredMove
<1>6. ASSUME Leave(t), handler[t].pc \notin {"running", "ran"},
             UNCHANGED metrics, ended'.calls = ended.calls
      PROVE  Covered'
  <2>1. Idle \in Handlers
    BY ServeAssumption DEF Idle, Handlers
  <2> QED
    BY <1>5, <1>6, <2>1 DEF Leave
<1>7. ASSUME NEW p \in {"body", "scoped", "ran", "stored"}, Goto(t, p),
             handler[t].pc = "running" => p = "ran", handler[t].pc # "ran",
             UNCHANGED <<metrics, ended>>
      PROVE  Covered'
  <2> DEFINE h == [handler[t] EXCEPT !.pc = p]
  <2>1. h \in Handlers /\ h.pc = p /\ h.calls = handler[t].calls
    BY <1>1 DEF Handlers
  <2>2. handler' = [handler EXCEPT ![t] = h]
    BY <1>7 DEF Goto
  <2> HIDE DEF h
  <2> QED
    BY <1>5, <1>7, <2>1, <2>2
<1>8. CASE Accept(t) \/ AcceptFails(t) \/ BadBody(t) \/ WithoutSession(t)
             \/ Reply(t) \/ ReplyFails(t)
  <2>1. /\ handler[t].pc \notin {"running", "ran"}
        /\ UNCHANGED metrics
        /\ \/ Leave(t) /\ ended'.calls = ended.calls
           \/ UNCHANGED ended /\ (Goto(t, "body") \/ Goto(t, "scoped"))
    BY <1>8 DEF Accept, AcceptFails, BadBody, WithoutSession, Reply, ReplyFails, At,
                ServeTypes
  <2> QED
    BY <1>6, <1>7, <2>1
<1>9. ASSUME NEW s \in Sessions, WithSession(t, s)
      PROVE  Covered'
  <2> DEFINE h == [handler[t] EXCEPT !.pc = "scoped", !.session = s]
  <2>1. h \in Handlers
    BY <1>1 DEF Handlers
  <2>2. Leave(t) \/ handler' = [handler EXCEPT ![t] = h]
    BY <1>9 DEF WithSession
  <2>3. handler[t].pc = "body" /\ UNCHANGED <<metrics, ended>>
    BY <1>9 DEF WithSession, At
  <2> HIDE DEF h
  <2> QED
    BY <1>5, <1>6, <2>1, <2>2, <2>3
<1>10. ASSUME NEW r \in Runs, StartRun(t, r)
       PROVE  Covered'
  <2> DEFINE scope == Scoped(handler[t].token)
             h == [handler[t] EXCEPT !.pc = "running", !.run = r,
                                     !.caps = scope.caps, !.limit = scope.calls]
  <2>1. handler' = [handler EXCEPT ![t] = h]
    BY <1>10 DEF StartRun
  <2>2. h \in Handlers
    <3>1. handler'[t] = h /\ handler'[t] \in Handlers
      BY <2>1 DEF ServeTypes
    <3> QED
      BY <3>1
  <2>3. /\ handler[t].pc = "scoped" /\ ended' = ended
        /\ metrics'.tool_denials_total = metrics.tool_denials_total
        /\ metrics'.tool_calls_total = metrics.tool_calls_total
    BY <1>10 DEF StartRun, At, ServeTypes, Metrics
  <2> HIDE DEF h
  <2> QED
    BY <1>5, <2>1, <2>2, <2>3
<1>11. ASSUME NEW c \in Capabilities, Invoke(t, c)
       PROVE  Covered'
  <2> DEFINE h == [handler[t] EXCEPT !.calls = @ + 1]
  <2>1. handler' = [handler EXCEPT ![t] = h] /\ handler[t].pc = "running"
    BY <1>11 DEF Invoke, At
  <2>2. h.pc = "running" /\ h.calls = handler[t].calls + 1
    BY <1>1, <2>1 DEF Handlers
  <2>3. h \in Handlers
    <3>1. handler'[t] = h /\ handler'[t] \in Handlers
      BY <2>1 DEF ServeTypes
    <3> QED
      BY <3>1
  <2> HIDE DEF h
  <2>4. Owed(t) = handler[t].calls /\ Owed(t)' = handler[t].calls + 1
    BY <1>4, <2>1, <2>2, <2>3 DEF Owed
  <2>5. /\ ended' = ended
        /\ metrics'.tool_calls_total = metrics.tool_calls_total
        /\ metrics'.tool_denials_total \in
              {metrics.tool_denials_total, metrics.tool_denials_total + 1}
    BY <1>11 DEF Invoke, ServeTypes, Metrics
  <2> QED
    BY <1>1, <1>3, <1>4, <2>1, <2>3, <2>4, <2>5, CoveredMove
\* A run that ends without a result.
<1>12. ASSUME Leave(t), handler[t].pc = "running",
              ended'.calls = ended.calls + handler[t].calls,
              metrics'.tool_denials_total = metrics.tool_denials_total,
              metrics'.tool_calls_total = metrics.tool_calls_total
       PROVE  Covered'
  <2>1. Idle \in Handlers /\ Idle.pc = "idle"
    BY ServeAssumption DEF Idle, Handlers
  <2>2. Owed(t) = handler[t].calls /\ Owed(t)' = 0
    BY <1>4, <1>12, <2>1 DEF Owed, Leave
  <2> QED
    BY <1>1, <1>3, <1>4, <1>12, <2>1, <2>2, CoveredMove DEF Leave
<1>13. CASE RunFails(t)
  <2>1. /\ metrics'.tool_denials_total = metrics.tool_denials_total
        /\ metrics'.tool_calls_total = metrics.tool_calls_total
        /\ ended'.calls = ended.calls + handler[t].calls
    BY <1>13 DEF RunFails, ServeTypes, Metrics
  <2> QED
    BY <1>12, <1>13, <2>1 DEF RunFails, At
<1>14. CASE RunRaises(t)
  <2>1. metrics' = metrics /\ ended'.calls = ended.calls + handler[t].calls
    BY <1>14 DEF RunRaises, ServeTypes
  <2> QED
    BY <1>12, <1>14, <2>1 DEF RunRaises, At
<1>15. CASE RunReturns(t)
  BY <1>7, <1>15 DEF RunReturns, At
<1>16. CASE Store(t)
  BY <1>7, <1>16 DEF Store, At
<1>17. CASE CountCalls(t)
  <2> DEFINE h == [handler[t] EXCEPT !.pc = "counted"]
  <2>1. h \in Handlers /\ h.pc = "counted"
    BY <1>1 DEF Handlers
  <2>2. handler' = [handler EXCEPT ![t] = h] /\ handler[t].pc = "ran"
    BY <1>17 DEF CountCalls, Goto, At
  <2> HIDE DEF h
  <2>3. Owed(t) = handler[t].calls /\ Owed(t)' = 0
    BY <1>4, <2>1, <2>2 DEF Owed
  <2>4. /\ metrics'.tool_denials_total = metrics.tool_denials_total
        /\ metrics'.tool_calls_total = metrics.tool_calls_total + handler[t].calls
        /\ ended' = ended
    BY <1>17 DEF CountCalls, ServeTypes, Metrics
  <2> QED
    BY <1>1, <1>3, <1>4, <2>1, <2>2, <2>3, <2>4, CoveredMove
<1> QED
  BY <1>8, <1>9, <1>10, <1>11, <1>13, <1>14, <1>15, <1>16, <1>17 DEF Work

LEMMA RunsStep ==
  ServeTypes /\ ServeTypes' /\ RunInv /\ Balance /\ Covered /\ [Next]_vars =>
    RunInv' /\ Balance' /\ Covered'
<1> SUFFICES ASSUME ServeTypes, ServeTypes', RunInv, Balance, Covered, [Next]_vars
             PROVE  RunInv' /\ Balance' /\ Covered'
  OBVIOUS
<1>1. ASSUME metrics'.runs_total = metrics.runs_total,
             metrics'.runs_failed = metrics.runs_failed,
             metrics'.tool_denials_total = metrics.tool_denials_total,
             metrics'.tool_calls_total = metrics.tool_calls_total,
             ended' = ended, Busy' = Busy, Uncounted' = Uncounted
      PROVE  Balance' /\ Covered'
  BY <1>1 DEF Balance, Covered
<1>2. CASE Arrival
  <2>1. /\ metrics'.runs_total = metrics.runs_total
        /\ metrics'.runs_failed = metrics.runs_failed
        /\ metrics'.tool_denials_total = metrics.tool_denials_total
        /\ metrics'.tool_calls_total = metrics.tool_calls_total
        /\ ended' = ended
    BY <1>2, ArrivalStep DEF CountRequest, countVars, nonceVars, ServeTypes, Metrics
  <2>2. CASE UNCHANGED handler
    BY <1>1, <2>1, <2>2 DEF RunInv, Busy, Uncounted, Owed
  <2>3. ASSUME NEW t \in Threads, NEW k \in Tokens, Receive(t, k)
        PROVE  RunInv' /\ Balance' /\ Covered'
    <3> DEFINE h == [Idle EXCEPT !.pc = "accept", !.token = k]
    <3>1. Idle \in Handlers /\ Idle.run = None
      BY ServeAssumption DEF Idle, Handlers
    <3>2. h \in Handlers /\ h.pc = "accept" /\ h.run = None
      BY <3>1 DEF Handlers
    <3>3. handler' = [handler EXCEPT ![t] = h] /\ handler[t].pc = "idle"
      BY <2>3 DEF Receive, At
    <3>4. handler[t].run = None
      BY <3>3 DEF RunInv
    <3> HIDE DEF h
    <3>5. \A u \in Threads : Owed(u)' = Owed(u)
      BY <3>2, <3>3 DEF ServeTypes, Owed
    <3>6. Uncounted' = Uncounted
      BY <3>5 DEF Uncounted
    <3> QED
      BY <1>1, <2>1, <3>2, <3>3, <3>4, <3>6, RunKept
  <2> QED
    BY <1>2, <2>2, <2>3, ArrivalStep
<1>3. CASE Restart
  <2>1. /\ handler' = [t \in Threads |-> Idle]
        /\ metrics' = NoMetrics
        /\ ended' = NoneEnded
    BY <1>3 DEF Restart
  <2>2. RunInv'
    BY <2>1 DEF Idle, RunInv
  <2>3. Busy' = {}
    BY <2>1 DEF Busy, Idle
  <2>4. Uncounted' = {}
    <3>1. \A call \in Threads \X (1..MaxIterations) :
            Owed(call[1])' = 0 /\ call[2] > 0
      BY <2>1, ServeAssumption DEF Owed, Idle
    <3>2. \A call \in Threads \X (1..MaxIterations) : ~(call[2] <= Owed(call[1])')
      BY <3>1, ServeAssumption
    <3> QED
      BY <3>2 DEF Uncounted
  <2>5. Cardinality(Busy') = 0 /\ Cardinality(Uncounted') = 0
    BY <2>3, <2>4, FS_EmptySet
  <2> QED
    BY <2>1, <2>2, <2>5 DEF NoMetrics, NoneEnded, Balance, Covered
<1>4. CASE UNCHANGED <<handler, metrics, ended>>
  BY <1>1, <1>4 DEF RunInv, Busy, Uncounted, Owed
<1> QED
  BY <1>2, <1>3, <1>4, RunsWork, CoveredWork DEF Next, Waiting, vars, serveVars, countVars, nonceVars

(***************************************************************************)
(* Every run counted as started is under way, answered, counted as failed, *)
(* or lost its connection, and no denial is counted but for a call that is *)
(* counted, still uncounted, or of a run without a result, whatever the    *)
(* threads do (cli.py, do_POST; tools.py, _record_denial).                 *)
(***************************************************************************)
THEOREM RunsAreAccountedFor == Spec => []RunsAccountedFor
<1>1. Balance /\ Covered => RunsAccountedFor
  BY DEF Balance, Covered, RunsAccountedFor, Busy
<1> QED
  BY <1>1, Types, RunsInit, RunsStep, PTL DEF Spec
-----------------------------------------------------------------------------
(* The store of a server, and its types                                    *)

LEMMA ServerStore ==
  ASSUME ServeTypes, RunInv, [Next]_vars
  PROVE  StoreStep \/ (Restart /\ Emptied)
<1>1. ASSUME NEW t \in Threads, Store(t)
      PROVE  StoreStep
  <2>1. handler[t].run \in Runs /\ handler[t].session \in Sessions \cup {None}
    BY <1>1 DEF Store, At, RunInv, ServeTypes, Handlers
  <2> QED
    BY <1>1, <2>1 DEF Store, StoreStep
<1>2. ASSUME NEW t \in Threads, Work(t), ~Store(t)
      PROVE  StoreStep
  BY <1>2 DEF Work, Accept, AcceptFails, BadBody, WithoutSession, WithSession,
              StartRun, Invoke, RunFails, RunRaises, RunReturns, CountCalls, Reply,
              ReplyFails, StoreStep
<1>3. CASE Arrival
  BY <1>3 DEF Arrival, Refuse, CreateSession, ShowSession, DeleteSession, ShowMetrics,
              Receive, StoreStep
<1>4. CASE Tick \/ UNCHANGED vars
  BY <1>4 DEF StoreStep, vars
<1>5. Restart => Emptied
  BY DEF Restart, Emptied
<1> QED
  BY <1>1, <1>2, <1>3, <1>4, <1>5 DEF Next, Waiting

\* The types of what the proofs above do not look at.
HistoryTypes ==
  /\ started \subseteq Runs
  /\ answered \in [Runs -> Sessions \cup {None}]
  /\ kills \in 0..MaxKills

LEMMA HistoryTypesStep ==
  ASSUME ServeTypes, HistoryTypes, [Next]_vars
  PROVE  HistoryTypes'
<1>1. ASSUME NEW t \in Threads, NEW r \in Runs, StartRun(t, r)
      PROVE  HistoryTypes'
  BY <1>1 DEF StartRun, HistoryTypes
<1>2. ASSUME NEW t \in Threads, Reply(t)
      PROVE  HistoryTypes'
  <2>1. handler[t].session \in Sessions \cup {None}
    BY DEF ServeTypes, Handlers
  <2> QED
    BY <1>2, <2>1 DEF Reply, HistoryTypes
<1>3. CASE Restart
  <2>1. kills' \in 0..MaxKills
    BY <1>3, ServeAssumption DEF Restart, HistoryTypes
  <2> QED
    BY <1>3, <2>1 DEF Restart, HistoryTypes
<1>4. ASSUME UNCHANGED <<started, answered, kills>>
      PROVE  HistoryTypes'
  BY <1>4 DEF HistoryTypes
<1>5. ASSUME NEW t \in Threads, Work(t), ~Reply(t), ~ \E r \in Runs : StartRun(t, r)
      PROVE  UNCHANGED <<started, answered, kills>>
  BY <1>5 DEF Work, Accept, AcceptFails, BadBody, WithoutSession, WithSession,
              Invoke, RunFails, RunRaises, RunReturns, CountCalls, Store,
              ReplyFails, countVars
<1>6. Arrival => UNCHANGED <<started, answered, kills>>
  BY ArrivalStep DEF countVars
<1> QED
  BY <1>1, <1>2, <1>3, <1>4, <1>5, <1>6 DEF Next, Waiting, vars, serveVars, countVars

\* All of it.
ServerInv == ServeTypes /\ HasToken /\ RunInv /\ StoreInv /\ HistoryTypes

LEMMA Served == Spec => []ServerInv
<1>1. Init => StoreInv /\ HistoryTypes
  BY StoreInit, ServeAssumption DEF Init, HistoryTypes
<1>2. ServeTypes /\ RunInv /\ StoreInv /\ HistoryTypes /\ [Next]_vars
        => StoreInv' /\ HistoryTypes'
  BY ServerStore, StoreNext, EmptiedStore, HistoryTypesStep
<1>3. ServerInv <=> ServeTypes /\ HasToken /\ RunInv /\ StoreInv /\ HistoryTypes
  BY DEF ServerInv
<1> QED
  BY <1>1, <1>2, <1>3, Types, RunsInit, RunsStep, PTL DEF Spec

(***************************************************************************)
(* A server keeps its types for any requests, threads, tokens and          *)
(* restarts (cli.py, serve).                                               *)
(***************************************************************************)
THEOREM ServeTypeCorrect == Spec => []TypeOK
<1>1. ServerInv => TypeOK
  BY StoreProperties DEF ServerInv, ServeTypes, Handlers, Metrics, HistoryTypes, TypeOK
<1> QED
  BY <1>1, Served, PTL

(***************************************************************************)
(* A server implements the store of any program: whatever its handlers,    *)
(* its requests and its restarts do to the sessions, they do by calls of   *)
(* the store or by its end (cli.py, serve; session.py).                    *)
(***************************************************************************)
THEOREM ServerIsAStore == Spec => StoreSpec
<1>1. Init => SessionInit
  BY DEF Init
<1>2. ServeTypes /\ RunInv /\ [Next]_vars => [StoreStep \/ Emptied]_sessionVars
  BY ServerStore
<1>3. ServerInv => ServeTypes /\ RunInv
  BY DEF ServerInv
<1> QED
  BY <1>1, <1>2, <1>3, Served, PTL DEF Spec, StoreSpec

(***************************************************************************)
(* A session that was deleted, expired or evicted never comes back,        *)
(* whatever requests are under way when it goes (session.py).              *)
(***************************************************************************)
THEOREM SessionsStayGone == Spec => GoneForGood
BY ServerIsAStore, AnyStoreForgets, PTL

(***************************************************************************)
(* The messages a server keeps of a session are whole turns, however the   *)
(* runs of the session interleave and fail (cli.py, do_POST; session.py,   *)
(* append).                                                                *)
(***************************************************************************)
THEOREM ServeTurnsAreWhole == Spec => []TurnsAreWhole
BY ServerIsAStore, AnyStoreTurnsAreWhole, PTL

(***************************************************************************)
(* With a positive limit of messages a server holds no more sessions than  *)
(* max_sessions, and no more messages in one than its limit, however many  *)
(* clients ask for sessions (session.py, _evict and append).               *)
(***************************************************************************)
THEOREM ServeSessionsBounded ==
  ASSUME MaxMessages > 0
  PROVE  Spec => []SessionsBounded
BY ServerIsAStore, AnyStoreIsBounded, PTL
-----------------------------------------------------------------------------
(* What sessions remember                                                  *)

\* The sessions that requests are for, and were answered for, were created.
Known ==
  \A s \in Sessions :
    \/ \E t \in Threads : handler[t].session = s
    \/ \E r \in Runs : answered[r] = s
    => s \in issued

\* What is about to be answered is in its session, as is what was.
Remembering ==
  /\ \A t \in Threads : \A s \in Sessions, r \in Runs :
       At(t, "stored") /\ handler[t].session = s /\ handler[t].run = r => Recalls(s, r)
  /\ \A s \in Sessions, r \in Runs : answered[r] = s => Recalls(s, r)

\* A handler that moves on leaves what is remembered alone.
LEMMA RememberMove ==
  ASSUME ServerInv, Known, Remembering, StoreStep,
         NEW t \in Threads, NEW h \in Handlers, handler' = [handler EXCEPT ![t] = h],
         UNCHANGED answered,
         \A s \in Sessions : h.session = s => s \in issued,
         \A s \in Sessions, r \in Runs :
           h.pc = "stored" /\ h.session = s /\ h.run = r => Recalls(s, r)'
  PROVE  Known' /\ Remembering'
<1>1. \A u \in Threads : handler'[u] = IF u = t THEN h ELSE handler[u]
  BY DEF ServerInv, ServeTypes
<1>2. \A s \in issued : s \in issued'
  BY DEF StoreStep, Create, GetHistory, Delete, AppendTurn, Stats, Tick, sessionVars
<1>3. \A s \in issued, r \in Runs : Recalls(s, r) => Recalls(s, r)'
  BY StoreRecalls DEF ServerInv
<1>4. Known'
  BY <1>1, <1>2 DEF Known
<1>5. Remembering'
  BY <1>1, <1>3 DEF Known, Remembering, At
<1> QED
  BY <1>4, <1>5

LEMMA RememberStep ==
  ASSUME ServerInv, ServerInv', Known, Remembering, [Next]_vars
  PROVE  Known' /\ Remembering'
<1>0. Idle \in Handlers /\ Idle.session = None /\ Idle.pc = "idle" /\ None \notin Sessions
  BY ServeAssumption DEF Idle, Handlers
<1>1. CASE Restart
  BY <1>0, <1>1 DEF Restart, Known, Remembering, Recalls, At
<1> SUFFICES ASSUME StoreStep
             PROVE  Known' /\ Remembering'
  BY <1>1, ServerStore DEF ServerInv
<1>2. ASSUME NEW t \in Threads, Leave(t), UNCHANGED answered
      PROVE  Known' /\ Remembering'
  BY <1>0, <1>2, RememberMove DEF Leave
<1>3. ASSUME NEW t \in Threads, UNCHANGED answered, NEW h \in Handlers,
             handler' = [handler EXCEPT ![t] = h], h.session = handler[t].session,
             h.pc # "stored"
      PROVE  Known' /\ Remembering'
  BY <1>3, RememberMove DEF Known
<1>4. ASSUME NEW t \in Threads, NEW p \in {"body", "scoped", "ran", "counted"},
             Goto(t, p), UNCHANGED answered
      PROVE  Known' /\ Remembering'
  <2> DEFINE h == [handler[t] EXCEPT !.pc = p]
  <2>0. handler[t] \in Handlers
    BY DEF ServerInv, ServeTypes
  <2>1. h \in Handlers /\ h.session = handler[t].session /\ h.pc # "stored"
    BY <2>0 DEF Handlers
  <2>2. handler' = [handler EXCEPT ![t] = h]
    BY <1>4 DEF Goto
  <2> HIDE DEF h
  <2> QED
    BY <1>3, <1>4, <2>1, <2>2
<1>5. ASSUME NEW t \in Threads, NEW s \in Sessions, WithSession(t, s)
      PROVE  Known' /\ Remembering'
  <2>1. UNCHANGED answered
    BY <1>5 DEF WithSession, countVars
  <2>2. CASE s \in Alive
    <3> DEFINE h == [handler[t] EXCEPT !.pc = "scoped", !.session = s]
    <3>0. handler[t] \in Handlers
      BY DEF ServerInv, ServeTypes
    <3>1. h \in Handlers /\ h.session = s /\ h.pc = "scoped"
      BY <3>0 DEF Handlers
    <3>2. handler' = [handler EXCEPT ![t] = h]
      BY <1>5, <2>2 DEF WithSession, ServerInv, ServeTypes
    <3>3. s \in issued
      BY <2>2, Stored DEF ServerInv
    <3> HIDE DEF h
    <3> QED
      BY <2>1, <3>1, <3>2, <3>3, RememberMove
  <2>3. CASE s \notin Alive
    BY <1>2, <1>5, <2>1, <2>3 DEF WithSession
  <2> QED
    BY <2>2, <2>3
<1>6. ASSUME NEW t \in Threads, NEW r \in Runs, StartRun(t, r)
      PROVE  Known' /\ Remembering'
  <2> DEFINE h == handler'[t]
  <2>1. h \in Handlers
    BY DEF ServerInv, ServeTypes
  <2>2. handler' = [handler EXCEPT ![t] = h] /\ h.session = handler[t].session
        /\ h.pc = "running" /\ UNCHANGED answered
    BY <1>6 DEF StartRun, ServerInv, ServeTypes, Handlers
  <2> HIDE DEF h
  <2> QED
    BY <1>3, <2>1, <2>2
<1>7. ASSUME NEW t \in Threads, NEW c \in Capabilities, Invoke(t, c)
      PROVE  Known' /\ Remembering'
  <2> DEFINE h == handler'[t]
  <2>1. h \in Handlers
    BY DEF ServerInv, ServeTypes
  <2>2. handler' = [handler EXCEPT ![t] = h] /\ h.session = handler[t].session
        /\ h.pc = "running" /\ UNCHANGED answered
    BY <1>7 DEF Invoke, At, ServerInv, ServeTypes, Handlers
  <2> HIDE DEF h
  <2> QED
    BY <1>3, <2>1, <2>2
<1>8. ASSUME NEW t \in Threads, Store(t)
      PROVE  Known' /\ Remembering'
  <2> DEFINE h == [handler[t] EXCEPT !.pc = "stored"]
  <2>0. handler[t] \in Handlers
    BY DEF ServerInv, ServeTypes
  <2>1. /\ h \in Handlers /\ h.session = handler[t].session /\ h.run = handler[t].run
        /\ h.session \in Sessions \cup {None}
    BY <2>0 DEF Handlers
  <2>2. handler' = [handler EXCEPT ![t] = h] /\ UNCHANGED answered
    BY <1>8 DEF Store, Goto, countVars
  <2> HIDE DEF h
  <2>3. ASSUME NEW s \in Sessions, NEW r \in Runs, h.session = s, h.run = r
        PROVE  Recalls(s, r)'
    <3>1. AppendTurn(s, r)
      BY <1>0, <1>8, <2>1, <2>3 DEF Store
    <3> QED
      BY <3>1, AppendRecalls DEF ServerInv
  <2>4. \A s \in Sessions : h.session = s => s \in issued
    BY <2>1 DEF Known
  <2> QED
    BY <2>1, <2>2, <2>3, <2>4, RememberMove
<1>9. ASSUME NEW t \in Threads, Reply(t)
      PROVE  Known' /\ Remembering'
  <2>1. /\ answered' = [answered EXCEPT ![handler[t].run] = handler[t].session]
        /\ UNCHANGED <<sessions, issued>> /\ At(t, "stored")
        /\ handler' = [handler EXCEPT ![t] = Idle]
    BY <1>9 DEF Reply, Leave, sessionVars
  <2>2. \A u \in Threads : handler'[u] = IF u = t THEN Idle ELSE handler[u]
    BY <2>1 DEF ServerInv, ServeTypes
  <2>3. \A r \in Runs : answered'[r] =
          IF r = handler[t].run THEN handler[t].session ELSE answered[r]
    BY <2>1 DEF ServerInv, HistoryTypes
  <2>4. \A s \in Sessions, r \in Runs : Recalls(s, r)' <=> Recalls(s, r)
    BY <2>1 DEF Recalls
  <2>5. Known'
    BY <1>0, <2>1, <2>2, <2>3 DEF Known
  <2>6. Remembering'
    BY <1>0, <2>1, <2>2, <2>3, <2>4 DEF Remembering, At
  <2> QED
    BY <2>5, <2>6
<1>10. ASSUME NEW t \in Threads, Work(t)
       PROVE  Known' /\ Remembering'
  BY <1>2, <1>4, <1>5, <1>6, <1>7, <1>8, <1>9, <1>10
     DEF Work, Accept, AcceptFails, BadBody, WithoutSession, RunFails, RunRaises,
         RunReturns, CountCalls, ReplyFails, countVars
<1>11. ASSUME UNCHANGED <<handler, answered>>
       PROVE  Known' /\ Remembering'
  <2>1. \A s \in issued : s \in issued'
    BY DEF StoreStep, Create, GetHistory, Delete, AppendTurn, Stats, Tick, sessionVars
  <2>2. \A s \in issued, r \in Runs : Recalls(s, r) => Recalls(s, r)'
    BY StoreRecalls DEF ServerInv
  <2> QED
    BY <1>11, <2>1, <2>2 DEF Known, Remembering, At
<1>12. ASSUME NEW t \in Threads, NEW k \in Tokens, Receive(t, k)
       PROVE  Known' /\ Remembering'
  <2> DEFINE h == [Idle EXCEPT !.pc = "accept", !.token = k]
  <2>1. h \in Handlers /\ h.session = None /\ h.pc # "stored"
    BY <1>0 DEF Idle, Handlers
  <2>2. handler' = [handler EXCEPT ![t] = h] /\ UNCHANGED answered
    BY <1>12 DEF Receive, countVars
  <2> HIDE DEF h
  <2> QED
    BY <1>0, <2>1, <2>2, RememberMove
<1>13. Arrival => Known' /\ Remembering'
  BY <1>11, <1>12, ArrivalStep DEF countVars
<1> QED
  BY <1>1, <1>10, <1>11, <1>13 DEF Next, Waiting, vars, serveVars, countVars

(***************************************************************************)
(* While a session lives it remembers every turn its clients were given an *)
(* answer to, up to the limit of its messages, for any limits, threads and *)
(* interleaving of requests, deletions and expiry (cli.py, do_POST;        *)
(* session.py, append).                                                    *)
(***************************************************************************)
THEOREM AnswersRemembered == Spec => []AnswersAreRemembered
<1>1. Init => Known /\ Remembering
  BY ServeAssumption DEF Init, Idle, Known, Remembering, At
<1>2. ServerInv /\ ServerInv' /\ Known /\ Remembering /\ [Next]_vars
        => Known' /\ Remembering'
  BY RememberStep
<1>3. ServerInv /\ Remembering => AnswersAreRemembered
  <2> SUFFICES ASSUME ServerInv, Remembering,
                      NEW s \in DOMAIN sessions, NEW r \in Runs, answered[r] = s
               PROVE  LET q == sessions[s].messages
                      IN \/ Turn(r)[2] \in {q[i] : i \in DOMAIN q}
                         \/ MaxMessages > 0 /\ Len(q) >= MaxMessages
    BY DEF AnswersAreRemembered
  <2>1. s \in Sessions /\ sessions[s].messages \in Seq(Messages)
    BY Stored DEF ServerInv
  <2>2. Kept(sessions[s].messages, r)
    BY <2>1 DEF Remembering, Recalls
  <2> QED
    BY <2>1, <2>2 DEF Kept
<1> QED
  BY <1>1, <1>2, <1>3, Served, PTL DEF Spec
-----------------------------------------------------------------------------
(* Why sessions leave                                                      *)

(***************************************************************************)
(* While a server runs, a session leaves its store only because it was     *)
(* deleted, has expired, or is not among the most recently used, for any   *)
(* number of sessions and handlers (session.py, _evict).                   *)
(***************************************************************************)
THEOREM SessionsLeave == Spec => SessionsLeaveForCause
<1>1. Init => UsesInv
  BY FS_EmptySet DEF Init, SessionInit, UsesInv
<1>2. Emptied /\ UsesInv => UsesInv'
  BY DEF Emptied, UsesInv
<1>3. ServerInv /\ UsesInv /\ [Next]_vars => UsesInv' /\ (LeaveForCause \/ Restart)
  BY <1>2, ServerStore, UsesNext DEF ServerInv
<1>4. ServerInv /\ UsesInv /\ [Next]_vars => [LeaveForCause \/ Restart]_vars
  BY <1>3
<1> QED
  BY <1>1, <1>3, <1>4, Served, PTL DEF Spec, SessionsLeaveForCause
=============================================================================
