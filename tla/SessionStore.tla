---------------------------- MODULE SessionStore ----------------------------
(***************************************************************************)
(* agent/session.py: SessionStore, the bounded conversation memory of      *)
(* serve and chat.  Its lock makes every method one step.                  *)
(*                                                                         *)
(* The OrderedDict is a function from the ids it holds to their records    *)
(* and the order of its keys, as the pairs <<a, b>> with a before b.  Of a *)
(* message only its role and the run it belongs to are kept.  The clock    *)
(* does not go back.                                                       *)
(***************************************************************************)
EXTENDS Integers, Sequences, FiniteSets

CONSTANTS
  Sessions,     \* ids that create may draw; it draws none twice
  Runs,         \* runs whose user and assistant messages are appended
  MaxSessions,  \* api.sessions.max_sessions
  MaxMessages,  \* api.sessions.max_messages_per_session
  TTL,          \* api.sessions.ttl_seconds
  MaxTime       \* bound on the clock

ASSUME SessionAssumption == {MaxSessions, MaxMessages, TTL, MaxTime} \subseteq Nat

VARIABLES
  sessions,  \* id -> SessionRecord, of the ids in the store
  older,     \* <<a, b>>: a comes before b in the OrderedDict
  now,       \* time.time()
  issued,    \* ids create has returned (history)
  since      \* since[s]: sessions used since s was last used (history)

sessionVars == <<sessions, older, now, issued, since>>

Turn(r) == <<[role |-> "user", run |-> r], [role |-> "assistant", run |-> r]>>

Messages == [role : {"user", "assistant"}, run : Runs]

SessionTypeOK ==
  /\ DOMAIN sessions \subseteq issued
  /\ \A s \in DOMAIN sessions :
       sessions[s] \in [messages : Seq(Messages), updated_at : 0..now]
  /\ \A a, b \in DOMAIN sessions :
       a # b => (<<a, b>> \in older <=> <<b, a>> \notin older)
  /\ older \subseteq (DOMAIN sessions) \X (DOMAIN sessions)
  /\ now \in 0..MaxTime
  /\ issued \subseteq Sessions
  /\ since \in [Sessions -> SUBSET Sessions]

SessionInit ==
  /\ sessions = << >>
  /\ older = {}
  /\ now = 0
  /\ issued = {}
  /\ since = [s \in Sessions |-> {}]

-----------------------------------------------------------------------------
\* What _purge_expired drops.
Expired == {s \in DOMAIN sessions : now - sessions[s].updated_at > TTL}

Alive == DOMAIN sessions \ Expired

\* Mutation: s keeps its old place too.
AddedToEnd(S, s) == older \cup ((S \ {s}) \X {s})

\* move_to_end(s), in the order of the ids of S.
MovedToEnd(S, s) ==
  {p \in older : p[1] \in S \ {s} /\ p[2] \in S \ {s}} \cup ((S \ {s}) \X {s})

\* The store keeps the ids of S, with f for their records and o as order.
Keep(S, f, o) ==
  /\ sessions' = [s \in S |-> f[s]]
  /\ older' = {p \in o : p[1] \in S /\ p[2] \in S}

\* s was used: the history of uses goes on.
Used(s) ==
  since' = [x \in Sessions |-> IF x = s THEN {} ELSE since[x] \cup {s}]

\* Those of S that _evict leaves: it pops the first until MaxSessions are left.
Unevicted(S, o) ==
  {s \in S : Cardinality({x \in S : <<s, x>> \in o}) < MaxSessions}

Create(s) ==
  /\ s \notin issued
  /\ LET S == Alive \cup {s}
         o == MovedToEnd(S, s)
         new == [messages |-> << >>, updated_at |-> now]
     IN Keep(Unevicted(S, o), [x \in S |-> IF x = s THEN new ELSE sessions[x]], o)
  /\ issued' = issued \cup {s}
  /\ Used(s)
  /\ UNCHANGED now

\* What get_history returns for an unknown id.
NoHistory == <<[role |-> "none"]>>

History(s) == IF s \in Alive THEN sessions[s].messages ELSE NoHistory

\* Mutation: a session read is not moved to the end.
GetHistoryUnmoved(s) ==
  /\ Keep(Alive, sessions, older)
  /\ IF s \in Alive THEN Used(s) ELSE UNCHANGED since
  /\ UNCHANGED <<now, issued>>

GetHistory(s) ==
  /\ IF s \in Alive
       THEN Keep(Alive, sessions, MovedToEnd(Alive, s)) /\ Used(s)
       ELSE Keep(Alive, sessions, older) /\ UNCHANGED since
  /\ UNCHANGED <<now, issued>>

\* Mutation: one message too many is kept.
LastMessagesOffByOne(q) ==
  IF Len(q) > MaxMessages + 1 THEN SubSeq(q, Len(q) - MaxMessages, Len(q)) ELSE q

\* Mutation: the first messages are kept.
FirstMessages(q) ==
  IF Len(q) > MaxMessages THEN SubSeq(q, 1, MaxMessages) ELSE q

\* messages[-MaxMessages:], which is all of them when MaxMessages is 0.
LastMessages(q) ==
  IF Len(q) > MaxMessages /\ MaxMessages > 0
    THEN SubSeq(q, Len(q) - MaxMessages + 1, Len(q))
    ELSE q

\* Mutation: the messages are trimmed before they are extended.
ExtendedLate(q, r) == LastMessages(q) \o Turn(r)

Extended(q, r) == LastMessages(q \o Turn(r))

\* Mutation: append puts a session that is gone back.
AppendTurnRevives(s, r) ==
  /\ s \in issued
  /\ LET S == Alive \cup {s}
         old == IF s \in Alive THEN sessions[s].messages ELSE << >>
         rec == [messages |-> Extended(old, r), updated_at |-> now]
     IN Keep(S, [x \in S |-> IF x = s THEN rec ELSE sessions[x]], MovedToEnd(S, s))
  /\ Used(s)
  /\ UNCHANGED <<now, issued>>

\* append returns whether s was there; it does nothing when it was not.
AppendTurn(s, r) ==
  /\ IF s \in Alive
       THEN /\ LET rec == [messages |-> Extended(sessions[s].messages, r),
                           updated_at |-> now]
               IN Keep(Alive, [sessions EXCEPT ![s] = rec], MovedToEnd(Alive, s))
            /\ Used(s)
       ELSE Keep(Alive, sessions, older) /\ UNCHANGED since
  /\ UNCHANGED <<now, issued>>

\* delete purges nothing: it finds a session that expired unnoticed.
Delete(s) ==
  /\ Keep(DOMAIN sessions \ {s}, sessions, older)
  /\ UNCHANGED <<now, issued, since>>

Stats ==
  /\ Keep(Alive, sessions, older)
  /\ UNCHANGED <<now, issued, since>>

Tick ==
  /\ now < MaxTime
  /\ now' = now + 1
  /\ UNCHANGED <<sessions, older, issued, since>>

-----------------------------------------------------------------------------
(* Properties                                                              *)

(***************************************************************************)
(* A session that was deleted, expired or evicted never comes back, not    *)
(* even when a run that began before appends its turn (session.py, append).*)
(***************************************************************************)
GoneForGood ==
  [][\A s \in issued \ DOMAIN sessions : s \notin DOMAIN sessions']_sessionVars

\* A session leaves the store in this step for one of three reasons: it is
\* asked to, its last update is longer ago than the TTL, or as many other
\* sessions as the store holds were used since it was.
LeaveForCause ==
  \A s \in DOMAIN sessions \ DOMAIN sessions' :
    \/ Delete(s)
    \/ now - sessions[s].updated_at > TTL
    \/ Cardinality(since'[s]) >= MaxSessions

(***************************************************************************)
(* The messages of a session are whole turns, each a user's message and    *)
(* the answer to it, however the runs of the session interleave; only the  *)
(* oldest may have lost its first half to trimming, and only when the      *)
(* limit is odd (session.py, append).                                      *)
(***************************************************************************)
TurnsAreWhole ==
  \A s \in DOMAIN sessions :
    LET q == sessions[s].messages
        half == Len(q) % 2
    IN /\ half = 1 => Len(q) = MaxMessages
       /\ \A k \in 1..(Len(q) \div 2) :
            \E r \in Runs : SubSeq(q, half + 2*k - 1, half + 2*k) = Turn(r)

(***************************************************************************)
(* "Sessions are in-memory, bounded" (docs/HARNESS.md): at most            *)
(* max_sessions sessions of max_messages messages (session.py, _evict and  *)
(* append).                                                                *)
(***************************************************************************)
SessionsBounded ==
  /\ Cardinality(DOMAIN sessions) <= MaxSessions
  /\ \A s \in DOMAIN sessions : Len(sessions[s].messages) <= MaxMessages
=============================================================================
