--------------------------- MODULE ChatLoopProofs ---------------------------
(***************************************************************************)
(* Proofs about ChatLoop, for any limits, idle times and number of turns:  *)
(* types, what the store of a chat may hold, and what a run sees.          *)
(***************************************************************************)
EXTENDS ChatLoop, SessionStoreProofs

-----------------------------------------------------------------------------
(* The conversation                                                        *)

LEMMA LastOfMessages ==
  ASSUME NEW q \in Seq(Messages), MaxMessages > 0, Len(q) > MaxMessages
  PROVE  LastMessages(q) \in Seq(Messages) /\ IsLast(LastMessages(q), q, MaxMessages)
BY LastOf, SessionAssumption DEF LastMessages

LEMMA AllMessages ==
  ASSUME NEW q \in Seq(Messages), ~(MaxMessages > 0 /\ Len(q) > MaxMessages)
  PROVE  LastMessages(q) = q
BY DEF LastMessages

\* Trimming at every turn keeps what trimming once would.
LEMMA TrimAgain ==
  ASSUME NEW c \in Seq(Messages), NEW t \in Seq(Messages), Len(t) = 2
  PROVE  LastMessages(LastMessages(c) \o t) = LastMessages(c \o t)
<1>1. CASE ~(MaxMessages > 0 /\ Len(c) > MaxMessages)
  BY <1>1, AllMessages
<1>2. CASE MaxMessages > 0 /\ Len(c) > MaxMessages
  <2> SUFFICES ASSUME NEW d, d = LastMessages(c), NEW v, v = d \o t, NEW w, w = c \o t
               PROVE  LastMessages(v) = LastMessages(w)
    OBVIOUS
  <2>0. MaxMessages \in Nat
    BY SessionAssumption
  <2>1. d \in Seq(Messages) /\ Len(d) = MaxMessages
        /\ \A i \in 1..MaxMessages : d[i] = c[i + (Len(c) - MaxMessages)]
    BY <1>2, LastOfMessages DEF IsLast
  <2>2. v \in Seq(Messages) /\ IsTwoMore(v, d, t)
    BY <2>1, TwoMore
  <2>3. w \in Seq(Messages) /\ IsTwoMore(w, c, t)
    BY TwoMore
  <2>4. Len(v) = MaxMessages + 2 /\ Len(w) = Len(c) + 2 /\ Len(c) \in Nat
    BY <2>1, <2>2, <2>3 DEF IsTwoMore
  <2>a. Len(v) > MaxMessages /\ Len(w) > MaxMessages
    BY <1>2, <2>0, <2>4
  <2> DEFINE x == LastMessages(v)
             y == LastMessages(w)
  <2>5. x \in Seq(Messages) /\ IsLast(x, v, MaxMessages)
    BY <1>2, <2>2, <2>a, LastOfMessages
  <2>6. y \in Seq(Messages) /\ IsLast(y, w, MaxMessages)
    BY <1>2, <2>3, <2>a, LastOfMessages
  <2> HIDE DEF x, y
  <2>7. ASSUME NEW i \in 1..MaxMessages
        PROVE  x[i] = y[i]
    <3> DEFINE m == i + 2
               n == i + (Len(c) + 2 - MaxMessages)
    <3>1. x[i] = v[m]
      <4>1. x[i] = v[i + (Len(v) - MaxMessages)]
        BY <2>5 DEF IsLast
      <4>2. i + (Len(v) - MaxMessages) = m
        BY <2>0, <2>4
      <4> QED
        BY <4>1, <4>2
    <3>2. y[i] = w[n]
      <4>1. y[i] = w[i + (Len(w) - MaxMessages)]
        BY <2>6 DEF IsLast
      <4>2. i + (Len(w) - MaxMessages) = n
        BY <2>0, <2>4
      <4> QED
        BY <4>1, <4>2
    <3>3. /\ m \in Nat /\ n \in Nat /\ n = m + (Len(c) - MaxMessages)
          /\ Len(c) - MaxMessages \in Nat
      BY <1>2, <2>0, <2>4
    <3> HIDE DEF m, n
    <3>4. CASE m <= MaxMessages
      <4>1. m \in 1..MaxMessages /\ n \in 1..Len(c)
        BY <2>0, <2>4, <3>3, <3>4 DEF m
      <4>2. v[m] = d[m] /\ w[n] = c[n]
        BY <2>1, <2>2, <2>3, <4>1 DEF IsTwoMore
      <4>3. d[m] = c[m + (Len(c) - MaxMessages)]
        BY <2>1, <4>1
      <4> QED
        BY <3>1, <3>2, <3>3, <4>2, <4>3
    <3>5. CASE m = MaxMessages + 1
      <4>1. m = Len(d) + 1 /\ n = Len(c) + 1
        BY <2>0, <2>1, <2>4, <3>3, <3>5
      <4> QED
        BY <2>2, <2>3, <3>1, <3>2, <4>1 DEF IsTwoMore
    <3>6. CASE m = MaxMessages + 2
      <4>1. m = Len(d) + 2 /\ n = Len(c) + 2
        BY <2>0, <2>1, <2>4, <3>3, <3>6
      <4> QED
        BY <2>2, <2>3, <3>1, <3>2, <4>1 DEF IsTwoMore
    <3>7. m <= MaxMessages \/ m = MaxMessages + 1 \/ m = MaxMessages + 2
      BY <2>0 DEF m
    <3> QED
      BY <3>4, <3>5, <3>6, <3>7
  <2>8. Len(x) = MaxMessages /\ Len(y) = MaxMessages
    BY <2>5, <2>6 DEF IsLast
  <2>9. x = y
    BY <2>5, <2>6, <2>7, <2>8, SeqEqual
  <2> QED
    BY <2>9 DEF x, y
<1> QED
  BY <1>1, <1>2

LEMMA ConversationType ==
  ASSUME NEW q \in Seq(Runs)
  PROVE  /\ Conversation(q) \in Seq(Messages) /\ Len(Conversation(q)) = 2 * Len(q)
         /\ \A k \in 1..(2 * Len(q)) :
              Conversation(q)[k] = Turn(q[(k + 1) \div 2])[2 - (k % 2)]
<1> DEFINE c == Conversation(q)
<1>1. c = [k \in 1..(2 * Len(q)) |-> Turn(q[(k + 1) \div 2])[2 - (k % 2)]]
  BY DEF Conversation
<1>2. Len(q) \in Nat /\ 2 * Len(q) \in Nat
  OBVIOUS
<1>3. ASSUME NEW k \in 1..(2 * Len(q))
      PROVE  Turn(q[(k + 1) \div 2])[2 - (k % 2)] \in Messages
  <2>1. (k + 1) \div 2 \in 1..Len(q) /\ 2 - (k % 2) \in 1..2
    BY <1>2
  <2>2. q[(k + 1) \div 2] \in Runs
    BY <2>1, ElementOfSeq
  <2> QED
    BY <2>1, <2>2, TurnShape
<1> HIDE DEF c
<1>4. c \in [1..(2 * Len(q)) -> Messages]
  BY <1>1, <1>3
<1>5. c \in Seq(Messages) /\ Len(c) = 2 * Len(q)
  BY <1>2, <1>4
<1> QED
  BY <1>1, <1>5 DEF c

\* Nothing said is nothing to keep.
LEMMA EmptyConversation == Conversation(<< >>) = << >> /\ LastMessages(<< >>) = << >>
<1> SUFFICES ASSUME NEW e, e = << >>
             PROVE  Conversation(e) = << >> /\ LastMessages(e) = << >>
  OBVIOUS
<1>1. e \in Seq(Messages) /\ Len(e) = 0 /\ e \in Seq(Runs)
  OBVIOUS
<1>2. LastMessages(e) = e
  <2>1. MaxMessages \in Nat
    BY SessionAssumption
  <2>2. ~(Len(e) > MaxMessages)
    BY <1>1, <2>1
  <2> QED
    BY <1>1, <2>2 DEF LastMessages
<1>3. Conversation(e) \in Seq(Messages) /\ Len(Conversation(e)) = 2 * Len(e)
  BY <1>1, ConversationType
<1>4. Len(Conversation(e)) = 0
  BY <1>1, <1>3
<1> QED
  BY <1>2, <1>3, <1>4

\* A turn more in what was said is a turn more in the conversation.
LEMMA ConversationGrows ==
  ASSUME NEW q \in Seq(Runs), NEW r \in Runs
  PROVE  Conversation(Append(q, r)) = Conversation(q) \o Turn(r)
<1> SUFFICES ASSUME NEW u, u = Append(q, r), NEW c, c = Conversation(q), NEW t, t = Turn(r),
                    NEW d, d = Conversation(u), NEW w, w = c \o t
             PROVE  d = w
  OBVIOUS
<1>1. /\ u \in Seq(Runs) /\ Len(u) = Len(q) + 1 /\ Len(q) \in Nat
      /\ \A i \in 1..Len(q) : u[i] = q[i]
      /\ u[Len(q) + 1] = r
  BY AppendProperties
<1>2. /\ c \in Seq(Messages) /\ Len(c) = 2 * Len(q)
      /\ \A k \in 1..(2 * Len(q)) : c[k] = Turn(q[(k + 1) \div 2])[2 - (k % 2)]
  BY ConversationType
<1>3. /\ d \in Seq(Messages) /\ Len(d) = 2 * Len(u)
      /\ \A k \in 1..(2 * Len(u)) : d[k] = Turn(u[(k + 1) \div 2])[2 - (k % 2)]
  BY <1>1, ConversationType
<1>4. t \in Seq(Messages) /\ Len(t) = 2
  BY TurnShape
<1>5. w \in Seq(Messages) /\ IsTwoMore(w, c, t)
  BY <1>2, <1>4, TwoMore
<1>6. Len(w) = Len(d) /\ Len(d) = 2 * Len(q) + 2
  BY <1>1, <1>2, <1>3, <1>5 DEF IsTwoMore
<1>7. ASSUME NEW k \in 1..Len(d)
      PROVE  d[k] = w[k]
  <2>1. CASE k <= 2 * Len(q)
    <3>1. k \in 1..(2 * Len(q)) /\ k \in 1..Len(c) /\ k \in 1..(2 * Len(u))
          /\ (k + 1) \div 2 \in 1..Len(q)
      BY <1>1, <1>2, <1>6, <2>1
    <3>2. u[(k + 1) \div 2] = q[(k + 1) \div 2]
      BY <1>1, <3>1
    <3>3. d[k] = c[k]
      BY <1>2, <1>3, <3>1, <3>2
    <3>4. w[k] = c[k]
      BY <1>5, <3>1 DEF IsTwoMore
    <3> QED
      BY <3>3, <3>4
  <2>2. CASE k = 2 * Len(q) + 1
    <3>1. (k + 1) \div 2 = Len(q) + 1 /\ 2 - (k % 2) = 1 /\ k \in 1..(2 * Len(u))
      BY <1>1, <2>2
    <3>2. d[k] = Turn(r)[1]
      BY <1>1, <1>3, <3>1
    <3>3. w[k] = t[1]
      BY <1>2, <1>5, <2>2 DEF IsTwoMore
    <3> QED
      BY <3>2, <3>3
  <2>3. CASE k = 2 * Len(q) + 2
    <3>1. (k + 1) \div 2 = Len(q) + 1 /\ 2 - (k % 2) = 2 /\ k \in 1..(2 * Len(u))
      BY <1>1, <2>3
    <3>2. d[k] = Turn(r)[2]
      BY <1>1, <1>3, <3>1
    <3>3. w[k] = t[2]
      BY <1>2, <1>5, <2>3 DEF IsTwoMore
    <3> QED
      BY <3>2, <3>3
  <2> QED
    BY <1>1, <1>6, <2>1, <2>2, <2>3
<1> QED
  BY <1>3, <1>5, <1>6, <1>7, SeqEqual

-----------------------------------------------------------------------------
(* The loop                                                                *)

\* Every step of the program is one of the store.
LEMMA ChatStore ==
  ASSUME sid \in Sessions, line \in Runs, [Next]_vars
  PROVE  StoreStep
BY DEF Next, Start, Resume, Reset, NewSession, Ask, Answer, End, Wait, Ended, vars,
       StoreStep

LoopTypes ==
  /\ pc \in {"start", "prompt", "asked", "ended"}
  /\ sid \in Sessions
  /\ line \in Runs
  /\ history \in Seq(Messages)
  /\ said \in Seq(Runs)
  /\ stored_at \in 0..now
  /\ idled \in BOOLEAN

\* What History gives is not confused with what it gives of no session.
LEMMA HistoryType ==
  ASSUME StoreInv, NEW s \in Sessions
  PROVE  IF s \in Alive
           THEN /\ History(s) = sessions[s].messages
                /\ History(s) \in Seq(Messages) /\ History(s) # NoHistory
           ELSE History(s) = NoHistory
<1>1. CASE s \in Alive
  <2>1. History(s) = sessions[s].messages /\ History(s) \in Seq(Messages)
    BY <1>1, Stored DEF History
  <2>2. ASSUME History(s) = NoHistory PROVE FALSE
    <3>1. Len(History(s)) = 1 /\ History(s)[1] = [role |-> "none"]
      BY <2>2 DEF NoHistory
    <3>2. History(s)[1] \in Messages
      BY <2>1, <3>1, ElementOfSeq
    <3>3. History(s)[1].role \in {"user", "assistant"}
      BY <3>2 DEF Messages
    <3>4. History(s)[1].role = "none"
      BY <3>1
    <3> QED
      BY <3>3, <3>4
  <2> QED
    BY <1>1, <2>1, <2>2
<1>2. CASE s \notin Alive
  BY <1>2 DEF History
<1> QED
  BY <1>1, <1>2

\* What Ask reads.
LEMMA AskReads ==
  ASSUME StoreInv, LoopTypes, NEW r \in Runs, Ask(r)
  PROVE  /\ history' \in Seq(Messages)
         /\ history' = IF sid \in Alive THEN sessions[sid].messages ELSE << >>
<1>1. sid \in Sessions /\ << >> \in Seq(Messages)
  BY EmptyIsWhole DEF LoopTypes
<1> QED
  BY <1>1, HistoryType DEF Ask

LEMMA LoopTypesStep ==
  ASSUME StoreInv, LoopTypes, [Next]_vars
  PROVE  LoopTypes'
<1>0. now \in Nat /\ << >> \in Seq(Runs)
  BY Stored
<1>1. ASSUME NEW s \in Sessions, NewSession(s)
      PROVE  LoopTypes'
  <2>1. now' = now /\ sid' = s /\ said' = << >> /\ stored_at' = now
    BY <1>1 DEF NewSession, Create
  <2>2. idled' = FALSE /\ pc' = "prompt" /\ UNCHANGED <<line, history>>
    BY <1>1 DEF NewSession
  <2>3. now \in 0..now
    BY <1>0
  <2> QED
    BY <1>0, <2>1, <2>2, <2>3 DEF LoopTypes
<1>2. CASE Resume \/ End
  BY <1>2 DEF Resume, End, LoopTypes, sessionVars
<1>3. ASSUME NEW r \in Runs, Ask(r)
      PROVE  LoopTypes'
  <2>1. history' \in Seq(Messages)
    BY <1>3, AskReads
  <2>2. now' = now /\ UNCHANGED <<sid, said, stored_at, idled>> /\ line' = r /\ pc' = "asked"
    BY <1>3 DEF Ask, GetHistory
  <2> QED
    BY <2>1, <2>2 DEF LoopTypes
<1>4. CASE Answer
  <2>1. Append(said, line) \in Seq(Runs)
    BY AppendProperties DEF LoopTypes
  <2>2. /\ now' = now /\ said' = Append(said, line) /\ stored_at' = now /\ pc' = "prompt"
        /\ UNCHANGED <<sid, line, history, idled>>
    BY <1>4 DEF Answer, AppendTurn
  <2>3. now \in 0..now
    BY <1>0
  <2> QED
    BY <2>1, <2>2, <2>3 DEF LoopTypes
<1>5. CASE Wait
  <2>1. now' = now + 1 /\ UNCHANGED <<pc, sid, line, history, said, stored_at>>
    BY <1>5 DEF Wait, Tick
  <2>2. stored_at \in 0..now'
    BY <1>0, <2>1 DEF LoopTypes
  <2>3. idled' \in BOOLEAN
    BY <1>5 DEF Wait, LoopTypes
  <2> QED
    BY <2>1, <2>2, <2>3 DEF LoopTypes
<1>6. CASE UNCHANGED vars
  BY <1>6 DEF vars, chatVars, sessionVars, LoopTypes
<1>7. CASE Start
  BY <1>1, <1>7 DEF Start, LoopTypes
<1> QED
  BY <1>1, <1>2, <1>3, <1>4, <1>5, <1>6, <1>7 DEF Next, Reset, Ended

LEMMA ChatTypes == Spec => [](StoreInv /\ LoopTypes)
<1>1. Init => StoreInv /\ LoopTypes
  <2>1. << >> \in Seq(Messages) /\ << >> \in Seq(Runs)
    BY EmptyIsWhole
  <2>2. 0 \in 0..0
    OBVIOUS
  <2> QED
    BY <2>1, <2>2, StoreInit DEF Init, LoopTypes, SessionInit
<1>2. StoreInv /\ LoopTypes /\ [Next]_vars => StoreInv' /\ LoopTypes'
  BY ChatStore, StoreNext, LoopTypesStep DEF LoopTypes
<1> QED
  BY <1>1, <1>2, PTL DEF Spec

(***************************************************************************)
(* A chat keeps its types, whatever it is asked and however long it rests  *)
(* (cli.py, chat; session.py).                                             *)
(***************************************************************************)
THEOREM ChatTypeCorrect == Spec => []TypeOK
<1>1. StoreInv /\ LoopTypes => TypeOK
  BY StoreProperties DEF TypeOK, LoopTypes
<1> QED
  BY <1>1, ChatTypes, PTL

(***************************************************************************)
(* A chat implements the store of any program: it does to the sessions     *)
(* what calls of the store do, and nothing else (cli.py, chat;             *)
(* session.py).                                                            *)
(***************************************************************************)
THEOREM ChatIsAStore == Spec => StoreSpec
<1>1. Init => SessionInit
  BY DEF Init
<1>2. LoopTypes /\ [Next]_vars => [StoreStep \/ Emptied]_sessionVars
  BY ChatStore DEF LoopTypes
<1> QED
  BY <1>1, <1>2, ChatTypes, PTL DEF Spec, StoreSpec

(***************************************************************************)
(* For any limits: the messages of a session are whole turns, and only the *)
(* oldest may be cut in half (session.py, append).                         *)
(***************************************************************************)
THEOREM ChatTurnsAreWhole == Spec => []TurnsAreWhole
BY ChatIsAStore, AnyStoreTurnsAreWhole, PTL

(***************************************************************************)
(* With a positive limit of messages a store holds no more sessions than   *)
(* max_sessions, and no more messages in one than its limit (session.py,   *)
(* _evict and append).                                                     *)
(***************************************************************************)
THEOREM ChatSessionsBounded ==
  ASSUME MaxMessages > 0
  PROVE  Spec => []SessionsBounded
BY ChatIsAStore, AnyStoreIsBounded, PTL
-----------------------------------------------------------------------------
(* What a run sees                                                         *)

\* A session that was not left alone is in the store with the conversation.
Remembered ==
  /\ pc = "start" => sid \notin issued
  /\ sid \in issued /\ ~idled =>
       /\ sid \in DOMAIN sessions
       /\ sessions[sid].messages = LastMessages(Conversation(said))
       /\ sessions[sid].updated_at = stored_at
       /\ now - stored_at <= TTL
  /\ RunSeesConversation

LEMMA RememberedStep ==
  ASSUME MaxSessions > 0, StoreInv, LoopTypes, Remembered, [Next]_vars
  PROVE  Remembered'
<1>0. now \in Nat /\ TTL \in Nat /\ stored_at \in Nat /\ MaxSessions \in Nat
  BY Stored, SessionAssumption DEF LoopTypes
\* A session that was not left alone is alive.
<1>a. sid \in issued /\ ~idled => sid \in Alive
  BY <1>0 DEF Remembered, Alive, Expired
<1>b. sid \notin issued => sid \notin Alive
  BY Stored
<1>1. ASSUME NEW s \in Sessions, NewSession(s)
      PROVE  Remembered'
  <2> DEFINE S == Alive \cup {s}
             o == MovedToEnd(S, s)
             new == [messages |-> << >>, updated_at |-> now]
             f == [x \in S |-> IF x = s THEN new ELSE sessions[x]]
  <2>1. /\ Keep(Unevicted(S, o), f, o) /\ issued' = issued \cup {s} /\ now' = now
        /\ s \notin issued
    BY <1>1 DEF NewSession, Create
  <2>2. /\ sid' = s /\ said' = << >> /\ stored_at' = now /\ idled' = FALSE
        /\ pc' = "prompt"
    BY <1>1 DEF NewSession
  <2>3. s \in Unevicted(S, o)
    <3>1. s \notin Alive
      BY <2>1, Stored
    <3>2. \A x \in S : <<s, x>> \notin o
      BY <3>1 DEF MovedToEnd
    <3>3. {x \in S : <<s, x>> \in o} = {}
      BY <3>2
    <3> QED
      BY <1>0, <3>3, FS_EmptySet DEF Unevicted
  <2>4. f[s] = new
    OBVIOUS
  <2> HIDE DEF f, o, S
  <2>5. s \in DOMAIN sessions' /\ sessions'[s] = new
    BY <2>1, <2>3, <2>4 DEF Keep
  <2>6. Conversation(<< >>) = << >> /\ LastMessages(<< >>) = << >>
    BY EmptyConversation
  <2> QED
    BY <1>0, <2>1, <2>2, <2>5, <2>6 DEF Remembered, RunSeesConversation, SeesConversation
<1>2. ASSUME NEW r \in Runs, Ask(r)
      PROVE  Remembered'
  <2>1. /\ UNCHANGED <<sid, said, stored_at, idled, now, issued>>
        /\ pc' = "asked" /\ GetHistory(sid)
    BY <1>2 DEF Ask, GetHistory
  <2>2. history' = IF sid \in Alive THEN sessions[sid].messages ELSE << >>
    BY <1>2, AskReads
  <2>3. sid \in Alive => sid \in DOMAIN sessions' /\ sessions'[sid] = sessions[sid]
    BY <2>1 DEF GetHistory, Keep
  <2> QED
    BY <1>a, <1>b, <2>1, <2>2, <2>3 DEF Remembered, RunSeesConversation, SeesConversation
<1>3. CASE Answer
  <2>1. /\ UNCHANGED <<sid, idled, now, issued>> /\ said' = Append(said, line)
        /\ stored_at' = now /\ pc' = "prompt" /\ AppendTurn(sid, line)
    BY <1>3 DEF Answer, AppendTurn
  <2>2. ASSUME sid \in issued, ~idled
        PROVE  /\ sid \in DOMAIN sessions'
               /\ sessions'[sid].messages = LastMessages(Conversation(said'))
               /\ sessions'[sid].updated_at = now
    <3> DEFINE rec == [messages |-> Extended(sessions[sid].messages, line),
                       updated_at |-> now]
    <3>1. sid \in Alive /\ sid \in DOMAIN sessions
      BY <1>a, <2>2, Stored
    <3>2. Keep(Alive, [sessions EXCEPT ![sid] = rec], MovedToEnd(Alive, sid))
      BY <2>1, <3>1 DEF AppendTurn
    <3>3. sid \in DOMAIN sessions' /\ sessions'[sid] = rec
      BY <3>1, <3>2 DEF Keep
    <3>4. Conversation(said) \in Seq(Messages)
      BY ConversationType DEF LoopTypes
    <3>5. /\ Turn(line) \in Seq(Messages) /\ Len(Turn(line)) = 2
      BY TurnShape DEF LoopTypes
    <3>6. Extended(LastMessages(Conversation(said)), line)
            = LastMessages(Conversation(said) \o Turn(line))
      BY <3>4, <3>5, TrimAgain DEF Extended
    <3>7. Conversation(said') = Conversation(said) \o Turn(line)
      BY <2>1, ConversationGrows DEF LoopTypes
    <3> QED
      BY <2>2, <3>3, <3>6, <3>7 DEF Remembered
  <2> QED
    BY <1>0, <2>1, <2>2 DEF Remembered, RunSeesConversation, SeesConversation
<1>4. CASE Wait
  <2>1. /\ UNCHANGED <<sessions, issued, pc, sid, line, history, said, stored_at>>
        /\ now' = now + 1 /\ idled' = (idled \/ now' - stored_at > TTL)
        /\ pc \in {"prompt", "asked"}
    BY <1>4 DEF Wait, Tick
  <2>2. ~idled' => ~idled /\ now' - stored_at <= TTL
    <3> SUFFICES ASSUME ~idled'
                 PROVE  ~idled /\ now' - stored_at <= TTL
      OBVIOUS
    <3>1. ~idled /\ ~(now' - stored_at > TTL)
      BY <2>1, Zenon
    <3>2. now' - stored_at \in Int
      BY <1>0, <2>1
    <3> QED
      BY <1>0, <3>1, <3>2
  <2> QED
    BY <2>1, <2>2 DEF Remembered, RunSeesConversation, SeesConversation
<1>5. CASE Resume \/ End
  BY <1>5 DEF Resume, End, sessionVars, Remembered, RunSeesConversation, SeesConversation
<1>6. CASE UNCHANGED vars
  BY <1>6 DEF vars, chatVars, sessionVars, Remembered, RunSeesConversation, SeesConversation
<1>7. CASE Start
  BY <1>1, <1>7 DEF Start, LoopTypes
<1> QED
  BY <1>1, <1>2, <1>3, <1>4, <1>5, <1>6, <1>7 DEF Next, Reset, Ended

(***************************************************************************)
(* With room for a session: in one that the chat began itself, and that    *)
(* was not left alone for longer than its TTL, a run sees the last         *)
(* messages of all that was said, for any limit and any number of turns    *)
(* (cli.py, chat; session.py).                                             *)
(***************************************************************************)
THEOREM RunsSeeConversation ==
  ASSUME MaxSessions > 0
  PROVE  Spec => []RunSeesConversation
<1>1. Init => Remembered
  BY DEF Init, SessionInit, Remembered, RunSeesConversation, SeesConversation
<1>2. StoreInv /\ LoopTypes /\ Remembered /\ [Next]_vars => Remembered'
  BY RememberedStep
<1>3. Remembered => RunSeesConversation
  BY DEF Remembered
<1> QED
  BY <1>1, <1>2, <1>3, ChatTypes, PTL DEF Spec

=============================================================================
