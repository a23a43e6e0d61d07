------------------------------ MODULE ChatLoop ------------------------------
(***************************************************************************)
(* cli.py: chat, the interactive loop.  It owns a SessionStore, keeps one  *)
(* session in it, and runs the agent on each line with the session's       *)
(* history.  A run takes time; an exception of a run ends the program.     *)
(***************************************************************************)
EXTENDS SessionStore

CONSTANT
  MaxTurns   \* bound on the turns of one session

ASSUME ChatAssumption == MaxTurns \in Nat

VARIABLES
  pc,         \* "start", "prompt", "asked" or "ended"
  sid,        \* the session
  line,       \* the run that answers the last line
  history,    \* what get_history returned for it
  said,       \* the answered runs of this session (history)
  stored_at,  \* when the session was created or last appended to (history)
  idled       \* more than the TTL passed since (history)

chatVars == <<pc, sid, line, history, said, stored_at, idled>>
vars == <<sessionVars, chatVars>>

TypeOK ==
  /\ SessionTypeOK
  /\ pc \in {"start", "prompt", "asked", "ended"}
  /\ sid \in Sessions
  /\ line \in Runs
  /\ history \in Seq(Messages)
  /\ said \in Seq(Runs)
  /\ stored_at \in 0..now
  /\ idled \in BOOLEAN

Init ==
  /\ SessionInit
  /\ pc = "start"
  /\ sid \in Sessions
  /\ line \in Runs
  /\ history = << >>
  /\ said = << >>
  /\ stored_at = 0
  /\ idled = FALSE

NewSession(s) ==
  /\ Create(s)
  /\ sid' = s
  /\ said' = << >>
  /\ stored_at' = now
  /\ idled' = FALSE
  /\ pc' = "prompt"
  /\ UNCHANGED <<line, history>>

\* An id given with --session is taken as it is; the store is empty, and
\* neither get_history nor append puts the id into it.
Resume ==
  /\ pc = "start"
  /\ pc' = "prompt"
  /\ UNCHANGED <<sessionVars, sid, line, history, said, stored_at, idled>>

Start == pc = "start" /\ NewSession(sid)

Reset ==
  /\ pc = "prompt"
  /\ \E s \in Sessions : NewSession(s)

\* Mutation: no history is not taken for an empty one.
AskUnchecked(r) ==
  /\ pc = "prompt"
  /\ Len(said) < MaxTurns
  /\ GetHistory(sid)
  /\ history' = History(sid)
  /\ line' = r
  /\ pc' = "asked"
  /\ UNCHANGED <<sid, said, stored_at, idled>>

\* store.get_history(sid) or []
Ask(r) ==
  /\ pc = "prompt"
  /\ Len(said) < MaxTurns
  /\ GetHistory(sid)
  /\ history' = IF History(sid) = NoHistory THEN << >> ELSE History(sid)
  /\ line' = r
  /\ pc' = "asked"
  /\ UNCHANGED <<sid, said, stored_at, idled>>

\* append's result is not looked at.
Answer ==
  /\ pc = "asked"
  /\ AppendTurn(sid, line)
  /\ said' = Append(said, line)
  /\ stored_at' = now
  /\ pc' = "prompt"
  /\ UNCHANGED <<sid, line, history, idled>>

\* exit, the end of the input, or an exception of run.
End ==
  /\ pc \in {"prompt", "asked"}
  /\ pc' = "ended"
  /\ UNCHANGED <<sessionVars, sid, line, history, said, stored_at, idled>>

Wait ==
  /\ pc \in {"prompt", "asked"}
  /\ Tick
  /\ idled' = (idled \/ now' - stored_at > TTL)
  /\ UNCHANGED <<pc, sid, line, history, said, stored_at>>

Ended == pc = "ended" /\ UNCHANGED vars

Next ==
  \/ Start
  \/ Resume
  \/ Reset
  \/ \E r \in Runs : Ask(r)
  \/ Answer
  \/ End
  \/ Wait
  \/ Ended

Spec == Init /\ [][Next]_vars

-----------------------------------------------------------------------------
(* Properties                                                              *)

\* The messages of the runs q.
Conversation(q) ==
  [k \in 1..(2 * Len(q)) |-> Turn(q[(k + 1) \div 2])[2 - (k % 2)]]

\* The last max_messages messages of all that was said since the session
\* began, unless it was left alone for longer than its TTL.
SeesConversation ==
  pc = "asked" /\ ~idled => history = LastMessages(Conversation(said))

(***************************************************************************)
(* In a session that the chat began itself a run sees the conversation so  *)
(* far, though the store trims at every turn (cli.py, chat; session.py,    *)
(* append and get_history).                                                *)
(***************************************************************************)
RunSeesConversation == sid \in issued => SeesConversation

(***************************************************************************)
(* "Resume session id" (cli.py, the help of chat --session): in a session  *)
(* that was named on the command line, too, a run sees at least what was   *)
(* said in it since the chat began.                                        *)
(***************************************************************************)
ResumedSessionContinues == sid \notin issued => SeesConversation
=============================================================================
