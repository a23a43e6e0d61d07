---------------------------- MODULE ReplayCache ----------------------------
(***************************************************************************)
(* security/replay_cache.py: the nonces of the capability tokens that were *)
(* used, kept in memory and on disk, and the two checks do_POST makes of a *)
(* token: verify_capability_token rejects it once it has expired, and      *)
(* ReplayNonceCache.accept rejects it if its nonce was seen.               *)
(*                                                                         *)
(* Threads are the request handlers of one server process.  The body of    *)
(* accept runs under a lock and is cut at the insertion and at the write   *)
(* of the file, where it can fail or the process can die.  The file is     *)
(* replaced without fsync: a stop of the machine leaves it as it was after *)
(* some write since the last start, or cut, which _load takes for empty.   *)
(* A nonce belongs to one token, so its expiry is a constant.              *)
(***************************************************************************)
EXTENDS Naturals, FiniteSets

CONSTANTS
  Nonces,       \* nonces of the minted tokens
  Exp,          \* Exp[n]: the expiry signed into the token of nonce n
  NoNonce,      \* the nonce of a thread without a request
  Threads,      \* handler threads
  NoThread,     \* the lock's owner when it is free
  MaxEntries,   \* max_entries
  Faults,       \* "kill": the process dies; "stop": the machine does;
                \* "persist": writing the file raises OSError; "load":
                \* reading it back does
  MaxTime,      \* bound on the clock
  MaxRequests   \* bound on the requests presented

ASSUME ExpAssumption == Exp \in [Nonces -> Nat]
ASSUME NoneAssumption == NoThread \notin Threads /\ NoNonce \notin Nonces
ASSUME LimitsAssumption ==
  MaxEntries \in Nat /\ MaxTime \in Nat /\ MaxRequests \in Nat

VARIABLES
  up,        \* the server is running
  mem,       \* self._nonces: entries in insertion order, by their stamps
  disk,      \* the entries of the file
  written,   \* what the file held since the machine started
  lock,      \* owner of self._lock
  pc,        \* pc[t]: where thread t stands between the two checks
  tok,       \* tok[t]: the nonce of the token thread t presents, or NoNonce
  stamp,     \* insertions so far: the place of the next entry
  now,       \* int(time.time())
  requests,  \* requests presented so far
  uses,      \* uses[n]: requests admitted with nonce n (history)
  evicted,   \* nonces _trim dropped (history)
  lost       \* admitted nonces that did not survive a start (history)

fileVars == <<disk, written>>
vars == <<up, mem, fileVars, lock, pc, tok, stamp, now, requests, uses, evicted,
          lost>>

\* An entry; at is its place in the insertion order of the dict.
Entries == [nonce : Nonces, at : Nat]

Known(entries) == {e.nonce : e \in entries}

TypeOK ==
  /\ up \in BOOLEAN
  /\ mem \subseteq Entries
  /\ disk \subseteq Entries
  /\ written \subseteq SUBSET Entries
  /\ lock \in Threads \cup {NoThread}
  /\ pc \in [Threads -> {"idle", "verified", "fresh", "recorded"}]
  /\ tok \in [Threads -> Nonces \cup {NoNonce}]
  /\ \A t \in Threads : pc[t] # "idle" => tok[t] \in Nonces
  /\ stamp \in Nat
  /\ now \in 0..MaxTime
  /\ requests \in 0..MaxRequests
  /\ uses \in [Nonces -> Nat]
  /\ evicted \subseteq Nonces
  /\ lost \subseteq Nonces

Init ==
  /\ up = TRUE
  /\ mem = {}
  /\ disk = {}
  /\ written = {{}}
  /\ lock = NoThread
  /\ pc = [t \in Threads |-> "idle"]
  /\ tok = [t \in Threads |-> NoNonce]
  /\ stamp = 0
  /\ now = 0
  /\ requests = 0
  /\ uses = [n \in Nonces |-> 0]
  /\ evicted = {}
  /\ lost = {}

-----------------------------------------------------------------------------
Tick ==
  /\ now < MaxTime
  /\ now' = now + 1
  /\ UNCHANGED <<up, mem, fileVars, lock, pc, tok, stamp, requests, uses, evicted, lost>>

\* verify_capability_token: a token is good up to and including its expiry.
VerifyToken(t) ==
  /\ up
  /\ pc[t] = "idle"
  /\ requests < MaxRequests
  /\ \E n \in Nonces :
       /\ ~(Exp[n] < now)
       /\ tok' = [tok EXCEPT ![t] = n]
  /\ pc' = [pc EXCEPT ![t] = "verified"]
  /\ requests' = requests + 1
  /\ UNCHANGED <<up, mem, fileVars, lock, stamp, now, uses, evicted, lost>>

\* Mutation: entries are dropped a second before they should be.
PrunedEarly(entries) == {e \in entries : ~(Exp[e.nonce] <= now + 1)}

\* _prune drops what has expired, the present second included.
Pruned(entries) == {e \in entries : ~(Exp[e.nonce] <= now)}

\* The request leaves the cache.
Leave(t) ==
  /\ pc' = [pc EXCEPT ![t] = "idle"]
  /\ tok' = [tok EXCEPT ![t] = NoNonce]

\* Mutation: accept does not take the lock.
AcceptCheckUnlocked(t) ==
  /\ pc[t] = "verified"
  /\ mem' = Pruned(mem)
  /\ IF tok[t] \in Known(Pruned(mem))
       THEN Leave(t)
       ELSE pc' = [pc EXCEPT ![t] = "fresh"] /\ UNCHANGED tok
  /\ UNCHANGED <<up, fileVars, lock, stamp, now, requests, uses, evicted, lost>>

\* accept takes the lock, prunes, and looks the nonce up.
AcceptCheck(t) ==
  /\ pc[t] = "verified"
  /\ lock = NoThread
  /\ mem' = Pruned(mem)
  /\ IF tok[t] \in Known(Pruned(mem))
       THEN Leave(t) /\ UNCHANGED lock
       ELSE lock' = t /\ pc' = [pc EXCEPT ![t] = "fresh"] /\ UNCHANGED tok
  /\ UNCHANGED <<up, fileVars, stamp, now, requests, uses, evicted, lost>>

\* Mutation: one entry too many is kept.
NewestOffByOne(entries, count) ==
  {e \in entries : Cardinality({f \in entries : f.at > e.at}) <= count}

\* _trim keeps the newest entries.
Newest(entries, count) ==
  {e \in entries : Cardinality({f \in entries : f.at >= e.at}) <= count}

\* The nonce is inserted, and the overflow dropped.
AcceptRecord(t) ==
  LET added == mem \cup {[nonce |-> tok[t], at |-> stamp]}
      kept == Newest(added, MaxEntries)
  IN  /\ pc[t] = "fresh"
      /\ mem' = kept
      /\ stamp' = stamp + 1
      /\ evicted' = evicted \cup (Known(added) \ Known(kept))
      /\ pc' = [pc EXCEPT ![t] = "recorded"]
      /\ UNCHANGED <<up, fileVars, lock, tok, now, requests, uses, lost>>

\* Mutation: accept returns True without writing the file.
AcceptUnpersisted(t) ==
  /\ pc[t] = "recorded"
  /\ lock' = NoThread
  /\ Leave(t)
  /\ uses' = [uses EXCEPT ![tok[t]] = @ + 1]
  /\ UNCHANGED <<up, mem, fileVars, stamp, now, requests, evicted, lost>>

\* _persist replaces the file; accept releases the lock and returns True.
AcceptPersist(t) ==
  /\ pc[t] = "recorded"
  /\ disk' = mem
  /\ written' = written \cup {mem}
  /\ lock' = NoThread
  /\ Leave(t)
  /\ uses' = [uses EXCEPT ![tok[t]] = @ + 1]
  /\ UNCHANGED <<up, mem, stamp, now, requests, evicted, lost>>

\* Mutation: the exception leaves the lock held.
PersistFailsHoldingLock(t) ==
  /\ "persist" \in Faults
  /\ pc[t] = "recorded"
  /\ Leave(t)
  /\ UNCHANGED <<up, mem, fileVars, lock, stamp, now, requests, uses, evicted, lost>>

\* The write raises: the lock is released, the request dies without an
\* answer, and the nonce stays spent in memory.
PersistFails(t) ==
  /\ "persist" \in Faults
  /\ pc[t] = "recorded"
  /\ lock' = NoThread
  /\ Leave(t)
  /\ UNCHANGED <<up, mem, fileVars, stamp, now, requests, uses, evicted, lost>>

\* The process is gone, and with it its memory and its lock.
Down ==
  /\ up' = FALSE
  /\ mem' = {}
  /\ lock' = NoThread
  /\ pc' = [t \in Threads |-> "idle"]
  /\ tok' = [t \in Threads |-> NoNonce]
  /\ UNCHANGED <<stamp, now, requests, uses, evicted>>

\* Admitted nonces these entries do not tell of.
Missed(entries) == {n \in Nonces : uses[n] > 0} \ Known(entries)

Kill ==
  /\ "kill" \in Faults
  /\ up
  /\ Down
  /\ UNCHANGED <<fileVars, lost>>

\* The machine stops: the file is back at what it held before, or cut.
MachineStop ==
  /\ "stop" \in Faults
  /\ up
  /\ \E kept \in written \cup {{}} :
       /\ disk' = kept
       /\ written' = {kept}
       /\ lost' = lost \cup Missed(kept)
  /\ Down

\* Mutation: only the keys of the file are loaded.
RestartKeysOnly ==
  /\ ~up
  /\ up' = TRUE
  /\ mem' = Known(disk)
  /\ UNCHANGED <<fileVars, lock, pc, tok, stamp, now, requests, uses, evicted, lost>>

\* _load: a file that cannot be read leaves the cache empty.
Restart ==
  /\ ~up
  /\ up' = TRUE
  /\ \/ mem' = disk /\ lost' = lost
     \/ "load" \in Faults /\ mem' = {} /\ lost' = lost \cup Missed({})
  /\ UNCHANGED <<fileVars, lock, pc, tok, stamp, now, requests, uses, evicted>>

ThreadStep(t) ==
  \/ VerifyToken(t)
  \/ AcceptCheck(t)
  \/ AcceptRecord(t)
  \/ AcceptPersist(t)
  \/ PersistFails(t)

Next ==
  \/ \E t \in Threads : ThreadStep(t)
  \/ Tick
  \/ Kill
  \/ MachineStop
  \/ Restart

Spec == Init /\ [][Next]_vars

\* A thread inside the server keeps running; nothing is assumed of clients,
\* of the clock or of faults.
Fairness ==
  \A t \in Threads :
    /\ WF_vars(AcceptCheck(t))
    /\ WF_vars(AcceptRecord(t))
    /\ WF_vars(AcceptPersist(t))

FairSpec == Spec /\ Fairness

-----------------------------------------------------------------------------
(* Properties                                                              *)

\* What the cache may have forgotten: the token reached its expiry, so that
\* the entry was pruned; _trim dropped it; or it did not survive a start.
Forgotten(n) == now >= Exp[n] \/ n \in evicted \/ n \in lost

(***************************************************************************)
(* A nonce is admitted twice only if it was forgotten in one of these      *)
(* ways: neither a race of two handlers, nor a failed write, nor a kill    *)
(* between the insertion and the write lets a token in again, and a file   *)
(* that went back loses no more than it does not tell of                   *)
(* (replay_cache.py, accept, _load).                                       *)
(***************************************************************************)
NoReplayWhileTracked ==
  \A n \in Nonces : uses[n] > 1 => Forgotten(n)

(***************************************************************************)
(* An admitted nonce that is not forgotten is in the file, so that the     *)
(* process may die at once (replay_cache.py, _persist before return True). *)
(***************************************************************************)
AdmittedIsOnDisk ==
  \A n \in Nonces : uses[n] > 0 => n \in Known(disk) \/ Forgotten(n)

(***************************************************************************)
(* To its callers accept, over all its steps, threads, faults and starts,  *)
(* is one step of Admission: it admits a nonce that was never admitted, or *)
(* was forgotten, and nothing that was forgotten is remembered again       *)
(* (replay_cache.py, accept; cli.py, do_POST).                             *)
(***************************************************************************)
Cache == INSTANCE Admission WITH
  uses <- uses,
  forgotten <- {n \in Nonces : Forgotten(n)}
AdmitsOnce == Cache!Spec

(***************************************************************************)
(* Neither the dict nor the file grows beyond max_entries, whatever fails  *)
(* or restarts in between (replay_cache.py, _trim).                        *)
(***************************************************************************)
SizeBounded ==
  /\ Cardinality(mem) <= MaxEntries
  /\ Cardinality(disk) <= MaxEntries

(***************************************************************************)
(* Every request that reached accept leaves it: the lock is released on    *)
(* every path, the failing write included (replay_cache.py, with _lock).   *)
(***************************************************************************)
EveryRequestLeaves ==
  \A t \in Threads : pc[t] = "verified" ~> pc[t] = "idle"

(***************************************************************************)
(* "Returns True when accepted, False on replay" (replay_cache.py:53): a   *)
(* token that verify_capability_token still accepts is admitted once.      *)
(***************************************************************************)
AdmittedOnceWhileValid ==
  \A n \in Nonces : uses[n] > 1 => now > Exp[n] \/ n \in evicted \/ n \in lost
=============================================================================
