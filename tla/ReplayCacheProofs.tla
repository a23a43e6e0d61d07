-------------------------- MODULE ReplayCacheProofs --------------------------
(***************************************************************************)
(* Theorems about ReplayCache, for every value of its constants.           *)
(***************************************************************************)
EXTENDS ReplayCache, FiniteSetTheorems, WellFoundedInduction, TLAPS

(***************************************************************************)
(* Every variable keeps its type (replay_cache.py, ReplayNonceCache).      *)
(***************************************************************************)
THEOREM TypeCorrect == Spec => []TypeOK
<1>1. Init => TypeOK
  BY LimitsAssumption DEF Init, TypeOK
<1>2. TypeOK /\ [Next]_vars => TypeOK'
  <2> SUFFICES ASSUME TypeOK, [Next]_vars PROVE TypeOK'
    OBVIOUS
  <2> USE DEF TypeOK, fileVars, Leave
  <2>1. ASSUME NEW t \in Threads, ThreadStep(t) PROVE TypeOK'
    <3>1. CASE VerifyToken(t)
      BY <3>1, LimitsAssumption DEF VerifyToken
    <3>2. CASE AcceptCheck(t)
      BY <3>2 DEF AcceptCheck, Pruned
    <3>3. CASE AcceptRecord(t)
      <4> DEFINE added == mem \cup {[nonce |-> tok[t], at |-> stamp]}
      <4>0. pc[t] = "fresh" /\ tok[t] \in Nonces
        BY <3>3 DEF AcceptRecord
      <4>1. added \subseteq Entries
        <5>1. [nonce |-> tok[t], at |-> stamp] \in Entries
          BY <4>0 DEF Entries
        <5> QED
          BY <5>1
      <4>2. Newest(added, MaxEntries) \subseteq Entries
        BY <4>1 DEF Newest
      <4>3. Known(added) \subseteq Nonces
        BY <4>1 DEF Known, Entries
      <4>4. /\ mem' = Newest(added, MaxEntries)
            /\ evicted' = evicted \cup (Known(added) \ Known(Newest(added, MaxEntries)))
        BY <3>3 DEF AcceptRecord
      <4>5. evicted' \subseteq Nonces /\ mem' \subseteq Entries
        BY <4>2, <4>3, <4>4
      <4>6. /\ stamp' = stamp + 1
            /\ pc' = [pc EXCEPT ![t] = "recorded"]
            /\ UNCHANGED <<up, fileVars, lock, tok, now, requests, uses, lost>>
        BY <3>3 DEF AcceptRecord
      <4> HIDE DEF added
      <4> QED
        BY <4>5, <4>6, <4>0
    <3>4. CASE AcceptPersist(t)
      BY <3>4 DEF AcceptPersist
    <3>5. CASE PersistFails(t)
      BY <3>5 DEF PersistFails
    <3> QED
      BY <2>1, <3>1, <3>2, <3>3, <3>4, <3>5 DEF ThreadStep
  <2>2. CASE Tick
    BY <2>2, LimitsAssumption DEF Tick
  <2>3. CASE Kill \/ MachineStop
    <3>1. Down /\ (lost' \subseteq Nonces)
      BY <2>3 DEF Kill, MachineStop, Missed
    <3>2. disk' \subseteq Entries /\ written' \subseteq SUBSET Entries
      BY <2>3 DEF Kill, MachineStop
    <3> QED
      BY <3>1, <3>2 DEF Down
  <2>4. CASE Restart
    <3>1. Missed({}) \subseteq Nonces
      BY DEF Missed
    <3> QED
      BY <2>4, <3>1 DEF Restart
  <2>5. CASE UNCHANGED vars
    BY <2>5 DEF vars
  <2> QED
    BY <2>1, <2>2, <2>3, <2>4, <2>5 DEF Next
<1> QED
  BY <1>1, <1>2, PTL DEF Spec

-----------------------------------------------------------------------------
(***************************************************************************)
(* The strengthening.  What was admitted is tracked on disk and, while the *)
(* server is up, in memory; the thread between the check and the write     *)
(* owns the lock, and its nonce was not admitted before.                   *)
(***************************************************************************)
Tracked ==
  \A n \in Nonces : uses[n] > 0 /\ ~Forgotten(n) =>
    n \in Known(disk) /\ (up => n \in Known(mem))

InsideLock ==
  \A t \in Threads : pc[t] \in {"fresh", "recorded"} =>
    /\ lock = t
    /\ uses[tok[t]] = 0 \/ Forgotten(tok[t])
    /\ pc[t] = "recorded" => tok[t] \in Known(mem) \/ Forgotten(tok[t])

ServedByTheLiving == \A t \in Threads : pc[t] # "idle" => up

ReplayInv ==
  /\ TypeOK
  /\ Tracked
  /\ InsideLock
  /\ ServedByTheLiving
  /\ NoReplayWhileTracked

LEMMA ReplayInit == Init => ReplayInv
<1> SUFFICES ASSUME Init PROVE ReplayInv
  OBVIOUS
<1>1. TypeOK
  BY LimitsAssumption DEF Init, TypeOK
<1> QED
  BY <1>1 DEF Init, ReplayInv, Tracked, InsideLock, ServedByTheLiving,
                        NoReplayWhileTracked

\* Entries that are not of expired tokens survive the pruning.
LEMMA PrunedKnown ==
  ASSUME NEW entries \in SUBSET Entries, NEW n \in Nonces,
         n \in Known(entries), TypeOK, ~(now >= Exp[n])
  PROVE  n \in Known(Pruned(entries))
<1>1. PICK e \in entries : e.nonce = n
  BY DEF Known
<1>2. ~(Exp[e.nonce] <= now)
  BY <1>1, ExpAssumption DEF TypeOK
<1> QED
  BY <1>1, <1>2 DEF Pruned, Known

\* A step of a thread inside accept keeps the invariant.
LEMMA ReplayThreadStep ==
  ASSUME ReplayInv, TypeOK', NEW t \in Threads, ThreadStep(t)
  PROVE  ReplayInv'
<1> USE DEF ReplayInv, fileVars, Leave
<1>0. ServedByTheLiving'
  BY DEF ThreadStep, VerifyToken, AcceptCheck, AcceptRecord, AcceptPersist,
         PersistFails, Leave, ServedByTheLiving, TypeOK
<1>1. CASE VerifyToken(t)
  <2>1. pc' = [pc EXCEPT ![t] = "verified"]
    BY <1>1 DEF VerifyToken
  <2>2. \A s \in Threads \ {t} : pc'[s] = pc[s] /\ tok'[s] = tok[s]
    BY <1>1 DEF VerifyToken, TypeOK
  <2>3. pc'[t] = "verified"
    BY <2>1 DEF TypeOK
  <2>4. InsideLock'
    BY <1>1, <2>2, <2>3 DEF VerifyToken, InsideLock, Forgotten, Known
  <2> QED
    BY <1>0, <1>1, <2>4 DEF VerifyToken, Tracked, Forgotten, NoReplayWhileTracked
<1>2. CASE AcceptCheck(t)
  <2>1. \A n \in Nonces :
          n \in Known(mem) /\ ~(now >= Exp[n]) => n \in Known(mem')
    BY <1>2, PrunedKnown DEF AcceptCheck, TypeOK
  <2>2. Tracked'
    BY <1>2, <2>1 DEF AcceptCheck, Tracked, Forgotten
  <2>3. ASSUME NEW s \in Threads, s # t, pc'[s] \in {"fresh", "recorded"}
        PROVE  FALSE
    BY <1>2, <2>3, NoneAssumption DEF AcceptCheck, InsideLock, TypeOK
  <2>4. ASSUME pc'[t] \in {"fresh", "recorded"}
        PROVE  /\ lock' = t
               /\ pc'[t] = "fresh"
               /\ uses[tok[t]] = 0 \/ Forgotten(tok[t])
    <3>1. tok[t] \notin Known(mem') /\ lock' = t /\ pc'[t] = "fresh"
          /\ tok[t] \in Nonces
      BY <1>2, <2>4 DEF AcceptCheck, TypeOK
    <3>2. up
      BY <1>2 DEF AcceptCheck, ServedByTheLiving
    <3>3. uses[tok[t]] > 0 => Forgotten(tok[t])
      BY <1>2, <3>1, <3>2, <2>1 DEF Tracked, Forgotten, TypeOK
    <3> QED
      BY <1>2, <3>1, <3>2, <3>3 DEF AcceptCheck, TypeOK
  <2>5. pc'[t] = "fresh" => tok' = tok
    BY <1>2 DEF AcceptCheck, TypeOK
  <2>6. \A n : Forgotten(n)' <=> Forgotten(n)
    BY <1>2 DEF AcceptCheck, Forgotten
  <2>7. uses' = uses
    BY <1>2 DEF AcceptCheck
  <2>8. InsideLock'
    BY <2>3, <2>4, <2>5, <2>6, <2>7 DEF InsideLock
  <2> QED
    BY <1>0, <1>2, <2>2, <2>6, <2>8 DEF AcceptCheck, NoReplayWhileTracked
<1>3. CASE AcceptRecord(t)
  <2> DEFINE added == mem \cup {[nonce |-> tok[t], at |-> stamp]}
  <2>1. Known(mem) \subseteq Known(added) /\ tok[t] \in Known(added)
    <3>1. PICK e \in added : e.nonce = tok[t]
      <4>1. [nonce |-> tok[t], at |-> stamp] \in added
        OBVIOUS
      <4> QED
        BY <4>1
    <3>2. Known(mem) \subseteq Known(added)
      BY DEF Known
    <3> QED
      BY <3>1, <3>2 DEF Known
  <2>2. \A n \in Known(added) : n \in Known(mem') \/ n \in evicted'
    BY <1>3 DEF AcceptRecord
  <2>3. \A n : Forgotten(n) => Forgotten(n)'
    BY <1>3 DEF AcceptRecord, Forgotten
  <2>4. Tracked'
    BY <1>3, <2>1, <2>2, <2>3 DEF AcceptRecord, Tracked, Forgotten
  <2>5. lock = t /\ up /\ (uses[tok[t]] = 0 \/ Forgotten(tok[t]))
    BY <1>3 DEF AcceptRecord, InsideLock, ServedByTheLiving
  <2>6. ASSUME NEW s \in Threads, s # t, pc'[s] \in {"fresh", "recorded"}
        PROVE  FALSE
    BY <1>3, <2>5, <2>6 DEF AcceptRecord, InsideLock, TypeOK
  <2>7. tok'[t] \in Known(mem') \/ Forgotten(tok[t])'
    BY <1>3, <2>1, <2>2 DEF AcceptRecord, Forgotten
  <2>8. InsideLock'
    BY <1>3, <2>3, <2>5, <2>6, <2>7 DEF AcceptRecord, InsideLock
  <2> QED
    BY <1>0, <1>3, <2>3, <2>4, <2>8 DEF AcceptRecord, NoReplayWhileTracked, Forgotten
<1>4. CASE AcceptPersist(t)
  <2>1. /\ lock = t /\ up
        /\ uses[tok[t]] = 0 \/ Forgotten(tok[t])
        /\ tok[t] \in Known(mem) \/ Forgotten(tok[t])
        /\ tok[t] \in Nonces
    BY <1>4 DEF AcceptPersist, InsideLock, ServedByTheLiving, TypeOK
  <2>2. \A n \in Nonces : n # tok[t] => uses'[n] = uses[n]
    BY <1>4 DEF AcceptPersist, TypeOK
  <2>3. uses'[tok[t]] = uses[tok[t]] + 1
    BY <1>4, <2>1 DEF AcceptPersist, TypeOK
  <2>4. \A n : Forgotten(n)' <=> Forgotten(n)
    BY <1>4 DEF AcceptPersist, Forgotten
  <2>5. Tracked'
    BY <1>4, <2>1, <2>2, <2>3, <2>4 DEF AcceptPersist, Tracked
  <2>6. ASSUME NEW s \in Threads, pc'[s] \in {"fresh", "recorded"}
        PROVE  FALSE
    BY <1>4, <2>1, <2>6 DEF AcceptPersist, InsideLock, TypeOK
  <2>7. InsideLock'
    BY <2>6 DEF InsideLock
  <2>8. NoReplayWhileTracked'
    BY <2>1, <2>2, <2>3, <2>4, <1>4
    DEF AcceptPersist, NoReplayWhileTracked, Forgotten, TypeOK
  <2> QED
    BY <1>0, <2>5, <2>7, <2>8
<1>5. CASE PersistFails(t)
  <2>1. lock = t
    BY <1>5 DEF PersistFails, InsideLock
  <2>2. ASSUME NEW s \in Threads, pc'[s] \in {"fresh", "recorded"}
        PROVE  FALSE
    BY <1>5, <2>1, <2>2 DEF PersistFails, InsideLock, TypeOK
  <2> QED
    BY <1>0, <1>5, <2>2
    DEF PersistFails, InsideLock, Tracked, Forgotten, NoReplayWhileTracked
<1> QED
  BY <1>1, <1>2, <1>3, <1>4, <1>5 DEF ThreadStep

LEMMA ReplayStep ==
  ASSUME ReplayInv, TypeOK', [Next]_vars
  PROVE  ReplayInv'
<1> USE DEF ReplayInv, fileVars
<1>1. ASSUME NEW t \in Threads, ThreadStep(t) PROVE ReplayInv'
  BY <1>1, ReplayThreadStep
<1>2. CASE Tick
  <2>1. \A n \in Nonces : Forgotten(n) => Forgotten(n)'
    BY <1>2, ExpAssumption DEF Tick, Forgotten, TypeOK
  <2>2. Tracked'
    BY <1>2, <2>1 DEF Tick, Tracked
  <2>3. InsideLock'
    BY <1>2, <2>1 DEF Tick, InsideLock, TypeOK
  <2>4. NoReplayWhileTracked'
    BY <1>2, <2>1 DEF Tick, NoReplayWhileTracked, Forgotten
  <2> QED
    BY <1>2, <2>2, <2>3, <2>4 DEF Tick, ServedByTheLiving
<1>3. CASE Kill \/ MachineStop
  <2>1. /\ \A t \in Threads : pc'[t] = "idle"
        /\ ~up' /\ uses' = uses /\ now' = now /\ evicted' = evicted
    BY <1>3 DEF Kill, MachineStop, Down
  <2>2. \A n \in Nonces : Forgotten(n) => Forgotten(n)'
    BY <1>3, <2>1 DEF Kill, MachineStop, Forgotten
  <2>3. \A n \in Nonces : uses[n] > 0 /\ ~Forgotten(n)' => n \in Known(disk')
    BY <1>3, <2>1, <2>2 DEF Kill, MachineStop, Tracked, Forgotten, Missed
  <2> QED
    BY <2>1, <2>2, <2>3
    DEF Tracked, InsideLock, ServedByTheLiving, NoReplayWhileTracked
<1>4. CASE Restart
  <2>1. \A t \in Threads : pc[t] \notin {"fresh", "recorded"}
    BY <1>4 DEF Restart, ServedByTheLiving
  <2>2. \A n \in Nonces : Forgotten(n) => Forgotten(n)'
    BY <1>4 DEF Restart, Forgotten
  <2>3. \A n \in Nonces : uses[n] > 0 /\ ~Forgotten(n)' =>
          n \in Known(disk) /\ n \in Known(mem')
    BY <1>4, <2>2 DEF Restart, Tracked, Forgotten, Missed
  <2> QED
    BY <1>4, <2>1, <2>2, <2>3
    DEF Restart, Tracked, InsideLock, ServedByTheLiving, NoReplayWhileTracked
<1>5. CASE UNCHANGED vars
  BY <1>5
  DEF vars, Tracked, InsideLock, ServedByTheLiving, Forgotten,
      NoReplayWhileTracked
<1> QED
  BY <1>1, <1>2, <1>3, <1>4, <1>5 DEF Next

LEMMA ReplayInvariant == Spec => []ReplayInv
<1>1. Init => ReplayInv
  BY ReplayInit
<1>2. ReplayInv /\ TypeOK' /\ [Next]_vars => ReplayInv'
  BY ReplayStep
<1>3. Spec => []TypeOK
  BY TypeCorrect
<1> QED
  BY <1>1, <1>2, <1>3, PTL DEF Spec

(***************************************************************************)
(* A token is admitted a second time only after its expiry was reached,    *)
(* its entry evicted, or its entry lost with the file at a start, for any  *)
(* number of handlers, tokens, kills, stops of the machine and failed      *)
(* writes (replay_cache.py, accept).                                       *)
(***************************************************************************)
THEOREM NoReplay == Spec => []NoReplayWhileTracked
<1>1. ReplayInv => NoReplayWhileTracked
  BY DEF ReplayInv
<1> QED
  BY <1>1, ReplayInvariant, PTL

(***************************************************************************)
(* An admitted nonce that is not forgotten is already in the file          *)
(* (replay_cache.py, _persist before return True).                         *)
(***************************************************************************)
THEOREM AdmittedDurable == Spec => []AdmittedIsOnDisk
<1>1. ReplayInv => AdmittedIsOnDisk
  BY DEF ReplayInv, Tracked, AdmittedIsOnDisk
<1> QED
  BY <1>1, ReplayInvariant, PTL

-----------------------------------------------------------------------------
(* Refinement of Admission.                                                *)

\* Where nothing is admitted, the callers at most see something forgotten.
LEMMA OnlyForgets ==
  ASSUME \A n \in Nonces : Forgotten(n) => Forgotten(n)', uses' = uses
  PROVE  Cache!Next
BY DEF Cache!Next, Cache!Forget

LEMMA AdmissionStep ==
  ASSUME TypeOK, ReplayInv, [Next]_vars
  PROVE  [Cache!Next]_(Cache!vars)
<1>1. CASE \E t \in Threads : AcceptPersist(t)
  <2>1. PICK t \in Threads : AcceptPersist(t)
    BY <1>1
  <2>2. tok[t] \in Nonces /\ (uses[tok[t]] = 0 \/ Forgotten(tok[t]))
    BY <2>1 DEF AcceptPersist, ReplayInv, InsideLock, TypeOK
  <2>3. \A n : Forgotten(n)' <=> Forgotten(n)
    BY <2>1 DEF AcceptPersist, Forgotten
  <2>4. uses' = [uses EXCEPT ![tok[t]] = @ + 1]
    BY <2>1 DEF AcceptPersist
  <2>5. Cache!Admit(tok[t])
    BY <2>2, <2>3, <2>4 DEF Cache!Admit
  <2> QED
    BY <2>2, <2>5 DEF Cache!Next
<1>2. CASE ~\E t \in Threads : AcceptPersist(t)
  <2>1. uses' = uses
    BY <1>2 DEF Next, ThreadStep, VerifyToken, AcceptCheck, AcceptRecord, PersistFails,
       Tick, Kill, MachineStop, Down, Restart, vars
  <2>2. /\ now' = now \/ now' = now + 1
        /\ evicted \subseteq evicted'
        /\ lost \subseteq lost'
    BY <1>2 DEF Next, ThreadStep, VerifyToken, AcceptCheck, AcceptRecord, PersistFails,
       Tick, Kill, MachineStop, Down, Restart, vars
  <2>3. \A n \in Nonces : Forgotten(n) => Forgotten(n)'
    BY <2>2, ExpAssumption DEF Forgotten, TypeOK
  <2> QED
    BY <2>1, <2>3, OnlyForgets
<1> QED
  BY <1>1, <1>2

(***************************************************************************)
(* The cache implements Admission: its initial states map to initial       *)
(* states, and every step of its threads, its clock and its faults to an   *)
(* admission, a forgetting or a stutter (replay_cache.py, accept).         *)
(***************************************************************************)
THEOREM ImplementsAdmission == Spec => AdmitsOnce
<1>1. Init => Cache!Init
  BY DEF Init, Cache!Init
<1>2. TypeOK /\ ReplayInv /\ [Next]_vars => [Cache!Next]_(Cache!vars)
  BY AdmissionStep
<1> QED
  BY <1>1, <1>2, TypeCorrect, ReplayInvariant, PTL DEF Spec, AdmitsOnce, Cache!Spec

-----------------------------------------------------------------------------
(* Size.                                                                   *)

LEMMA SmallestExists ==
  ASSUME NEW S \in SUBSET Nat, S # {}
  PROVE  \E m \in S : \A k \in S : m <= k
<1> DEFINE R == OpToRel(<, Nat)
<1>1. IsWellFoundedOn(R, Nat)
  BY NatLessThanWellFounded
<1>2. \A x, y \in Nat : <<y, x>> \in R <=> y < x
  BY DEF OpToRel
<1> HIDE DEF R
<1>3. PICK m \in S : \A k \in S : ~(<<k, m>> \in R)
  BY <1>1, WFMin
<1>4. ASSUME NEW k \in S PROVE m <= k
  <2>1. k \in Nat /\ m \in Nat
    OBVIOUS
  <2>2. ~(k < m)
    BY <1>2, <1>3, <2>1
  <2> QED
    BY <2>1, <2>2
<1> QED
  BY <1>4

\* _trim leaves no more than it is told to: all that stays is at least as
\* new as the oldest that does.
LEMMA NewestBounded ==
  ASSUME NEW entries \in SUBSET Entries, IsFiniteSet(entries), NEW count \in Nat
  PROVE  IsFiniteSet(Newest(entries, count)) /\ Cardinality(Newest(entries, count)) <= count
<1> DEFINE kept == Newest(entries, count)
<1>1. kept \subseteq entries
  BY DEF Newest
<1>2. IsFiniteSet(kept)
  BY <1>1, FS_Subset
<1>3. CASE kept = {}
  <2>1. Cardinality(kept) = 0
    BY <1>3, FS_EmptySet
  <2> QED
    BY <1>2, <2>1
<1>4. CASE kept # {}
  <2> DEFINE stamps == {e.at : e \in kept}
  <2>1. stamps \subseteq Nat
    BY <1>1 DEF Entries
  <2>2. stamps # {}
    BY <1>4
  <2>3. \E m \in stamps : \A k \in stamps : m <= k
    BY <2>1, <2>2, SmallestExists
  <2>4. PICK e \in kept : \A f \in kept : e.at <= f.at
    BY <2>3
  <2> DEFINE newer == {f \in entries : f.at >= e.at}
  <2>5. kept \subseteq newer
    <3> SUFFICES ASSUME NEW f \in kept PROVE f.at >= e.at
      BY <1>1
    <3>1. f.at \in Nat /\ e.at \in Nat
      BY <1>1 DEF Entries
    <3> QED
      BY <2>4, <3>1
  <2>6. Cardinality(newer) <= count
    BY DEF Newest
  <2>7. IsFiniteSet(newer)
    BY FS_Subset
  <2> HIDE DEF kept, newer
  <2>8. Cardinality(kept) <= Cardinality(newer)
    BY <2>5, <2>7, FS_Subset
  <2> QED
    BY <1>2, <2>6, <2>7, <2>8, FS_CardinalityType DEF kept
<1> QED
  BY <1>3, <1>4

Small(entries) == IsFiniteSet(entries) /\ Cardinality(entries) <= MaxEntries

SizeInv == Small(mem) /\ Small(disk) /\ \A entries \in written : Small(entries)

LEMMA EmptyIsSmall == Small({})
BY FS_EmptySet, LimitsAssumption DEF Small

LEMMA SizeStep ==
  ASSUME TypeOK, SizeInv, [Next]_vars
  PROVE  SizeInv'
<1> USE DEF SizeInv, fileVars
<1>1. ASSUME NEW t \in Threads, VerifyToken(t) \/ PersistFails(t) PROVE SizeInv'
  BY <1>1 DEF VerifyToken, PersistFails, Small
<1>2. ASSUME NEW t \in Threads, AcceptCheck(t) PROVE SizeInv'
  <2>1. mem' \subseteq mem
    BY <1>2 DEF AcceptCheck, Pruned
  <2>2. Small(mem')
    <3>1. IsFiniteSet(mem') /\ Cardinality(mem') <= Cardinality(mem)
      BY <2>1, FS_Subset DEF Small
    <3> QED
      BY <3>1, FS_CardinalityType, LimitsAssumption DEF Small
  <2> QED
    BY <1>2, <2>2 DEF AcceptCheck, Small
<1>3. ASSUME NEW t \in Threads, AcceptRecord(t) PROVE SizeInv'
  <2> DEFINE entry == [nonce |-> tok[t], at |-> stamp]
             added == mem \cup {entry}
  <2>1. IsFiniteSet(added)
    BY FS_AddElement DEF Small
  <2>2. entry \in Entries
    BY <1>3 DEF AcceptRecord, TypeOK, Entries
  <2>3. added \in SUBSET Entries
    BY <2>2 DEF TypeOK
  <2>4. mem' = Newest(added, MaxEntries)
    BY <1>3 DEF AcceptRecord
  <2> HIDE DEF added
  <2>5. Small(mem')
    BY <2>1, <2>3, <2>4, NewestBounded, LimitsAssumption DEF Small
  <2> QED
    BY <1>3, <2>5 DEF AcceptRecord, Small
<1>4. ASSUME NEW t \in Threads, AcceptPersist(t) PROVE SizeInv'
  BY <1>4 DEF AcceptPersist, Small
<1>5. CASE Tick \/ UNCHANGED vars
  BY <1>5 DEF Tick, vars, Small
<1>6. CASE Kill \/ MachineStop \/ Restart
  BY <1>6, EmptyIsSmall DEF Kill, MachineStop, Down, Restart, Small
<1> QED
  BY <1>1, <1>2, <1>3, <1>4, <1>5, <1>6 DEF Next, ThreadStep

LEMMA SizeInvariant == Spec => []SizeInv
<1>1. Init => SizeInv
  BY EmptyIsSmall DEF Init, SizeInv, Small
<1>2. TypeOK /\ SizeInv /\ [Next]_vars => SizeInv'
  BY SizeStep
<1> QED
  BY <1>1, <1>2, TypeCorrect, PTL DEF Spec

(***************************************************************************)
(* Neither the dict nor the file grows beyond max_entries, whatever fails  *)
(* or restarts in between (replay_cache.py, _trim).                        *)
(***************************************************************************)
THEOREM CacheIsBounded == Spec => []SizeBounded
<1>1. SizeInv => SizeBounded
  BY DEF SizeInv, Small, SizeBounded
<1> QED
  BY <1>1, SizeInvariant, PTL

-----------------------------------------------------------------------------
(* What _trim drops.                                                       *)

\* No two of the entries were inserted at once, and none is yet to come.
Stamped(entries, bound) ==
  /\ \A e \in entries : e.at < bound
  /\ \A e, f \in entries : e.at = f.at => e = f

\* Whenever an entry is dropped, those that stay are newer, and as many as
\* the cache holds.
LEMMA OldestDropped ==
  ASSUME NEW entries \in SUBSET Entries, IsFiniteSet(entries), NEW count \in Nat,
         NEW bound \in Nat, Stamped(entries, bound),
         NEW dropped \in entries \ Newest(entries, count)
  PROVE  /\ Cardinality(Newest(entries, count)) = count
         /\ \A f \in Newest(entries, count) : dropped.at < f.at
<1> DEFINE kept == Newest(entries, count)
           from(e) == {f \in entries : f.at >= e.at}
<1>1. /\ \A e \in entries : e.at \in Nat /\ e.at < bound
      /\ \A e, f \in entries : e.at = f.at => e = f
  BY DEF Entries, Stamped
<1>2. \A e \in entries : IsFiniteSet(from(e)) /\ Cardinality(from(e)) \in Nat
  BY FS_Subset, FS_CardinalityType
<1>3. \A e \in entries : e \in kept <=> Cardinality(from(e)) <= count
  BY DEF Newest
<1>4. kept \subseteq entries /\ IsFiniteSet(kept) /\ Cardinality(kept) <= count
  BY NewestBounded DEF Newest
<1>5. Cardinality(kept) \in Nat
  BY <1>4, FS_CardinalityType
<1> HIDE DEF kept
\* What is newer than an entry that stays does too.
<1>6. ASSUME NEW f \in kept, NEW e \in entries, e.at >= f.at
      PROVE  e \in kept
  <2>1. f \in entries /\ f.at \in Nat /\ e.at \in Nat
    BY <1>1, <1>4
  <2>2. from(e) \subseteq from(f)
    <3> SUFFICES ASSUME NEW g \in entries, g.at >= e.at PROVE g.at >= f.at
      OBVIOUS
    <3>1. g.at \in Nat
      BY <1>1
    <3> QED
      BY <1>6, <2>1, <3>1
  <2>3. Cardinality(from(e)) <= Cardinality(from(f))
    BY <1>2, <2>1, <2>2, FS_Subset
  <2>4. Cardinality(from(f)) <= count
    BY <1>3, <2>1
  <2> HIDE DEF from
  <2>5. Cardinality(from(e)) <= count
    BY <1>2, <2>1, <2>3, <2>4
  <2> QED
    BY <1>3, <2>5
<1>7. dropped \in entries /\ dropped \notin kept
  BY DEF kept
<1>8. \A f \in kept : dropped.at < f.at
  <2> SUFFICES ASSUME NEW f \in kept, ~(dropped.at < f.at) PROVE FALSE
    OBVIOUS
  <2>1. dropped.at \in Nat /\ f.at \in Nat
    BY <1>1, <1>4, <1>7
  <2>2. dropped.at >= f.at
    BY <2>1
  <2> QED
    BY <1>6, <1>7, <2>2
\* Of the newest entry that is dropped, only those that stay are newer.
<1>9. PICK d \in entries \ kept : \A f \in entries \ kept : f.at <= d.at
  <2> DEFINE ages == {bound - e.at : e \in entries \ kept}
  <2>1. \A e \in entries : bound - e.at \in Nat
    BY <1>1
  <2>2. ages \in SUBSET Nat /\ ages # {}
    BY <1>7, <2>1
  <2>3. PICK m \in ages : \A k \in ages : m <= k
    BY <2>2, SmallestExists
  <2>4. PICK d \in entries \ kept : m = bound - d.at
    BY <2>3
  <2>5. ASSUME NEW f \in entries \ kept
        PROVE  f.at <= d.at
    <3>1. bound - d.at <= bound - f.at
      BY <2>3, <2>4
    <3>2. f.at \in Nat /\ d.at \in Nat
      BY <1>1
    <3> QED
      BY <3>1, <3>2
  <2> QED
    BY <2>5
<1>10. from(d) \subseteq kept \cup {d}
  <2> SUFFICES ASSUME NEW f \in entries, f.at >= d.at, f \notin kept PROVE f = d
    OBVIOUS
  <2>1. f.at <= d.at /\ f.at \in Nat /\ d.at \in Nat
    BY <1>1, <1>9
  <2>2. f.at = d.at
    BY <2>1
  <2> QED
    BY <1>1, <2>2
<1>11. IsFiniteSet(kept \cup {d}) /\ Cardinality(kept \cup {d}) = Cardinality(kept) + 1
  BY <1>4, <1>9, FS_AddElement
<1>12. Cardinality(from(d)) <= Cardinality(kept \cup {d})
  BY <1>10, <1>11, FS_Subset
<1>13. Cardinality(from(d)) \in Nat /\ ~(Cardinality(from(d)) <= count)
  BY <1>2, <1>3, <1>9
<1> HIDE DEF from
<1>14. Cardinality(kept) = count
  BY <1>4, <1>5, <1>11, <1>12, <1>13
<1> QED
  BY <1>8, <1>14 DEF kept

\* What is new stays, if anything may.
LEMMA LatestKept ==
  ASSUME NEW entries \in SUBSET Entries, NEW e \in entries,
         \A f \in entries : f.at >= e.at => f = e,
         NEW count \in Nat \ {0}
  PROVE  e \in Newest(entries, count)
<1>1. e.at \in Nat
  BY DEF Entries
<1>2. {f \in entries : f.at >= e.at} = {e}
  BY <1>1
<1>3. Cardinality({e}) = 1
  BY FS_Singleton
<1> QED
  BY <1>2, <1>3 DEF Newest

StampInv ==
  /\ \A entries \in written \cup {mem, disk} : Stamped(entries, stamp)
  /\ ~up => mem = {}
  /\ stamp <= MaxEntries => evicted = {}

\* An entry leaves the dict with the process, when its token has expired, or
\* when as many newer ones are there as the cache holds.
OldestLeave ==
  \A e \in mem \ mem' :
    \/ ~up'
    \/ Exp[e.nonce] <= now
    \/ Cardinality(mem') = MaxEntries /\ \A f \in mem' : e.at < f.at

\* What accept inserts is not what it trims.
LatestStay ==
  \A t \in Threads :
    pc[t] = "fresh" /\ pc'[t] = "recorded" => [nonce |-> tok[t], at |-> stamp] \in mem'

\* accept inserts one entry, and trims.
LEMMA RecordStep ==
  ASSUME TypeOK, SizeInv, StampInv, up, NEW t \in Threads, AcceptRecord(t)
  PROVE  /\ StampInv' /\ OldestLeave
         /\ MaxEntries > 0 => [nonce |-> tok[t], at |-> stamp] \in mem'
<1> DEFINE entry == [nonce |-> tok[t], at |-> stamp]
           added == mem \cup {entry}
           kept == Newest(added, MaxEntries)
<1>1. /\ mem' = kept /\ stamp' = stamp + 1 /\ pc[t] = "fresh"
      /\ evicted' = evicted \cup (Known(added) \ Known(kept))
      /\ UNCHANGED <<up, disk, written>>
  BY DEF AcceptRecord, fileVars
<1>2. stamp \in Nat /\ MaxEntries \in Nat /\ stamp + 1 \in Nat
  BY LimitsAssumption DEF TypeOK
<1>3. entry \in Entries
  BY <1>1 DEF TypeOK, Entries
<1>4. added \in SUBSET Entries /\ IsFiniteSet(added)
  BY <1>3, FS_AddElement DEF TypeOK, SizeInv, Small
<1>5. Stamped(mem, stamp) /\ mem \subseteq Entries
  BY DEF StampInv, TypeOK
<1>6. /\ \A e \in added : e.at < stamp + 1
      /\ \A e, f \in added : e.at = f.at => e = f
      /\ \A e \in added : e.at >= stamp => e = entry
  <2>1. entry.at = stamp
    OBVIOUS
  <2>2. \A e \in mem : e.at < stamp /\ e.at \in Nat
    BY <1>5 DEF Stamped, Entries
  <2>3. \A e, f \in mem : e.at = f.at => e = f
    BY <1>5 DEF Stamped
  <2> HIDE DEF entry
  <2> QED
    BY <1>2, <2>1, <2>2, <2>3
<1>7. kept \subseteq added
  BY DEF Newest
<1>8. MaxEntries > 0 => entry \in kept
  <2>1. entry.at = stamp /\ entry \in added
    OBVIOUS
  <2> HIDE DEF entry, added
  <2> QED
    BY <1>2, <1>4, <1>6, <2>1, LatestKept
<1> HIDE DEF entry, kept
<1>9. ASSUME NEW e \in added \ kept
      PROVE  /\ Cardinality(kept) = MaxEntries
             /\ \A f \in kept : e.at < f.at
  <2> HIDE DEF added
  <2> QED
    BY <1>2, <1>4, <1>6, <1>9, OldestDropped DEF kept, Stamped
<1>10. OldestLeave
  BY <1>1, <1>9 DEF OldestLeave
\* Those that stay have stamps of their own, all after the one dropped.
<1>11. ASSUME NEW e \in added \ kept
       PROVE  MaxEntries <= stamp
  <2> DEFINE place == [f \in kept |-> f.at]
  <2>1. e.at \in Nat /\ \A f \in kept : f.at \in Nat
    BY <1>4, <1>7, <1>11 DEF Entries
  <2>2. \A f \in kept : f.at \in 1..stamp
    <3> SUFFICES ASSUME NEW f \in kept PROVE f.at \in 1..stamp
      OBVIOUS
    <3>1. e.at < f.at /\ f.at < stamp + 1
      BY <1>6, <1>7, <1>9, <1>11
    <3> QED
      BY <1>2, <2>1, <3>1
  <2>3. place \in Injection(kept, 1..stamp)
    BY <1>6, <1>7, <2>2 DEF Injection, IsInjective
  <2>4. IsFiniteSet(1..stamp) /\ Cardinality(1..stamp) = stamp
    BY <1>2, FS_Interval
  <2>5. Cardinality(kept) <= Cardinality(1..stamp)
    BY <2>3, <2>4, FS_Injection
  <2> QED
    BY <1>9, <1>11, <2>4, <2>5
<1>12. stamp' <= MaxEntries => evicted' = {}
  <2> SUFFICES ASSUME stamp + 1 <= MaxEntries PROVE evicted' = {}
    BY <1>1
  <2>1. evicted = {}
    BY <1>2 DEF StampInv
  <2>2. \A e \in added : e \in kept
    BY <1>2, <1>11
  <2>3. Known(added) \subseteq Known(kept)
    BY <2>2 DEF Known
  <2> QED
    BY <1>1, <2>1, <2>3
<1>13. \A entries \in written' \cup {mem', disk'} : Stamped(entries, stamp')
  <2>1. Stamped(mem', stamp')
    BY <1>1, <1>6, <1>7 DEF Stamped
  <2>2. ASSUME NEW entries \in written \cup {disk}
        PROVE  Stamped(entries, stamp')
    <3>1. Stamped(entries, stamp) /\ entries \subseteq Entries
      BY <2>2 DEF StampInv, TypeOK
    <3>2. \A e \in entries : e.at \in Nat
      BY <3>1 DEF Entries
    <3> QED
      BY <1>1, <1>2, <3>1, <3>2 DEF Stamped
  <2> QED
    BY <1>1, <2>1, <2>2
<1> QED
  BY <1>1, <1>8, <1>10, <1>12, <1>13 DEF StampInv, entry

LEMMA StampStep ==
  ASSUME ReplayInv, SizeInv, StampInv, [Next]_vars
  PROVE  /\ StampInv' /\ OldestLeave
         /\ MaxEntries > 0 => LatestStay
<1>0. TypeOK /\ ServedByTheLiving /\ InsideLock
  BY DEF ReplayInv
\* Where accept inserts nothing.
<1>1. ASSUME UNCHANGED <<stamp, evicted>>,
             \A t \in Threads : ~(pc[t] = "fresh" /\ pc'[t] = "recorded"),
             \A entries \in written' \cup {mem', disk'} :
               \/ entries = {}
               \/ \E all \in written \cup {mem, disk} : entries \subseteq all,
             ~up' => mem' = {},
             \A e \in mem \ mem' : ~up' \/ Exp[e.nonce] <= now
      PROVE  StampInv' /\ OldestLeave /\ LatestStay
  <2>1. \A entries \in written' \cup {mem', disk'} : Stamped(entries, stamp')
    BY <1>1 DEF StampInv, Stamped
  <2> QED
    BY <1>1, <2>1 DEF StampInv, OldestLeave, LatestStay
<1>2. ASSUME NEW t \in Threads, AcceptRecord(t)
      PROVE  StampInv' /\ OldestLeave /\ (MaxEntries > 0 => LatestStay)
  <2>1. \A s \in Threads : pc[s] = "fresh" /\ pc'[s] = "recorded" => s = t
    BY <1>0, <1>2 DEF AcceptRecord, TypeOK
  <2>2. up
    BY <1>0, <1>2 DEF AcceptRecord, ServedByTheLiving
  <2> QED
    BY <1>0, <1>2, <2>1, <2>2, RecordStep DEF LatestStay
<1>3. ASSUME NEW t \in Threads, VerifyToken(t) \/ AcceptPersist(t) \/ PersistFails(t)
      PROVE  StampInv' /\ OldestLeave /\ LatestStay
  <2>1. UNCHANGED <<stamp, evicted, mem, up>>
    BY <1>3 DEF VerifyToken, AcceptPersist, PersistFails
  <2>2. \A s \in Threads : pc'[s] = "recorded" => pc[s] = "recorded"
    BY <1>0, <1>3 DEF VerifyToken, AcceptPersist, PersistFails, Leave, TypeOK
  <2>3. \A entries \in written' \cup {mem', disk'} : entries \in written \cup {mem, disk}
    BY <1>3, <2>1 DEF VerifyToken, AcceptPersist, PersistFails, fileVars
  <2>4. \A entries \in written' \cup {mem', disk'} :
          \E all \in written \cup {mem, disk} : entries \subseteq all
    BY <2>3
  <2> QED
    BY <1>1, <2>1, <2>2, <2>4 DEF StampInv
<1>4. ASSUME NEW t \in Threads, AcceptCheck(t)
      PROVE  StampInv' /\ OldestLeave /\ LatestStay
  <2>1. UNCHANGED <<stamp, evicted, disk, written, up>> /\ mem' = Pruned(mem)
    BY <1>4 DEF AcceptCheck, fileVars
  <2>2. \A s \in Threads : pc'[s] = "recorded" => pc[s] = "recorded"
    BY <1>0, <1>4 DEF AcceptCheck, Leave, TypeOK
  <2>3. mem' \subseteq mem /\ \A e \in mem \ mem' : Exp[e.nonce] <= now
    BY <2>1 DEF Pruned
  <2>4. \A entries \in written' \cup {mem', disk'} :
          \E all \in written \cup {mem, disk} : entries \subseteq all
    BY <2>1, <2>3
  <2> QED
    BY <1>1, <2>1, <2>2, <2>3, <2>4 DEF StampInv
<1>5. CASE Tick \/ UNCHANGED vars
  <2>1. UNCHANGED <<stamp, evicted, disk, written, mem, up, pc>>
    BY <1>5 DEF Tick, vars, fileVars
  <2>2. \A entries \in written' \cup {mem', disk'} :
          \E all \in written \cup {mem, disk} : entries \subseteq all
    BY <2>1
  <2> QED
    BY <1>1, <2>1, <2>2 DEF StampInv
<1>6. CASE Kill \/ MachineStop
  <2>1. Down /\ disk' \in written \cup {{}, disk}
        /\ written' \subseteq written \cup {{}}
    BY <1>6 DEF Kill, MachineStop, fileVars
  <2>2. /\ UNCHANGED <<stamp, evicted>> /\ ~up' /\ mem' = {}
        /\ \A t \in Threads : pc'[t] = "idle"
    BY <2>1 DEF Down
  <2>3. \A entries \in written' \cup {mem', disk'} :
          \/ entries = {}
          \/ \E all \in written \cup {mem, disk} : entries \subseteq all
    BY <2>1, <2>2
  <2> QED
    BY <1>1, <2>2, <2>3
<1>7. CASE Restart
  <2>1. UNCHANGED <<stamp, evicted, disk, written, pc>> /\ mem' \in {disk, {}} /\ ~up /\ up'
    BY <1>7 DEF Restart, fileVars
  <2>2. mem = {}
    BY <2>1 DEF StampInv
  <2>3. \A entries \in written' \cup {mem', disk'} :
          \/ entries = {}
          \/ \E all \in written \cup {mem, disk} : entries \subseteq all
    BY <2>1
  <2> QED
    BY <1>1, <2>1, <2>2, <2>3
<1> QED
  BY <1>2, <1>3, <1>4, <1>5, <1>6, <1>7 DEF Next, ThreadStep

LEMMA Stamps == Spec => []StampInv
<1>1. Init => StampInv
  BY DEF Init, StampInv, Stamped
<1> QED
  BY <1>1, StampStep, ReplayInvariant, SizeInvariant, PTL DEF Spec

(***************************************************************************)
(* For any limit, traffic and faults, the dict forgets nothing too early   *)
(* while the process lives: an entry goes only when its token has expired, *)
(* or when max_entries newer entries are kept (replay_cache.py, _prune and *)
(* _trim).                                                                 *)
(***************************************************************************)
THEOREM OldestLeaveFirst == Spec => [][OldestLeave]_vars
<1>1. ReplayInv /\ SizeInv /\ StampInv /\ [Next]_vars => [OldestLeave]_vars
  BY StampStep
<1> QED
  BY <1>1, Stamps, ReplayInvariant, SizeInvariant, PTL DEF Spec

(***************************************************************************)
(* A cache that may hold anything keeps what accept has just inserted: its *)
(* own trim does not drop it before it is written (replay_cache.py,        *)
(* accept).                                                                *)
(***************************************************************************)
THEOREM LatestStays ==
  ASSUME MaxEntries > 0
  PROVE  Spec => [][LatestStay]_vars
<1>1. ReplayInv /\ SizeInv /\ StampInv /\ [Next]_vars => [LatestStay]_vars
  BY StampStep
<1> QED
  BY <1>1, Stamps, ReplayInvariant, SizeInvariant, PTL DEF Spec

\* A token is admitted twice only at or after its expiry, after the file was
\* lost, or when more were inserted than the cache holds.
ReplayTakesTraffic ==
  \A n \in Nonces :
    uses[n] > 1 => now >= Exp[n] \/ n \in lost \/ stamp > MaxEntries

(***************************************************************************)
(* Until more nonces were inserted than the cache holds nothing is         *)
(* evicted, so that no handler, kill or failed write lets a token in twice *)
(* before its expiry as long as the file is not lost (replay_cache.py,     *)
(* accept and _trim).                                                      *)
(***************************************************************************)
THEOREM EvictionTakesTraffic == Spec => []ReplayTakesTraffic
<1>1. ReplayInv /\ StampInv => ReplayTakesTraffic
  <2> SUFFICES ASSUME ReplayInv, StampInv, NEW n \in Nonces, uses[n] > 1,
                      ~(stamp > MaxEntries)
               PROVE  now >= Exp[n] \/ n \in lost
    BY DEF ReplayTakesTraffic
  <2>1. stamp <= MaxEntries
    BY LimitsAssumption DEF ReplayInv, TypeOK
  <2>2. evicted = {}
    BY <2>1 DEF StampInv
  <2> QED
    BY <2>2 DEF ReplayInv, NoReplayWhileTracked, Forgotten
<1> QED
  BY <1>1, ReplayInvariant, Stamps, PTL
-----------------------------------------------------------------------------
(* The lock.                                                               *)

\* The lock is held by a thread between its check and the end of its write,
\* and by no other.
LockIsHeldInside ==
  \A t \in Threads : lock = t <=> pc[t] \in {"fresh", "recorded"}

\* Who lets go of the lock leaves accept, and nobody takes it from a holder.
LockIsLeft ==
  lock # NoThread /\ lock' # lock => lock' = NoThread /\ pc'[lock] = "idle"

LEMMA LockStep ==
  ASSUME ReplayInv, LockIsHeldInside, [Next]_vars
  PROVE  LockIsHeldInside' /\ LockIsLeft
<1> USE DEF LockIsLeft
<1>0. TypeOK /\ ServedByTheLiving
  BY DEF ReplayInv
<1>1. ASSUME NEW t \in Threads, ThreadStep(t)
      PROVE  LockIsHeldInside' /\ LockIsLeft
  <2>1. CASE VerifyToken(t)
    BY <1>0, <2>1 DEF VerifyToken, LockIsHeldInside, TypeOK
  <2>2. CASE AcceptCheck(t)
    BY <1>0, <2>2, NoneAssumption DEF AcceptCheck, Leave, LockIsHeldInside, TypeOK
  <2>3. CASE AcceptRecord(t)
    BY <1>0, <2>3 DEF AcceptRecord, LockIsHeldInside, TypeOK
  <2>4. CASE AcceptPersist(t)
    BY <1>0, <2>4, NoneAssumption DEF AcceptPersist, Leave, LockIsHeldInside, TypeOK
  <2>5. CASE PersistFails(t)
    BY <1>0, <2>5, NoneAssumption DEF PersistFails, Leave, LockIsHeldInside, TypeOK
  <2> QED
    BY <1>1, <2>1, <2>2, <2>3, <2>4, <2>5 DEF ThreadStep
<1>2. CASE Tick \/ Restart \/ UNCHANGED vars
  BY <1>2 DEF Tick, Restart, vars, LockIsHeldInside
<1>3. CASE Kill \/ MachineStop
  BY <1>0, <1>3, NoneAssumption DEF Kill, MachineStop, Down, LockIsHeldInside, TypeOK
<1> QED
  BY <1>1, <1>2, <1>3 DEF Next

(***************************************************************************)
(* No path leaves the lock behind: it is held by a thread between its      *)
(* check and the end of its write, which waits for nothing any more, and   *)
(* whoever lets go of it, by an exception or the end of the process too,   *)
(* has left accept (replay_cache.py, with _lock).                          *)
(***************************************************************************)
THEOREM LockIsReleased == Spec => []LockIsHeldInside /\ [][LockIsLeft]_vars
<1>1. Init => LockIsHeldInside
  BY NoneAssumption DEF Init, LockIsHeldInside
<1>2. ReplayInv /\ LockIsHeldInside /\ [Next]_vars => LockIsHeldInside' /\ [LockIsLeft]_vars
  BY LockStep
<1> QED
  BY <1>1, <1>2, ReplayInvariant, PTL DEF Spec
==============================================================================
