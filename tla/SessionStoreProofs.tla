------------------------- MODULE SessionStoreProofs -------------------------
(***************************************************************************)
(* SessionStore, for any ids, limits and clock: every method keeps the     *)
(* store typed, its keys in one order, its sessions and their messages     *)
(* bounded, and their turns whole; the theorems say so of a store that any *)
(* program calls.  ChatLoopProofs and ServeApiProofs show that theirs are  *)
(* such programs, and prove what these do with it.                         *)
(***************************************************************************)
EXTENDS SessionStore, FiniteSetTheorems, SequenceTheorems, WellFoundedInduction,
        TLAPS

\* o is the order of the keys S, first to last.
OrderOf(o, S) ==
  /\ o \subseteq S \X S
  /\ \A a \in S : <<a, a>> \notin o
  /\ \A a, b \in S : a # b => (<<a, b>> \in o <=> <<b, a>> \notin o)
  /\ \A a, b, c \in S : <<a, b>> \in o /\ <<b, c>> \in o => <<a, c>> \in o

LEMMA OrderMoved ==
  ASSUME NEW D, NEW S, NEW s \in S, OrderOf(older, D), S \ {s} \subseteq D
  PROVE  OrderOf(MovedToEnd(S, s), S)
<1> DEFINE o == MovedToEnd(S, s)
<1>1. \A a, b : <<a, b>> \in o <=>
        \/ <<a, b>> \in older /\ a \in S \ {s} /\ b \in S \ {s}
        \/ a \in S \ {s} /\ b = s
  BY DEF MovedToEnd
<1>2. o \subseteq S \X S
  BY DEF MovedToEnd, OrderOf
<1> HIDE DEF o
<1>3. \A a \in S : <<a, a>> \notin o
  BY <1>1 DEF OrderOf
<1>4. \A a, b \in S : a # b => (<<a, b>> \in o <=> <<b, a>> \notin o)
  BY <1>1 DEF OrderOf
<1>5. \A a, b, c \in S : <<a, b>> \in o /\ <<b, c>> \in o => <<a, c>> \in o
  BY <1>1 DEF OrderOf
<1>6. OrderOf(o, S)
  BY <1>2, <1>3, <1>4, <1>5 DEF OrderOf
<1> QED
  BY <1>6 DEF o

LEMMA OrderKept ==
  ASSUME NEW T, NEW o, OrderOf(o, T), NEW S, S \subseteq T
  PROVE  OrderOf({p \in o : p[1] \in S /\ p[2] \in S}, S)
<1> DEFINE k == {p \in o : p[1] \in S /\ p[2] \in S}
<1>1. \A a, b : <<a, b>> \in k <=> <<a, b>> \in o /\ a \in S /\ b \in S
  OBVIOUS
<1>2. k \subseteq S \X S
  BY DEF OrderOf
<1> HIDE DEF k
<1>3. OrderOf(k, S)
  BY <1>1, <1>2 DEF OrderOf
<1> QED
  BY <1>3 DEF k

\* The first of some keys: only an order of finitely many need have one.
LEMMA FirstOf ==
  ASSUME NEW S, IsFiniteSet(S), NEW o, OrderOf(o, S), NEW U, U \subseteq S, U # {}
  PROVE  \E s \in U : \A x \in U : x # s => <<s, x>> \in o
<1> DEFINE Before(s) == {x \in U : <<x, s>> \in o}
           T == {Before(s) : s \in U}
<1>1. T \subseteq FiniteSubsetsOf(S) /\ T # {}
  <2>1. ASSUME NEW s \in U PROVE Before(s) \in FiniteSubsetsOf(S)
    <3>1. FiniteSubsetsOf(S) = SUBSET S
      BY FS_FiniteSubsetsOfFinite
    <3> QED
      BY <3>1
  <2> QED
    BY <2>1
<1>2. PICK B \in T : \A C \in T : ~(<<C, B>> \in StrictSubsetOrdering(S))
  BY <1>1, FS_StrictSubsetOrderingWellFounded, WFMin
<1>3. PICK s \in U : B = Before(s)
  BY <1>2
<1>4. ASSUME NEW x \in U, <<x, s>> \in o
      PROVE  FALSE
  <2>1. Before(x) \subseteq Before(s) /\ x \in Before(s) /\ x \notin Before(x)
    BY <1>4 DEF OrderOf
  <2>2. <<Before(x), Before(s)>> \in StrictSubsetOrdering(S)
    BY <2>1 DEF StrictSubsetOrdering
  <2> QED
    BY <1>2, <1>3, <2>2
<1> QED
  BY <1>4 DEF OrderOf

\* _evict leaves no more than the limit.
LEMMA FewUnevicted ==
  ASSUME NEW S, IsFiniteSet(S), NEW o, OrderOf(o, S)
  PROVE  /\ Unevicted(S, o) \subseteq S
         /\ IsFiniteSet(Unevicted(S, o))
         /\ Cardinality(Unevicted(S, o)) <= MaxSessions
<1> DEFINE U == Unevicted(S, o)
           After(s) == {x \in S : <<s, x>> \in o}
<1>1. U \subseteq S /\ IsFiniteSet(U) /\ Cardinality(U) \in Nat
  <2>1. U \subseteq S
    BY DEF Unevicted
  <2> QED
    BY <2>1, FS_Subset, FS_CardinalityType
<1>2. CASE U = {}
  BY <1>1, <1>2, FS_EmptySet, SessionAssumption
<1>3. CASE U # {}
  <2>1. PICK s \in U : \A x \in U : x # s => <<s, x>> \in o
    BY <1>1, <1>3, FirstOf
  <2>2. Cardinality(After(s)) < MaxSessions
    BY <2>1 DEF Unevicted
  <2>3. IsFiniteSet(After(s)) /\ Cardinality(After(s)) \in Nat
    BY FS_Subset, FS_CardinalityType
  <2>4. U \ {s} \in SUBSET After(s)
    BY <1>1, <2>1
  <2>5. Cardinality(U \ {s}) <= Cardinality(After(s))
    BY <2>3, <2>4, FS_Subset
  <2>6. Cardinality(U \ {s}) = Cardinality(U) - 1
    BY <1>1, <2>1, FS_RemoveElement
  <2> HIDE DEF U, After
  <2>7. Cardinality(U) <= MaxSessions
    BY <1>1, <2>2, <2>3, <2>5, <2>6, SessionAssumption
  <2> QED
    BY <1>1, <2>7 DEF U
<1> QED
  BY <1>2, <1>3
-----------------------------------------------------------------------------
(* Messages                                                                *)

\* Counted from the end, the messages of q are pairs of a turn.
Paired(q) ==
  \A i \in 1..(Len(q) - 1) :
    (Len(q) - i) % 2 = 1 =>
      \E r \in Runs : q[i] = Turn(r)[1] /\ q[i + 1] = Turn(r)[2]

\* The messages of a session: paired, and half a turn or the bound only at the limit.
Whole(q) ==
  /\ Paired(q)
  /\ Len(q) % 2 = 1 => Len(q) = MaxMessages
  /\ MaxMessages > 0 => Len(q) <= MaxMessages

LEMMA TurnShape ==
  ASSUME NEW r \in Runs
  PROVE  /\ Turn(r) \in Seq(Messages) /\ Len(Turn(r)) = 2
         /\ Turn(r)[1] \in Messages /\ Turn(r)[2] \in Messages
BY DEF Turn, Messages

\* w is q with two more elements.
IsTwoMore(w, q, t) ==
  /\ Len(w) = Len(q) + 2 /\ Len(q) \in Nat
  /\ \A i \in 1..Len(q) : w[i] = q[i]
  /\ w[Len(q) + 1] = t[1] /\ w[Len(q) + 2] = t[2]

LEMMA TwoMore ==
  ASSUME NEW M, NEW q \in Seq(M), NEW t \in Seq(M), Len(t) = 2
  PROVE  q \o t \in Seq(M) /\ IsTwoMore(q \o t, q, t)
<1> DEFINE w == q \o t
<1>1. w \in Seq(M)
  BY ConcatProperties
<1>2. Len(w) = Len(q) + Len(t)
  BY ConcatProperties
<1>3. Len(q) \in Nat
  OBVIOUS
<1>4. \A i \in 1..(Len(q) + Len(t)) : w[i] = IF i <= Len(q) THEN q[i] ELSE t[i - Len(q)]
  BY ConcatProperties
<1> HIDE DEF w
<1>5. \A i \in 1..Len(q) : w[i] = q[i]
  BY <1>3, <1>4
<1>7. w[Len(q) + 1] = t[1] /\ w[Len(q) + 2] = t[2]
  <2>1. /\ Len(q) + 1 \in 1..(Len(q) + Len(t)) /\ Len(q) + 2 \in 1..(Len(q) + Len(t))
        /\ Len(q) + 1 - Len(q) = 1 /\ Len(q) + 2 - Len(q) = 2
        /\ ~(Len(q) + 1 <= Len(q)) /\ ~(Len(q) + 2 <= Len(q))
    BY <1>3
  <2> QED
    BY <1>4, <2>1
<1>6. w \in Seq(M) /\ IsTwoMore(w, q, t)
  BY <1>1, <1>2, <1>3, <1>5, <1>7 DEF IsTwoMore
<1> QED
  BY <1>6 DEF w

\* e is the last k elements of w.
IsLast(e, w, k) ==
  Len(e) = k /\ \A i \in 1..k : e[i] = w[i + (Len(w) - k)]

LEMMA LastOf ==
  ASSUME NEW M, NEW w \in Seq(M), NEW k \in Nat, k > 0, k < Len(w)
  PROVE  /\ SubSeq(w, Len(w) - k + 1, Len(w)) \in Seq(M)
         /\ IsLast(SubSeq(w, Len(w) - k + 1, Len(w)), w, k)
<1> SUFFICES ASSUME NEW e, e = SubSeq(w, Len(w) - k + 1, Len(w))
             PROVE  e \in Seq(M) /\ IsLast(e, w, k)
  OBVIOUS
<1>1. \A i \in Len(w) - k + 1 .. Len(w) : w[i] \in M
  OBVIOUS
<1>2. Len(w) - k + 1 \in Int /\ Len(w) \in Int
  OBVIOUS
<1>3. e \in Seq(M)
  BY <1>1, <1>2, SubSeqProperties, SMTT(30)
<1>4. Len(e) = IF Len(w) - k + 1 <= Len(w) THEN Len(w) - (Len(w) - k + 1) + 1 ELSE 0
  BY <1>1, <1>2, SubSeqProperties, SMTT(30)
<1>5. \A i \in 1 .. Len(w) - (Len(w) - k + 1) + 1 : e[i] = w[(Len(w) - k + 1) + i - 1]
  BY <1>1, <1>2, SubSeqProperties, SMTT(30)
<1>6. Len(w) - (Len(w) - k + 1) + 1 = k
  BY <1>2
<1>7. \A i \in 1..k : (Len(w) - k + 1) + i - 1 = i + (Len(w) - k)
  BY <1>2
<1> QED
  BY <1>2, <1>3, <1>4, <1>5, <1>6, <1>7 DEF IsLast

\* e is q and the turn t, without the first cut messages.
IsExtension(e, q, t, cut) ==
  /\ e \in Seq(Messages)
  /\ cut = Len(q) + 2 - Len(e) /\ cut \in Nat /\ Len(e) \in Nat
  /\ cut > 0 => Len(e) = MaxMessages /\ MaxMessages > 0
  /\ MaxMessages > 0 => Len(e) <= MaxMessages
  /\ \A i \in 1..Len(e), n \in 1..(Len(q) + 2) : n = i + cut =>
       /\ n <= Len(q) => e[i] = q[n]
       /\ n = Len(q) + 1 => e[i] = t[1]
       /\ n = Len(q) + 2 => e[i] = t[2]

\* What append makes of the messages.
LEMMA Extending ==
  ASSUME NEW q \in Seq(Messages), NEW r \in Runs
  PROVE  \E cut : IsExtension(Extended(q, r), q, Turn(r), cut)
<1> SUFFICES ASSUME NEW e, e = Extended(q, r), NEW t, t = Turn(r),
                    NEW cut, cut = Len(q) + 2 - Len(e)
             PROVE  IsExtension(e, q, t, cut)
  OBVIOUS
<1> DEFINE w == q \o t
<1>0. t \in Seq(Messages) /\ Len(t) = 2
  BY TurnShape
<1>1. /\ w \in Seq(Messages) /\ Len(w) = Len(q) + 2 /\ Len(q) \in Nat
      /\ \A i \in 1..Len(q) : w[i] = q[i]
      /\ w[Len(q) + 1] = t[1] /\ w[Len(q) + 2] = t[2]
  <2>1. w \in Seq(Messages) /\ IsTwoMore(w, q, t)
    BY <1>0, TwoMore
  <2> HIDE DEF w
  <2> QED
    BY <2>1 DEF IsTwoMore
<1>2. MaxMessages \in Nat
  BY SessionAssumption
<1> HIDE DEF w
<1>3. CASE Len(w) > MaxMessages /\ MaxMessages > 0
  <2>1. e = SubSeq(w, Len(w) - MaxMessages + 1, Len(w))
    BY <1>3 DEF Extended, LastMessages, w
  <2>6. e \in Seq(Messages) /\ IsLast(e, w, MaxMessages)
    BY <1>1, <1>2, <1>3, <2>1, LastOf
  <2>2. /\ e \in Seq(Messages) /\ Len(e) = MaxMessages
        /\ \A i \in 1..MaxMessages : e[i] = w[i + (Len(w) - MaxMessages)]
    BY <2>6 DEF IsLast
  <2>3. cut = Len(w) - MaxMessages /\ cut \in Nat
    BY <1>1, <1>2, <1>3, <2>2
  <2>4. \A i \in 1..MaxMessages : i + cut \in 1..(Len(q) + 2)
    BY <1>1, <1>2, <1>3, <2>3
  <2> HIDE <2>1
  <2>5. \A i \in 1..Len(e), n \in 1..(Len(q) + 2) : n = i + cut =>
          /\ n <= Len(q) => e[i] = q[n]
          /\ n = Len(q) + 1 => e[i] = t[1]
          /\ n = Len(q) + 2 => e[i] = t[2]
    BY <1>1, <2>2, <2>3, <2>4
  <2> QED
    BY <1>2, <1>3, <2>2, <2>3, <2>5 DEF IsExtension
<1>4. CASE ~(Len(w) > MaxMessages /\ MaxMessages > 0)
  <2>1. e = w
    BY <1>4 DEF Extended, LastMessages, w
  <2>2. cut = 0 /\ e \in Seq(Messages) /\ Len(e) = Len(q) + 2
    BY <1>1, <2>1
  <2>3. \A i \in 1..Len(e) : i + cut = i /\ i \in 1..(Len(q) + 2)
    BY <1>1, <2>2
  <2>4. ASSUME NEW i \in 1..Len(e), NEW n \in 1..(Len(q) + 2), n = i + cut
        PROVE  /\ n <= Len(q) => e[i] = q[n]
               /\ n = Len(q) + 1 => e[i] = t[1]
               /\ n = Len(q) + 2 => e[i] = t[2]
    <3>1. e[i] = w[n]
      BY <2>1, <2>3, <2>4
    <3>2. n <= Len(q) => n \in 1..Len(q)
      BY <1>1
    <3> QED
      BY <1>1, <3>1, <3>2
  <2>5. MaxMessages > 0 => Len(e) <= MaxMessages
    BY <1>1, <1>2, <1>4, <2>1
  <2>6. Len(e) \in Nat
    BY <1>1, <2>2
  <2> QED
    BY <2>2, <2>4, <2>5, <2>6 DEF IsExtension
<1> QED
  BY <1>3, <1>4

LEMMA StaysWhole ==
  ASSUME NEW q \in Seq(Messages), Whole(q), NEW r \in Runs
  PROVE  Extended(q, r) \in Seq(Messages) /\ Whole(Extended(q, r))
<1> SUFFICES ASSUME NEW e, e = Extended(q, r), NEW t, t = Turn(r), NEW cut,
                    IsExtension(e, q, t, cut)
             PROVE  e \in Seq(Messages) /\ Whole(e)
  BY Extending
<1>1. /\ e \in Seq(Messages)
      /\ cut = Len(q) + 2 - Len(e) /\ cut \in Nat /\ Len(e) \in Nat
      /\ cut > 0 => Len(e) = MaxMessages
      /\ MaxMessages > 0 => Len(e) <= MaxMessages
      /\ \A i \in 1..Len(e), n \in 1..(Len(q) + 2) : n = i + cut =>
           /\ n <= Len(q) => e[i] = q[n]
           /\ n = Len(q) + 1 => e[i] = t[1]
           /\ n = Len(q) + 2 => e[i] = t[2]
  BY DEF IsExtension
<1>2. Len(q) \in Nat /\ MaxMessages \in Nat
  BY SessionAssumption
<1>3. ASSUME NEW i \in 1..(Len(e) - 1), (Len(e) - i) % 2 = 1
      PROVE  \E u \in Runs : e[i] = Turn(u)[1] /\ e[i + 1] = Turn(u)[2]
  <2> DEFINE j == i + cut
  <2>1. /\ i \in 1..Len(e) /\ i + 1 \in 1..Len(e)
        /\ j \in Nat /\ j >= 1 /\ j <= Len(q) + 1
        /\ (i + 1) + cut = j + 1
        /\ Len(e) - i = Len(q) + 2 - j
    <3>1. Len(e) \in Nat /\ cut = Len(q) + 2 - Len(e) /\ cut \in Nat
      BY <1>1
    <3>2. i \in Nat /\ 1 <= i /\ i <= Len(e) - 1
      BY <3>1
    <3> QED
      BY <1>2, <3>1, <3>2
  <2>2. (Len(q) + 2 - j) % 2 = 1
    BY <1>3, <2>1
  <2>3. j \in 1..(Len(q) + 2) /\ j + 1 \in 1..(Len(q) + 2)
    BY <1>2, <2>1
  <2>7. /\ j <= Len(q) => e[i] = q[j]
        /\ j = Len(q) + 1 => e[i] = t[1]
    BY <1>1, <2>1, <2>3
  <2>8. /\ j + 1 <= Len(q) => e[i + 1] = q[j + 1]
        /\ j + 1 = Len(q) + 2 => e[i + 1] = t[2]
    BY <1>1, <2>1, <2>3
  <2> HIDE DEF j
  <2>4. CASE j = Len(q) + 1
    <3>1. j + 1 = Len(q) + 2
      BY <1>2, <2>4
    <3> QED
      BY <2>4, <2>7, <2>8, <3>1
  <2>5. CASE j = Len(q)
    <3>1. Len(q) + 2 - j = 2
      BY <1>2, <2>5
    <3> QED
      BY <2>2, <3>1
  <2>6. CASE j < Len(q)
    <3>1. j \in 1..(Len(q) - 1) /\ j + 1 <= Len(q) /\ j <= Len(q)
      BY <1>2, <2>1, <2>6
    <3>2. (Len(q) - j) % 2 = 1
      BY <1>2, <2>1, <2>2
    <3>3. PICK u \in Runs : q[j] = Turn(u)[1] /\ q[j + 1] = Turn(u)[2]
      BY <3>1, <3>2 DEF Whole, Paired
    <3> QED
      BY <2>7, <2>8, <3>1, <3>3
  <2> QED
    BY <1>2, <2>1, <2>4, <2>5, <2>6
<1>4. ASSUME Len(e) % 2 = 1
      PROVE  Len(e) = MaxMessages
  <2>1. CASE cut > 0
    BY <1>1, <2>1
  <2>2. CASE cut = 0
    <3>1. Len(e) = Len(q) + 2
      BY <1>1, <1>2, <2>2
    <3>2. Len(q) % 2 = 1
      BY <1>2, <1>4, <3>1
    <3>3. Len(q) = MaxMessages
      BY <3>2 DEF Whole
    <3> QED
      BY <1>1, <1>2, <3>1, <3>2, <3>3
  <2> QED
    BY <1>1, <2>1, <2>2
<1>5. Whole(e)
  BY <1>1, <1>3, <1>4 DEF Whole, Paired
<1> QED
  BY <1>1, <1>5

LEMMA EmptyIsWhole == << >> \in Seq(Messages) /\ Whole(<< >>)
BY SessionAssumption DEF Whole, Paired

\* Sessions of such messages are what TurnsAreWhole says of one session.
LEMMA WholeTurns ==
  ASSUME NEW q \in Seq(Messages), Whole(q), NEW half, half = Len(q) % 2
  PROVE  /\ half = 1 => Len(q) = MaxMessages
         /\ \A k \in 1..(Len(q) \div 2) :
              \E r \in Runs : SubSeq(q, half + 2*k - 1, half + 2*k) = Turn(r)
<1>1. half = 1 => Len(q) = MaxMessages
  BY DEF Whole
<1>2. ASSUME NEW k \in 1..(Len(q) \div 2)
      PROVE  \E r \in Runs : SubSeq(q, half + 2*k - 1, half + 2*k) = Turn(r)
  <2> SUFFICES ASSUME NEW i, i = half + 2*k - 1, NEW j, j = half + 2*k
               PROVE  \E r \in Runs : SubSeq(q, i, j) = Turn(r)
    OBVIOUS
  <2>1. Len(q) \in Nat /\ Len(q) = 2 * (Len(q) \div 2) + half /\ half \in 0..1
    OBVIOUS
  <2>2. /\ i \in 1..(Len(q) - 1) /\ i \in Int
        /\ j = i + 1 /\ j \in 1..Len(q) /\ j \in Int
        /\ Len(q) - i = 2 * (Len(q) \div 2 - k) + 1
    BY <2>1
  <2>3. (Len(q) - i) % 2 = 1
    BY <2>1, <2>2
  <2>4. PICK r \in Runs : q[i] = Turn(r)[1] /\ q[j] = Turn(r)[2]
    BY <2>2, <2>3 DEF Whole, Paired
  <2> DEFINE u == SubSeq(q, i, j)
  <2>5. \A n \in i..j : q[n] \in Messages
    BY <2>2
  <2>6. u \in Seq(Messages)
    BY <2>2, <2>5, SubSeqProperties
  <2>7. Len(u) = IF i <= j THEN j - i + 1 ELSE 0
    BY <2>2, <2>5, SubSeqProperties
  <2>8. \A n \in 1..j - i + 1 : u[n] = q[i + n - 1]
    BY <2>2, <2>5, SubSeqProperties
  <2> HIDE DEF u
  <2>9. j - i + 1 = 2 /\ i + 1 - 1 = i /\ i + 2 - 1 = j
    BY <2>2
  <2>10. Len(u) = 2 /\ u[1] = q[i] /\ u[2] = q[j]
    BY <2>2, <2>7, <2>8, <2>9
  <2>11. u = <<u[1], u[2]>>
    BY <2>6, <2>10
  <2>12. Turn(r) = <<Turn(r)[1], Turn(r)[2]>>
    BY DEF Turn
  <2> QED
    BY <2>4, <2>10, <2>11, <2>12 DEF u
<1> QED
  BY <1>1, <1>2

-----------------------------------------------------------------------------
(* The store                                                               *)

StoreInv ==
  /\ SessionTypeOK
  /\ OrderOf(older, DOMAIN sessions)
  /\ IsFiniteSet(DOMAIN sessions)
  /\ Cardinality(DOMAIN sessions) <= MaxSessions
  /\ \A s \in DOMAIN sessions : Whole(sessions[s].messages)

\* Whatever the programs do to their store.
StoreStep ==
  \/ \E s \in Sessions : Create(s) \/ GetHistory(s) \/ Delete(s)
  \/ \E s \in Sessions, r \in Runs : AppendTurn(s, r)
  \/ Stats
  \/ Tick
  \/ UNCHANGED sessionVars

LEMMA StoreInit == SessionInit => StoreInv
<1> SUFFICES ASSUME SessionInit PROVE StoreInv
  OBVIOUS
<1>1. DOMAIN sessions = {}
  BY DEF SessionInit
<1>2. Cardinality(DOMAIN sessions) = 0 /\ IsFiniteSet(DOMAIN sessions)
  BY <1>1, FS_EmptySet
<1> QED
  BY <1>1, <1>2, SessionAssumption DEF SessionInit, StoreInv, SessionTypeOK, OrderOf

\* What the store keeps in a step is as good as what it is given to keep.
LEMMA KeepStep ==
  ASSUME NEW T, NEW S, S \subseteq T, S \subseteq issued', IsFiniteSet(S),
         Cardinality(S) <= MaxSessions,
         NEW f, NEW o, OrderOf(o, T), Keep(S, f, o),
         \A s \in S : /\ f[s] \in [messages : Seq(Messages), updated_at : 0..now']
                      /\ Whole(f[s].messages),
         now' \in 0..MaxTime, issued' \subseteq Sessions,
         since' \in [Sessions -> SUBSET Sessions]
  PROVE  StoreInv'
<1>1. DOMAIN sessions' = S /\ \A s \in S : sessions'[s] = f[s]
  BY DEF Keep
<1>2. OrderOf(older', S)
  BY OrderKept DEF Keep
<1>3. SessionTypeOK'
  <2>1. /\ DOMAIN sessions' \subseteq issued'
        /\ \A s \in DOMAIN sessions' :
             sessions'[s] \in [messages : Seq(Messages), updated_at : 0..now']
    BY <1>1
  <2>2. /\ \A a, b \in DOMAIN sessions' :
             a # b => (<<a, b>> \in older' <=> <<b, a>> \notin older')
        /\ older' \subseteq (DOMAIN sessions') \X (DOMAIN sessions')
    BY <1>1, <1>2 DEF OrderOf
  <2> QED
    BY <2>1, <2>2 DEF SessionTypeOK
<1>4. \A s \in DOMAIN sessions' : Whole(sessions'[s].messages)
  BY <1>1
<1> QED
  BY <1>1, <1>2, <1>3, <1>4 DEF StoreInv

\* Of what is in the store already.
LEMMA Stored ==
  ASSUME StoreInv
  PROVE  /\ now \in 0..MaxTime /\ now \in Nat /\ issued \subseteq Sessions
         /\ since \in [Sessions -> SUBSET Sessions]
         /\ DOMAIN sessions \subseteq issued
         /\ Alive \subseteq DOMAIN sessions /\ IsFiniteSet(Alive)
         /\ Cardinality(Alive) <= MaxSessions
         /\ \A s \in DOMAIN sessions :
              /\ sessions[s] \in [messages : Seq(Messages), updated_at : 0..now]
              /\ Whole(sessions[s].messages)
<1>1. Alive \in SUBSET (DOMAIN sessions)
  BY DEF Alive
<1>2. IsFiniteSet(Alive) /\ Cardinality(Alive) <= Cardinality(DOMAIN sessions)
  BY <1>1, FS_Subset DEF StoreInv
<1>3. Cardinality(Alive) \in Nat /\ Cardinality(DOMAIN sessions) \in Nat
  BY <1>2, FS_CardinalityType DEF StoreInv
<1>4. Cardinality(Alive) <= MaxSessions
  BY <1>2, <1>3, SessionAssumption DEF StoreInv
<1>5. now \in Nat
  BY SessionAssumption DEF StoreInv, SessionTypeOK
<1> QED
  BY <1>1, <1>2, <1>4, <1>5 DEF StoreInv, SessionTypeOK

LEMMA UsedType ==
  ASSUME NEW s \in Sessions, since \in [Sessions -> SUBSET Sessions], Used(s)
  PROVE  since' \in [Sessions -> SUBSET Sessions]
BY DEF Used

\* A part of the store is kept as it is.
LEMMA PartKept ==
  ASSUME StoreInv, NEW S, S \subseteq DOMAIN sessions, Keep(S, sessions, older),
         UNCHANGED <<now, issued>>, since' \in [Sessions -> SUBSET Sessions]
  PROVE  StoreInv'
<1>1. S \in SUBSET (DOMAIN sessions)
  OBVIOUS
<1>2. IsFiniteSet(S) /\ Cardinality(S) <= Cardinality(DOMAIN sessions)
  BY <1>1, FS_Subset DEF StoreInv
<1>3. Cardinality(S) \in Nat /\ Cardinality(DOMAIN sessions) \in Nat
  BY <1>2, FS_CardinalityType DEF StoreInv
<1>4. Cardinality(S) <= MaxSessions
  BY <1>2, <1>3, SessionAssumption DEF StoreInv
<1>5. OrderOf(older, DOMAIN sessions)
  BY DEF StoreInv
<1> QED
  BY <1>2, <1>4, <1>5, Stored, KeepStep

LEMMA StoreNext ==
  ASSUME StoreInv, StoreStep
  PROVE  StoreInv'
<1>0. OrderOf(older, DOMAIN sessions) /\ IsFiniteSet(DOMAIN sessions)
  BY DEF StoreInv
<1>1. ASSUME NEW s \in Sessions, Create(s)
      PROVE  StoreInv'
  <2> DEFINE S == Alive \cup {s}
             o == MovedToEnd(S, s)
             new == [messages |-> << >>, updated_at |-> now]
             f == [x \in S |-> IF x = s THEN new ELSE sessions[x]]
             U == Unevicted(S, o)
  <2>1. IsFiniteSet(S)
    BY Stored, FS_AddElement
  <2>2. OrderOf(o, S)
    <3>1. s \in S /\ S \ {s} \subseteq DOMAIN sessions
      BY Stored
    <3> QED
      BY <1>0, <3>1, OrderMoved
  <2>3. U \subseteq S /\ IsFiniteSet(U) /\ Cardinality(U) <= MaxSessions
    BY <2>1, <2>2, FewUnevicted
  <2>4. /\ Keep(U, f, o) /\ issued' = issued \cup {s} /\ now' = now /\ Used(s)
    BY <1>1 DEF Create
  <2>5. S \subseteq issued' /\ issued' \subseteq Sessions /\ now' \in 0..MaxTime
    BY <2>4, Stored
  <2>6. \A x \in S : /\ f[x] \in [messages : Seq(Messages), updated_at : 0..now']
                     /\ Whole(f[x].messages)
    <3>1. new \in [messages : Seq(Messages), updated_at : 0..now] /\ Whole(new.messages)
      BY EmptyIsWhole, Stored
    <3> HIDE DEF new
    <3>2. ASSUME NEW x \in S
          PROVE  /\ f[x] \in [messages : Seq(Messages), updated_at : 0..now]
                 /\ Whole(f[x].messages)
      <4>1. CASE x = s
        BY <3>1, <4>1
      <4>2. CASE x # s
        <5>1. f[x] = sessions[x] /\ x \in DOMAIN sessions
          BY <4>2, Stored
        <5> QED
          BY <5>1, Stored
      <4> QED
        BY <4>1, <4>2
    <3> QED
      BY <2>4, <3>2
  <2>7. since' \in [Sessions -> SUBSET Sessions]
    BY <2>4, Stored, UsedType
  <2> HIDE DEF S, o, f, U
  <2>8. \A x \in U : /\ f[x] \in [messages : Seq(Messages), updated_at : 0..now']
                     /\ Whole(f[x].messages)
    BY <2>3, <2>6
  <2>9. U \subseteq issued'
    BY <2>3, <2>5
  <2> QED
    BY <2>2, <2>3, <2>4, <2>5, <2>7, <2>8, <2>9, KeepStep
\* A session that is used, and perhaps extended.
<1>2. ASSUME NEW s \in Alive, s \in Sessions, NEW f,
             Keep(Alive, f, MovedToEnd(Alive, s)), Used(s), UNCHANGED <<now, issued>>,
             \A x \in Alive : x # s => f[x] = sessions[x],
             f[s] \in [messages : Seq(Messages), updated_at : 0..now],
             Whole(f[s].messages)
      PROVE  StoreInv'
  <2>1. OrderOf(MovedToEnd(Alive, s), Alive)
    <3>1. Alive \ {s} \subseteq DOMAIN sessions
      BY Stored
    <3> QED
      BY <1>0, <3>1, OrderMoved
  <2>2. since' \in [Sessions -> SUBSET Sessions]
    BY <1>2, Stored, UsedType
  <2>3. \A x \in Alive : /\ f[x] \in [messages : Seq(Messages), updated_at : 0..now']
                         /\ Whole(f[x].messages)
    <3>1. ASSUME NEW x \in Alive
          PROVE  /\ f[x] \in [messages : Seq(Messages), updated_at : 0..now]
                 /\ Whole(f[x].messages)
      <4>1. CASE x = s
        BY <1>2, <4>1
      <4>2. CASE x # s
        <5>1. f[x] = sessions[x] /\ x \in DOMAIN sessions
          BY <1>2, <4>2, Stored
        <5> QED
          BY <5>1, Stored
      <4> QED
        BY <4>1, <4>2
    <3> QED
      BY <1>2, <3>1
  <2>4. /\ Alive \subseteq issued' /\ now' \in 0..MaxTime /\ issued' \subseteq Sessions
        /\ IsFiniteSet(Alive) /\ Cardinality(Alive) <= MaxSessions
    BY <1>2, Stored
  <2> QED
    BY <1>2, <2>1, <2>2, <2>3, <2>4, KeepStep
<1>3. ASSUME Keep(Alive, sessions, older), UNCHANGED <<now, issued, since>>
      PROVE  StoreInv'
  BY <1>3, Stored, PartKept
<1>4. ASSUME NEW s \in Sessions, GetHistory(s)
      PROVE  StoreInv'
  <2>1. CASE s \in Alive
    <3>1. s \in DOMAIN sessions
      BY <2>1, Stored
    <3> QED
      BY <1>2, <1>4, <2>1, <3>1, Stored DEF GetHistory
  <2>2. CASE s \notin Alive
    BY <1>3, <1>4, <2>2 DEF GetHistory
  <2> QED
    BY <2>1, <2>2
<1>5. ASSUME NEW s \in Sessions, NEW r \in Runs, AppendTurn(s, r)
      PROVE  StoreInv'
  <2>1. CASE s \in Alive
    <3> DEFINE rec == [messages |-> Extended(sessions[s].messages, r),
                       updated_at |-> now]
               f == [sessions EXCEPT ![s] = rec]
    <3>1. s \in DOMAIN sessions
      BY <2>1, Stored
    <3>2. sessions[s].messages \in Seq(Messages) /\ Whole(sessions[s].messages)
      BY <3>1, Stored
    <3>3. /\ rec \in [messages : Seq(Messages), updated_at : 0..now]
          /\ Whole(rec.messages)
      <4>1. now \in 0..now
        BY Stored
      <4> QED
        BY <3>2, <4>1, StaysWhole
    <3>4. /\ Keep(Alive, f, MovedToEnd(Alive, s)) /\ Used(s)
          /\ UNCHANGED <<now, issued>>
      BY <1>5, <2>1 DEF AppendTurn
    <3> HIDE DEF rec
    <3>5. f[s] = rec /\ \A x \in Alive : x # s => f[x] = sessions[x]
      BY <3>1, Stored
    <3> HIDE DEF f
    <3> QED
      BY <1>2, <2>1, <3>3, <3>4, <3>5
  <2>2. CASE s \notin Alive
    BY <1>3, <1>5, <2>2 DEF AppendTurn
  <2> QED
    BY <2>1, <2>2
<1>6. ASSUME NEW s \in Sessions, Delete(s)
      PROVE  StoreInv'
  <2>1. DOMAIN sessions \ {s} \subseteq DOMAIN sessions
    OBVIOUS
  <2> QED
    BY <1>6, <2>1, Stored, PartKept DEF Delete
<1>7. CASE Stats
  BY <1>3, <1>7 DEF Stats
<1>8. CASE Tick
  <2>1. UNCHANGED <<sessions, older, issued, since>> /\ now' = now + 1 /\ now < MaxTime
    BY <1>8 DEF Tick
  <2>2. now' \in 0..MaxTime /\ 0..now \subseteq 0..now'
    BY <2>1, Stored, SessionAssumption
  <2>3. SessionTypeOK'
    BY <2>1, <2>2 DEF StoreInv, SessionTypeOK
  <2> QED
    BY <2>1, <2>3 DEF StoreInv
<1>9. CASE UNCHANGED sessionVars
  BY <1>9 DEF sessionVars, StoreInv, SessionTypeOK
<1> QED
  BY <1>1, <1>4, <1>5, <1>6, <1>7, <1>8, <1>9 DEF StoreStep

\* What the properties of the store follow from.
LEMMA StoreProperties ==
  ASSUME StoreInv
  PROVE  SessionTypeOK /\ TurnsAreWhole /\ (MaxMessages > 0 => SessionsBounded)
<1>1. TurnsAreWhole
  <2>1. ASSUME NEW s \in DOMAIN sessions, NEW q, q = sessions[s].messages
        PROVE  LET half == Len(q) % 2
               IN /\ half = 1 => Len(q) = MaxMessages
                  /\ \A k \in 1..(Len(q) \div 2) :
                       \E r \in Runs : SubSeq(q, half + 2*k - 1, half + 2*k) = Turn(r)
    <3>1. q \in Seq(Messages) /\ Whole(q)
      BY <2>1, Stored
    <3> QED
      BY <3>1, WholeTurns
  <2> QED
    BY <2>1 DEF TurnsAreWhole
<1>2. MaxMessages > 0 => SessionsBounded
  BY DEF StoreInv, Whole, SessionsBounded
<1> QED
  BY <1>1, <1>2 DEF StoreInv

-----------------------------------------------------------------------------
(* What a session remembers                                                *)

\* The answer of r is among the messages q, or as many as the limit allows are.
Kept(q, r) ==
  \/ \E i \in 1..Len(q) : q[i] = Turn(r)[2]
  \/ MaxMessages > 0 /\ Len(q) >= MaxMessages

\* A turn is kept when it is appended, and others are not lost by it.
LEMMA KeptExtends ==
  ASSUME NEW q \in Seq(Messages), NEW r \in Runs, NEW x \in Runs, x = r \/ Kept(q, x)
  PROVE  Kept(Extended(q, r), x)
<1> SUFFICES ASSUME NEW e, NEW cut, IsExtension(e, q, Turn(r), cut)
             PROVE  Kept(e, x)
  BY Extending
<1>1. /\ MaxMessages \in Nat /\ Len(q) \in Nat /\ Len(e) \in Nat
      /\ cut = Len(q) + 2 - Len(e) /\ cut \in Nat
  BY SessionAssumption DEF IsExtension
<1>2. CASE cut > 0
  <2>1. MaxMessages > 0 /\ Len(e) = MaxMessages
    BY <1>2 DEF IsExtension
  <2> QED
    BY <1>1, <2>1 DEF Kept
<1>3. CASE cut = 0
  <2>1. Len(e) = Len(q) + 2
    BY <1>1, <1>3
  <2>2. CASE x = r
    <3> SUFFICES ASSUME NEW n, n = Len(q) + 2
                 PROVE  Kept(e, x)
      OBVIOUS
    <3>1. n \in 1..Len(e) /\ n \in 1..(Len(q) + 2) /\ n = n + cut
      BY <1>1, <1>3, <2>1
    <3>2. e[n] = Turn(r)[2]
      BY <3>1 DEF IsExtension
    <3> QED
      BY <2>2, <3>1, <3>2 DEF Kept
  <2>3. CASE Kept(q, x)
    <3>1. ASSUME NEW i \in 1..Len(q), q[i] = Turn(x)[2]
          PROVE  Kept(e, x)
      <4>1. i \in 1..Len(e) /\ i \in 1..(Len(q) + 2) /\ i = i + cut /\ i <= Len(q)
        BY <1>1, <1>3, <2>1
      <4>2. e[i] = q[i]
        BY <4>1 DEF IsExtension
      <4> QED
        BY <3>1, <4>1, <4>2 DEF Kept
    <3>2. ASSUME MaxMessages > 0, Len(q) >= MaxMessages
          PROVE  Kept(e, x)
      <4>1. Len(e) >= MaxMessages
        BY <1>1, <2>1, <3>2
      <4> QED
        BY <3>2, <4>1 DEF Kept
    <3> QED
      BY <2>3, <3>1, <3>2 DEF Kept
  <2> QED
    BY <2>2, <2>3
<1> QED
  BY <1>1, <1>2, <1>3

\* No step takes a turn from a session that stays.
Recalls(s, r) == s \in DOMAIN sessions => Kept(sessions[s].messages, r)

LEMMA StoreRecalls ==
  ASSUME StoreInv, StoreStep, NEW s \in issued, NEW x \in Runs, Recalls(s, x)
  PROVE  Recalls(s, x)' /\ s \in issued'
<1>1. ASSUME NEW S, S \subseteq DOMAIN sessions, NEW f, NEW o, Keep(S, f, o),
             s \in S => f[s] = sessions[s]
      PROVE  Recalls(s, x)'
  BY <1>1 DEF Keep, Recalls
<1>2. Alive \subseteq DOMAIN sessions
  BY Stored
<1>3. ASSUME NEW n \in Sessions, Create(n)
      PROVE  Recalls(s, x)' /\ s \in issued'
  <2> DEFINE S == Alive \cup {n}
             o == MovedToEnd(S, n)
             new == [messages |-> << >>, updated_at |-> now]
             f == [y \in S |-> IF y = n THEN new ELSE sessions[y]]
  <2>1. Keep(Unevicted(S, o), f, o) /\ n \notin issued /\ issued' = issued \cup {n}
    BY <1>3 DEF Create
  <2>2. s # n
    BY <2>1
  <2>3. Unevicted(S, o) \subseteq S
    BY DEF Unevicted
  <2>4. s \in S => f[s] = sessions[s] /\ s \in DOMAIN sessions
    BY <1>2, <2>2
  <2> HIDE DEF S, o, f
  <2>5. s \in DOMAIN sessions' => s \in DOMAIN sessions /\ sessions'[s] = sessions[s]
    BY <2>1, <2>3, <2>4 DEF Keep
  <2> QED
    BY <2>1, <2>5 DEF Recalls
<1>4. ASSUME NEW n \in Sessions, GetHistory(n) \/ Delete(n) \/ Stats
      PROVE  Recalls(s, x)' /\ s \in issued'
  BY <1>1, <1>2, <1>4 DEF GetHistory, Delete, Stats
<1>5. ASSUME NEW n \in Sessions, NEW r \in Runs, AppendTurn(n, r)
      PROVE  Recalls(s, x)' /\ s \in issued'
  <2>1. CASE n \notin Alive
    BY <1>1, <1>2, <1>5, <2>1 DEF AppendTurn
  <2>2. CASE n \in Alive
    <3> DEFINE rec == [messages |-> Extended(sessions[n].messages, r),
                       updated_at |-> now]
               f == [sessions EXCEPT ![n] = rec]
    <3>1. Keep(Alive, f, MovedToEnd(Alive, n)) /\ issued' = issued
      BY <1>5, <2>2 DEF AppendTurn
    <3>2. n \in DOMAIN sessions
      BY <1>2, <2>2
    <3>3. CASE n # s
      BY <1>1, <1>2, <3>1, <3>3
    <3>4. CASE n = s
      <4>1. sessions[s].messages \in Seq(Messages)
        BY <3>2, <3>4, Stored
      <4>2. Kept(Extended(sessions[s].messages, r), x)
        BY <3>2, <3>4, <4>1, KeptExtends DEF Recalls
      <4>3. f[s].messages = Extended(sessions[s].messages, r)
        BY <3>2, <3>4
      <4> HIDE DEF f
      <4>4. s \in DOMAIN sessions' => sessions'[s] = f[s]
        BY <3>1 DEF Keep
      <4> QED
        BY <3>1, <4>2, <4>3, <4>4 DEF Recalls
    <3> QED
      BY <3>3, <3>4
  <2> QED
    BY <2>1, <2>2
<1>6. CASE Tick \/ UNCHANGED sessionVars
  BY <1>6 DEF Tick, sessionVars, Recalls
<1>7. CASE Stats
  BY <1>1, <1>2, <1>7 DEF Stats
<1> QED
  BY <1>3, <1>4, <1>5, <1>6, <1>7 DEF StoreStep

\* A turn that was appended is kept, if its session is still there.
LEMMA AppendRecalls ==
  ASSUME StoreInv, NEW s \in Sessions, NEW r \in Runs, AppendTurn(s, r)
  PROVE  Recalls(s, r)'
<1>1. CASE s \notin Alive
  BY <1>1 DEF AppendTurn, Keep, Recalls
<1>2. CASE s \in Alive
  <2> DEFINE rec == [messages |-> Extended(sessions[s].messages, r),
                     updated_at |-> now]
             f == [sessions EXCEPT ![s] = rec]
  <2>1. s \in DOMAIN sessions /\ sessions[s].messages \in Seq(Messages)
    BY <1>2, Stored
  <2>2. Kept(Extended(sessions[s].messages, r), r)
    BY <2>1, KeptExtends
  <2>3. Keep(Alive, f, MovedToEnd(Alive, s))
    BY <1>2 DEF AppendTurn
  <2>4. f[s].messages = Extended(sessions[s].messages, r)
    BY <2>1
  <2> HIDE DEF f
  <2>5. sessions'[s] = f[s]
    BY <1>2, <2>3 DEF Keep
  <2> QED
    BY <2>2, <2>4, <2>5 DEF Recalls
<1> QED
  BY <1>1, <1>2
-----------------------------------------------------------------------------
(* Why sessions leave                                                      *)

\* What comes after a session was used since it was.
UsesInv ==
  /\ IsFiniteSet(issued)
  /\ \A s \in Sessions : since[s] \subseteq issued
  /\ \A a, b \in DOMAIN sessions : <<a, b>> \in older => b \in since[a]

\* s was used and moved to the end of the ids of S.
LEMMA UsesMoved ==
  ASSUME StoreInv, UsesInv, NEW s \in Sessions, Used(s), s \in issued',
         issued \subseteq issued', IsFiniteSet(issued'),
         NEW S, S \subseteq DOMAIN sessions \cup {s}
  PROVE  /\ \A x \in Sessions : since'[x] \subseteq issued' /\ IsFiniteSet(since'[x])
         /\ \A a, b \in S : <<a, b>> \in MovedToEnd(S, s) => b \in since'[a]
<1>1. \A x \in Sessions : since'[x] = IF x = s THEN {} ELSE since[x] \cup {s}
  BY Stored DEF Used
<1>2. ASSUME NEW x \in Sessions
      PROVE  since'[x] \subseteq issued' /\ IsFiniteSet(since'[x])
  <2>1. since'[x] \in SUBSET issued'
    BY <1>1 DEF UsesInv
  <2> QED
    BY <2>1, FS_Subset
<1>3. ASSUME NEW a \in S, NEW b \in S, <<a, b>> \in MovedToEnd(S, s)
      PROVE  b \in since'[a]
  <2>1. a # s /\ a \in DOMAIN sessions /\ a \in Sessions
    BY <1>3, Stored DEF MovedToEnd
  <2>2. CASE b = s
    BY <1>1, <2>1, <2>2
  <2>3. CASE b # s
    <3>1. <<a, b>> \in older /\ b \in DOMAIN sessions
      BY <1>3, <2>3 DEF MovedToEnd
    <3> QED
      BY <1>1, <2>1, <3>1 DEF UsesInv
  <2> QED
    BY <2>2, <2>3
<1> QED
  BY <1>2, <1>3

LEMMA UsesNext ==
  ASSUME StoreInv, UsesInv, StoreStep
  PROVE  UsesInv' /\ LeaveForCause
<1>0. DOMAIN sessions \ Alive = Expired /\ Alive \subseteq DOMAIN sessions
  BY DEF Alive, Expired
<1>e. \A x \in Expired : now - sessions[x].updated_at > TTL
  BY DEF Expired
<1>1. ASSUME NEW s \in Sessions, Create(s)
      PROVE  UsesInv' /\ LeaveForCause
  <2> DEFINE S == Alive \cup {s}
             o == MovedToEnd(S, s)
             U == Unevicted(S, o)
             f == [x \in S |-> IF x = s THEN [messages |-> << >>, updated_at |-> now]
                                        ELSE sessions[x]]
  <2>1. Keep(U, f, o) /\ issued' = issued \cup {s} /\ Used(s) /\ s \notin issued
    BY <1>1 DEF Create
  <2>2. IsFiniteSet(issued')
    BY <2>1, FS_AddElement DEF UsesInv
  <2>3. S \subseteq DOMAIN sessions \cup {s} /\ U \subseteq S
    BY <1>0 DEF Unevicted
  <2>4. DOMAIN sessions' = U /\ older' \subseteq o
    BY <2>1 DEF Keep
  <2> HIDE DEF S, o, U, f
  <2>5. /\ \A x \in Sessions : since'[x] \subseteq issued' /\ IsFiniteSet(since'[x])
        /\ \A a, b \in S : <<a, b>> \in o => b \in since'[a]
    BY <2>1, <2>2, <2>3, UsesMoved DEF o
  <2>6. UsesInv'
    BY <2>2, <2>3, <2>4, <2>5 DEF UsesInv
  <2>7. ASSUME NEW x \in DOMAIN sessions \ DOMAIN sessions', x \notin Expired
        PROVE  Cardinality(since'[x]) >= MaxSessions
    <3> DEFINE after == {y \in S : <<x, y>> \in o}
    <3>1. x \in S /\ x \in Sessions /\ x \notin U
      BY <1>0, <2>4, <2>7, Stored DEF S
    <3>2. after \in SUBSET since'[x] /\ IsFiniteSet(since'[x])
      BY <2>5, <3>1
    <3>3. IsFiniteSet(after) /\ Cardinality(after) <= Cardinality(since'[x])
      BY <3>2, FS_Subset
    <3>4. ~(Cardinality(after) < MaxSessions)
      BY <3>1 DEF U, Unevicted
    <3>5. Cardinality(after) \in Nat /\ Cardinality(since'[x]) \in Nat
      BY <3>2, <3>3, FS_CardinalityType
    <3> QED
      BY <3>3, <3>4, <3>5, SessionAssumption
  <2> QED
    BY <1>e, <2>6, <2>7 DEF LeaveForCause
\* A session that is used: the expired ones leave.
<1>2. ASSUME NEW s \in Alive, NEW f, Keep(Alive, f, MovedToEnd(Alive, s)), Used(s),
             UNCHANGED issued
      PROVE  UsesInv' /\ LeaveForCause
  <2>1. DOMAIN sessions' = Alive /\ older' \subseteq MovedToEnd(Alive, s)
    BY <1>2 DEF Keep
  <2>2. s \in Sessions /\ s \in issued
    BY <1>0, Stored
  <2>3. /\ \A x \in Sessions : since'[x] \subseteq issued'
        /\ \A a, b \in Alive : <<a, b>> \in MovedToEnd(Alive, s) => b \in since'[a]
    BY <1>0, <1>2, <2>2, UsesMoved DEF UsesInv
  <2>4. UsesInv'
    BY <1>2, <2>1, <2>3 DEF UsesInv
  <2> QED
    BY <1>0, <1>e, <2>1, <2>4 DEF LeaveForCause
<1>3. ASSUME NEW S, S \subseteq DOMAIN sessions, Keep(S, sessions, older),
             UNCHANGED <<issued, since>>
      PROVE  UsesInv' /\ DOMAIN sessions' = S
  BY <1>3 DEF Keep, UsesInv
<1>4. ASSUME Keep(Alive, sessions, older), UNCHANGED <<issued, since>>
      PROVE  UsesInv' /\ LeaveForCause
  BY <1>0, <1>e, <1>3, <1>4 DEF LeaveForCause
<1>5. ASSUME NEW s \in Sessions, GetHistory(s)
      PROVE  UsesInv' /\ LeaveForCause
  BY <1>2, <1>4, <1>5 DEF GetHistory
<1>6. ASSUME NEW s \in Sessions, NEW r \in Runs, AppendTurn(s, r)
      PROVE  UsesInv' /\ LeaveForCause
  BY <1>2, <1>4, <1>6 DEF AppendTurn
<1>7. ASSUME NEW s \in Sessions, Delete(s)
      PROVE  UsesInv' /\ LeaveForCause
  <2>1. DOMAIN sessions \ {s} \subseteq DOMAIN sessions
    OBVIOUS
  <2>2. UsesInv' /\ DOMAIN sessions' = DOMAIN sessions \ {s}
    BY <1>3, <1>7, <2>1 DEF Delete
  <2>3. \A x \in DOMAIN sessions \ DOMAIN sessions' : x = s
    BY <2>2
  <2> QED
    BY <1>7, <2>2, <2>3 DEF LeaveForCause
<1>8. CASE Stats
  BY <1>4, <1>8 DEF Stats
<1>9. CASE Tick \/ UNCHANGED sessionVars
  BY <1>9 DEF Tick, sessionVars, UsesInv, LeaveForCause
<1> QED
  BY <1>1, <1>5, <1>6, <1>7, <1>8, <1>9 DEF StoreStep
-----------------------------------------------------------------------------
(* Any program's store                                                     *)

\* The process ends: sessions are in memory.
Emptied ==
  /\ sessions' = << >>
  /\ older' = {}
  /\ UNCHANGED <<now, issued, since>>

\* Any order of calls, from any threads, and any number of restarts.
StoreSpec == SessionInit /\ [][StoreStep \/ Emptied]_sessionVars

LEMMA EmptiedStore ==
  ASSUME StoreInv, Emptied
  PROVE  StoreInv'
<1>1. DOMAIN sessions' = {} /\ older' = {} /\ UNCHANGED <<now, issued, since>>
  BY DEF Emptied
<1>2. Cardinality(DOMAIN sessions') = 0 /\ IsFiniteSet(DOMAIN sessions')
  BY <1>1, FS_EmptySet
<1>3. OrderOf(older', DOMAIN sessions')
  BY <1>1 DEF OrderOf
<1> QED
  BY <1>1, <1>2, <1>3, SessionAssumption DEF StoreInv, SessionTypeOK

LEMMA StoreInvariant == StoreSpec => []StoreInv
<1>1. StoreInv /\ [StoreStep \/ Emptied]_sessionVars => StoreInv'
  <2>1. StoreInv /\ UNCHANGED sessionVars => StoreInv'
    BY StoreNext DEF StoreStep
  <2> QED
    BY <2>1, StoreNext, EmptiedStore
<1> QED
  BY <1>1, StoreInit, PTL DEF StoreSpec

(***************************************************************************)
(* Whatever a program calls, the messages of a session are whole turns,    *)
(* and only the oldest may be cut in half (session.py, append).            *)
(***************************************************************************)
THEOREM AnyStoreTurnsAreWhole == StoreSpec => []TurnsAreWhole
<1>1. StoreInv => TurnsAreWhole
  BY StoreProperties
<1> QED
  BY <1>1, StoreInvariant, PTL

(***************************************************************************)
(* Whatever a program calls, and with a positive limit of messages, the    *)
(* store holds at most max_sessions sessions, each of at most              *)
(* max_messages messages (session.py, _evict and append).                  *)
(***************************************************************************)
THEOREM AnyStoreIsBounded ==
  ASSUME MaxMessages > 0
  PROVE  StoreSpec => []SessionsBounded
<1>1. StoreInv => SessionsBounded
  BY StoreProperties
<1> QED
  BY <1>1, StoreInvariant, PTL

\* The sessions of the store after a step were in it, or are newly issued.
LEMMA SessionsKept ==
  ASSUME StoreStep \/ Emptied
  PROVE  \A s \in DOMAIN sessions' : s \in DOMAIN sessions \/ s \notin issued
<1>1. Alive \subseteq DOMAIN sessions
  BY DEF Alive
<1>2. ASSUME NEW S, S \subseteq DOMAIN sessions, NEW f, NEW o, Keep(S, f, o)
      PROVE  DOMAIN sessions' \subseteq DOMAIN sessions
  BY <1>2 DEF Keep
<1>3. ASSUME NEW s \in Sessions, Create(s)
      PROVE  \A x \in DOMAIN sessions' : x \in DOMAIN sessions \/ x \notin issued
  <2>1. s \notin issued
    BY <1>3 DEF Create
  <2>2. DOMAIN sessions' \subseteq Alive \cup {s}
    BY <1>3 DEF Create, Keep, Unevicted
  <2> QED
    BY <1>1, <2>1, <2>2
<1>4. ASSUME NEW s, GetHistory(s) \/ Delete(s) \/ Stats
      PROVE  DOMAIN sessions' \subseteq DOMAIN sessions
  BY <1>1, <1>2, <1>4 DEF GetHistory, Delete, Stats
<1>5. ASSUME NEW s, NEW r, AppendTurn(s, r)
      PROVE  DOMAIN sessions' \subseteq DOMAIN sessions
  BY <1>1, <1>2, <1>5 DEF AppendTurn
<1>6. ASSUME Tick \/ Emptied \/ UNCHANGED sessionVars
      PROVE  DOMAIN sessions' \subseteq DOMAIN sessions
  BY <1>6 DEF Tick, Emptied, sessionVars
<1> QED
  BY <1>3, <1>4, <1>5, <1>6 DEF StoreStep

(***************************************************************************)
(* Whatever a program calls, a session that was deleted, expired or        *)
(* evicted never comes back (session.py).                                  *)
(***************************************************************************)
THEOREM AnyStoreForgets == StoreSpec => GoneForGood
<1>1. ASSUME [StoreStep \/ Emptied]_sessionVars
      PROVE  [\A s \in issued \ DOMAIN sessions : s \notin DOMAIN sessions']_sessionVars
  BY <1>1, SessionsKept
<1> QED
  BY <1>1, PTL DEF StoreSpec, GoneForGood

(***************************************************************************)
(* Whatever a program calls, and while it runs, a session leaves the store *)
(* only because it was deleted, has expired, or is not among the           *)
(* most recently used (session.py, _purge_expired and _evict).             *)
(***************************************************************************)
THEOREM AnyStoreLeaves == StoreSpec => [][LeaveForCause \/ Emptied]_sessionVars
<1>1. SessionInit => UsesInv
  BY FS_EmptySet DEF SessionInit, UsesInv
<1>2. StoreInv /\ UsesInv /\ [StoreStep \/ Emptied]_sessionVars
        => UsesInv' /\ (LeaveForCause \/ Emptied)
  <2>1. Emptied /\ UsesInv => UsesInv'
    BY DEF Emptied, UsesInv
  <2>2. UNCHANGED sessionVars => StoreStep
    BY DEF StoreStep
  <2> QED
    BY <2>1, <2>2, UsesNext
<1>3. StoreInv /\ UsesInv /\ [StoreStep \/ Emptied]_sessionVars
        => [LeaveForCause \/ Emptied]_sessionVars
  BY <1>2
<1> QED
  BY <1>1, <1>2, <1>3, StoreInvariant, PTL DEF StoreSpec
=============================================================================
