--------------------------- MODULE AuditLogProofs ---------------------------
(***************************************************************************)
(* Theorems about AuditLog, for every value of its constants.              *)
(***************************************************************************)
EXTENDS AuditLog, FiniteSetTheorems, WellFoundedInduction, TLAPS

(***************************************************************************)
(* A file is extended with a line in place of its unfinished last line or  *)
(* after its last line; either way it stays a sequence of lines and is not *)
(* empty.                                                                  *)
(***************************************************************************)
LEMMA ExtendedType ==
  ASSUME NEW lines \in Seq(Lines), NEW open \in BOOLEAN, NEW line \in Lines,
         open => lines # <<>>
  PROVE  /\ Extended(lines, open, line) \in Seq(Lines)
         /\ Extended(lines, open, line) # <<>>
<1>1. CASE open
  <2>1. Len(lines) \in 1..Len(lines)
    BY <1>1
  <2>2. lines[Len(lines)] \in Lines
    BY <2>1
  <2>3. Garbage(lines[Len(lines)].key) \in Lines
    BY <2>2 DEF Lines, RecordLines, GarbageLines, Garbage
  <2> QED
    BY <1>1, <2>1, <2>3 DEF Extended
<1>2. CASE ~open
  BY <1>2 DEF Extended
<1> QED
  BY <1>1, <1>2

-----------------------------------------------------------------------------
(* Type correctness                                                        *)

(***************************************************************************)
(* TypeOK is not inductive alone: extending an unfinished last line needs  *)
(* a last line.                                                            *)
(***************************************************************************)
TypeInv == TypeOK /\ (openTail => file # <<>>)

LEMMA AttachType ==
  ASSUME NEW body \in Nat, NEW p \in Hashes, NEW s \in Nat, NEW k \in MaybeKeys
  PROVE  attach_chain_fields(body, p, s, k) \in RecordLines
BY DEF attach_chain_fields, compute_entry_hash, RecordLines, Hashes

LEMMA GenesisType == GENESIS_HASH \in Hashes
BY DEF GENESIS_HASH, Hashes

LEMMA NoRecordType == NoRecord \in RecordLines
BY AttachType, GenesisType DEF NoRecord, MaybeKeys

Lives == {"down", "restoring", "running", "refused", "failed"}

EmitTypes ==
  pc \in [Workers -> {"idle", "attached", "append"}] /\ rec \in [Workers -> RecordLines]

LoggerTypes ==
  /\ st \in [Loggers -> Lives] /\ key \in [Loggers -> MaybeKeys]
  /\ snap \in [Loggers -> Seq(Lines)] /\ pos \in [Loggers -> Nat]
  /\ seq \in [Loggers -> Nat] /\ prev \in [Loggers -> Hashes]

FileTypes == file \in Seq(Lines) /\ openTail \in BOOLEAN /\ (openTail => file # <<>>)

HistTypes ==
  /\ emits \in 0..MaxEmits /\ returned \subseteq Nat
  /\ tears \in 0..MaxTears /\ orderly \in BOOLEAN

LEMMA TypeParts == TypeInv <=> FileTypes /\ LoggerTypes /\ EmitTypes /\ HistTypes
BY DEF TypeInv, TypeOK, FileTypes, LoggerTypes, EmitTypes, HistTypes, Lives

LEMMA TypeInit == Init => TypeInv
<1> SUFFICES ASSUME Init PROVE TypeInv
  OBVIOUS
<1>1. FileTypes
  <2>1. file = <<>> /\ openTail = FALSE
    BY DEF Init
  <2>2. <<>> \in Seq(Lines)
    OBVIOUS
  <2> QED
    BY <2>1, <2>2 DEF FileTypes
<1>4. LoggerTypes
  <2>1. <<>> \in Seq(Lines) /\ NoKey \in MaybeKeys
    BY DEF MaybeKeys
  <2> QED
    BY <2>1, GenesisType DEF Init, LoggerTypes, Lives
<1>2. EmitTypes
  BY NoRecordType DEF Init, EmitTypes
<1>3. HistTypes
  BY BoundsAssumption DEF Init, HistTypes
<1> QED
  BY <1>1, <1>2, <1>3, <1>4, TypeParts

LEMMA TypeLoggerStep ==
  ASSUME TypeInv, NEW l \in Loggers, LoggerStep(l)
  PROVE  TypeInv'
<1>0. FileTypes /\ LoggerTypes /\ EmitTypes /\ HistTypes
  BY TypeParts
<1>1. FileTypes'
  <2>1. file' = file /\ openTail' = openTail
    BY DEF LoggerStep, KeyRefused, Start, Open, RestoreRaises, RestoreSkip, RestoreRecord,
           RestoreDone, Stop, fileVars
  <2> QED
    BY <1>0, <2>1 DEF FileTypes
<1>2. HistTypes'
  <2>1. /\ emits' = emits /\ returned' = returned /\ tears' = tears
        /\ orderly' = orderly \/ orderly' \in BOOLEAN
    BY <1>0
    DEF LoggerStep, KeyRefused, Start, Open, RestoreRaises, RestoreSkip, RestoreRecord,
        RestoreDone, Stop, histVars
  <2> QED
    BY <1>0, <2>1 DEF HistTypes
<1>3. EmitTypes'
  <2>1. CASE Stop(l)
    BY <1>0, <2>1, NoRecordType DEF Stop, EmitTypes
  <2>2. CASE ~Stop(l)
    <3>1. pc' = pc /\ rec' = rec
      BY <2>2 DEF LoggerStep, KeyRefused, Start, Open, RestoreRaises, RestoreSkip,
                  RestoreRecord, RestoreDone, emitVars
    <3> QED
      BY <1>0, <3>1 DEF EmitTypes
  <2> QED
    BY <2>1, <2>2
<1>4. LoggerTypes'
  <2> USE <1>0 DEF LoggerTypes, Lives
  <2>1. CASE KeyRefused(l) \/ RestoreRaises(l)
    BY <2>1 DEF KeyRefused, RestoreRaises
  <2>2. CASE Start(l)
    <3>1. key' \in [Loggers -> MaybeKeys]
      BY <2>2, KeySettingsAssumption DEF Start, Open
    <3> QED
      BY <2>2, <3>1 DEF Start, Open, FileTypes
  <2>3. CASE RestoreSkip(l)
    BY <2>3 DEF RestoreSkip
  <2>4. CASE RestoreRecord(l)
    <3>1. NextLine(l) \in Lines
      BY <2>4 DEF RestoreRecord, Restoring, NextLine
    <3>2. NextLine(l) \in RecordLines
      BY <2>4, <3>1
      DEF RestoreRecord, Readable, Undecryptable, Skipped, Sealed, Legible, Lines,
          GarbageLines, RecordLines
    <3>3. NextLine(l).hash \in Hashes /\ NextLine(l).seq \in Nat
      BY <3>2 DEF RecordLines
    <3>4. prev' \in [Loggers -> Hashes]
      BY <2>4, <3>3 DEF RestoreRecord
    <3>5. seq' \in [Loggers -> Nat]
      BY <2>4, <3>3 DEF RestoreRecord
    <3>6. pos' \in [Loggers -> Nat]
      <4>1. pos[l] + 1 \in Nat /\ Len(snap[l]) \in Nat
        OBVIOUS
      <4>2. \/ pos' = [pos EXCEPT ![l] = pos[l] + 1]
            \/ pos' = [pos EXCEPT ![l] = Len(snap[l])]
        BY <2>4 DEF RestoreRecord
      <4> QED
        BY <4>1, <4>2
    <3> QED
      BY <2>4, <3>4, <3>5, <3>6 DEF RestoreRecord
  <2>5. CASE RestoreDone(l)
    BY <2>5 DEF RestoreDone
  <2>6. CASE Stop(l)
    BY <2>6, GenesisType DEF Stop, MaybeKeys
  <2> QED
    BY <2>1, <2>2, <2>3, <2>4, <2>5, <2>6 DEF LoggerStep
<1> QED
  BY <1>1, <1>2, <1>3, <1>4
  DEF TypeInv, TypeOK, FileTypes, LoggerTypes, EmitTypes, HistTypes, Lives

LEMMA TypeWorkerStep ==
  ASSUME TypeInv, NEW w \in Workers, WorkerStep(w)
  PROVE  TypeInv'
<1>0. FileTypes /\ LoggerTypes /\ EmitTypes /\ HistTypes /\ w[1] \in Loggers
  BY TypeParts DEF Workers
<1>1. rec[w] \in RecordLines /\ rec[w] \in Lines
  BY <1>0 DEF EmitTypes, Lines
<1>2. FileTypes'
  <2>1. CASE UNCHANGED fileVars
    BY <1>0, <2>1 DEF FileTypes, fileVars
  <2>2. ASSUME NEW line \in Lines, file' = Extended(file, openTail, line),
               openTail' \in BOOLEAN
        PROVE  FileTypes'
    BY <1>0, <2>2, ExtendedType DEF FileTypes
  <2>3. \A fragment \in Fragments(rec[w]) : fragment \in Lines
    <3>1. Garbage(NoKey) \in Lines /\ Garbage(rec[w].key) \in Lines
      BY <1>1 DEF Garbage, Lines, GarbageLines, RecordLines, MaybeKeys
    <3> QED
      BY <1>1, <3>1 DEF Fragments
  <2> QED
    BY <1>1, <2>1, <2>2, <2>3
    DEF WorkerStep, EmitAttach, EmitAdvance, EmitAppend, AppendFails, SyncFails, AppendTorn
<1>3. HistTypes'
  <2> USE <1>0, BoundsAssumption DEF HistTypes
  <2>1. CASE EmitAttach(w)
    BY <2>1 DEF EmitAttach
  <2>2. CASE EmitAdvance(w) \/ SyncFails(w)
    BY <2>2 DEF EmitAdvance, SyncFails, histVars
  <2>3. CASE EmitAppend(w)
    BY <1>1, <2>3 DEF EmitAppend, RecordLines
  <2>4. CASE AppendFails(w)
    BY <2>4 DEF AppendFails
  <2>5. CASE AppendTorn(w)
    <3>1. tears + 1 \in 0..MaxTears
      BY <2>5 DEF AppendTorn
    <3> QED
      BY <2>5, <3>1 DEF AppendTorn
  <2> QED
    BY <2>1, <2>2, <2>3, <2>4, <2>5 DEF WorkerStep
<1>4. EmitTypes' /\ LoggerTypes'
  <2>1. CASE EmitAttach(w)
    <3>1. attach_chain_fields(emits + 1, prev[w[1]], seq[w[1]] + 1, key[w[1]])
            \in RecordLines
      BY <1>0, AttachType, BoundsAssumption DEF LoggerTypes, HistTypes
    <3>2. EmitTypes'
      BY <1>0, <2>1, <3>1 DEF EmitAttach, EmitTypes
    <3> QED
      BY <1>0, <2>1, <3>2 DEF EmitAttach, LoggerTypes
  <2>2. CASE EmitAdvance(w)
    <3>1. rec[w].hash \in Hashes
      BY <1>1 DEF RecordLines
    <3> QED
      BY <1>0, <2>2, <3>1 DEF EmitAdvance, EmitTypes, LoggerTypes
  <2>3. CASE EmitReturns(w) /\ UNCHANGED logVars
    <3>1. EmitTypes'
      BY <1>0, <2>3, NoRecordType DEF EmitReturns, EmitTypes
    <3> QED
      BY <1>0, <2>3, <3>1 DEF logVars, LoggerTypes
  <2> QED
    BY <2>1, <2>2, <2>3
    DEF WorkerStep, EmitAppend, AppendFails, SyncFails, AppendTorn
<1> QED
  BY <1>2, <1>3, <1>4
  DEF TypeInv, TypeOK, FileTypes, LoggerTypes, EmitTypes, HistTypes, Lives

LEMMA TypeStutter == TypeInv /\ UNCHANGED vars => TypeInv'
BY DEF TypeInv, TypeOK, vars, fileVars, logVars, emitVars, histVars

(***************************************************************************)
(* Every variable keeps its type: the lines of the file are records or     *)
(* torn lines, sequence numbers are naturals, and the histories stay       *)
(* within their bounds (audit.py, AuditLogger).                            *)
(***************************************************************************)
THEOREM TypeCorrect == Spec => []TypeOK
<1>1. Init => TypeInv
  BY TypeInit
<1>2. TypeInv /\ [Next]_vars => TypeInv'
  BY TypeLoggerStep, TypeWorkerStep, TypeStutter DEF Next
<1>3. TypeInv => TypeOK
  BY DEF TypeInv
<1> QED
  BY <1>1, <1>2, <1>3, PTL DEF Spec

-----------------------------------------------------------------------------
(* The chain of a log whose writers take turns                             *)

\* The logger's memory stands after the first n lines of the file.
StandsAt(l, n) == seq[l] = n /\ prev[l] = HashBefore(file, n + 1)

\* A process that is down has forgotten everything.
Forgotten ==
  \A l \in Loggers :
    st[l] = "down" => pos[l] = 0 /\ seq[l] = 0 /\ prev[l] = GENESIS_HASH

Emitting(w) == pc[w] # "idle"

EmittersRun == \A w \in Workers : Emitting(w) => st[w[1]] = "running"

OneUp == \A l, m \in Loggers : Up(l) /\ Up(m) => l = m

OneEmits == \A w, u \in Workers : Emitting(w) /\ Emitting(u) => w = u

\* The restore loop stands at the line it has read.
RestoreFits(l) ==
  st[l] = "restoring" => snap[l] = file /\ pos[l] <= Len(file) /\ StandsAt(l, pos[l])

\* An idle logger stands at the end of the file.
IdleFits(l) ==
  st[l] = "running" /\ (\A t \in Threads : ~Emitting(<<l, t>>)) => StandsAt(l, Len(file))

\* A record being emitted is the one the file needs next.
EmitFits(w) ==
  Emitting(w) =>
    /\ verify_record_chain(rec[w], HashBefore(file, Len(file) + 1), Len(file) + 1)
    /\ seq[w[1]] = Len(file) + 1
    /\ pc[w] = "append" => prev[w[1]] = rec[w].hash

(***************************************************************************)
(* ChainVerifies says nothing of the memory a record is made from.  The    *)
(* strengthening ties it to the file, and says of the history that one     *)
(* logger is up and one call of emit under way at most.                    *)
(***************************************************************************)
InOrder ==
  /\ openTail = FALSE
  /\ ChainOK(file)
  /\ OneUp
  /\ OneEmits
  /\ \A l \in Loggers : RestoreFits(l) /\ IdleFits(l)
  /\ \A w \in Workers : EmitFits(w)

OrderInv == TypeInv /\ Forgotten /\ EmittersRun /\ (orderly => InOrder)

\* A line that continues a chained file makes a longer chained file, and
\* its hash is the one the line after it needs.
LEMMA ChainExtends ==
  ASSUME NEW lines \in Seq(Lines), NEW line \in RecordLines, ChainOK(lines),
         verify_record_chain(line, HashBefore(lines, Len(lines) + 1),
                             Len(lines) + 1)
  PROVE  /\ ChainOK(Append(lines, line))
         /\ HashBefore(Append(lines, line), Len(lines) + 2) = line.hash
<1> DEFINE longer == Append(lines, line)
<1>1. /\ Len(longer) = Len(lines) + 1
      /\ longer[Len(lines) + 1] = line
      /\ \A i \in 1..Len(lines) : longer[i] = lines[i]
  OBVIOUS
<1>2. \A i \in 1..(Len(lines) + 1) : HashBefore(longer, i) = HashBefore(lines, i)
  BY <1>1 DEF HashBefore
<1>3. line.kind = "record"
  BY DEF RecordLines
<1>4. ASSUME NEW i \in 1..Len(longer)
      PROVE  /\ longer[i].kind = "record"
             /\ verify_record_chain(longer[i], HashBefore(longer, i), i)
  <2>1. CASE i \in 1..Len(lines)
    BY <2>1, <1>1, <1>2 DEF ChainOK
  <2>2. CASE i = Len(lines) + 1
    BY <2>2, <1>1, <1>2, <1>3
  <2> QED
    BY <1>1, <2>1, <2>2
<1>5. HashBefore(longer, Len(lines) + 2) = line.hash
  BY <1>1 DEF HashBefore
<1> QED
  BY <1>4, <1>5 DEF ChainOK

\* A step of a logger leaves the file and the other loggers alone, and no
\* emission begins in it.
LEMMA LoggerFrame ==
  ASSUME TypeInv, NEW l \in Loggers, LoggerStep(l)
  PROVE  /\ UNCHANGED <<file, openTail, emits, returned, tears>>
         /\ \A m \in Loggers : m # l =>
              /\ st'[m] = st[m] /\ key'[m] = key[m] /\ snap'[m] = snap[m]
              /\ pos'[m] = pos[m] /\ seq'[m] = seq[m] /\ prev'[m] = prev[m]
         /\ \A w \in Workers : w[1] # l => pc'[w] = pc[w] /\ rec'[w] = rec[w]
         /\ \A w \in Workers : pc'[w] # "idle" => pc'[w] = pc[w] /\ rec'[w] = rec[w]
         /\ orderly' => orderly
<1>1. /\ st \in [Loggers -> {"down", "restoring", "running", "refused", "failed"}]
      /\ key \in [Loggers -> MaybeKeys] /\ snap \in [Loggers -> Seq(Lines)]
      /\ pos \in [Loggers -> Nat] /\ seq \in [Loggers -> Nat] /\ prev \in [Loggers -> Hashes]
      /\ pc \in [Workers -> {"idle", "attached", "append"}] /\ rec \in [Workers -> RecordLines]
  BY DEF TypeInv, TypeOK
<1>2. CASE KeyRefused(l)
  BY <1>1, <1>2 DEF KeyRefused, fileVars, emitVars, histVars
<1>3. CASE Start(l)
  BY <1>1, <1>3 DEF Start, Open, fileVars, emitVars
<1>4. CASE RestoreRaises(l)
  BY <1>1, <1>4 DEF RestoreRaises, fileVars, emitVars, histVars
<1>5. CASE RestoreSkip(l)
  BY <1>1, <1>5 DEF RestoreSkip, fileVars, emitVars
<1>6. CASE RestoreRecord(l)
  BY <1>1, <1>6 DEF RestoreRecord, fileVars, emitVars, histVars
<1>7. CASE RestoreDone(l)
  BY <1>1, <1>7 DEF RestoreDone, fileVars, emitVars, histVars
<1>8. CASE Stop(l)
  BY <1>1, <1>8 DEF Stop, fileVars, histVars
<1> QED
  BY <1>2, <1>3, <1>4, <1>5, <1>6, <1>7, <1>8 DEF LoggerStep

\* What a logger's step may do to its own state while all is in order.
LEMMA OwnStep ==
  ASSUME OrderInv, NEW l \in Loggers, LoggerStep(l)
  PROVE  /\ st'[l] = "down" => pos'[l] = 0 /\ seq'[l] = 0 /\ prev'[l] = GENESIS_HASH
         /\ \A w \in Workers : w[1] = l /\ Emitting(w)' => st'[l] = "running"
         /\ orderly' => RestoreFits(l)' /\ IdleFits(l)'
         /\ orderly' /\ Up(l)' /\ ~Up(l) => \A m \in Loggers \ {l} : ~Up(m)
<1> USE DEF Up, Emitting
<1>0. /\ st \in [Loggers -> {"down", "restoring", "running", "refused", "failed"}]
      /\ snap \in [Loggers -> Seq(Lines)] /\ file \in Seq(Lines)
      /\ pos \in [Loggers -> Nat] /\ seq \in [Loggers -> Nat] /\ prev \in [Loggers -> Hashes]
      /\ pc \in [Workers -> {"idle", "attached", "append"}]
      /\ \A w \in Workers : pc[w] # "idle" => st[w[1]] = "running"
      /\ \A t \in Threads : <<l, t>> \in Workers
      /\ TypeInv
  BY DEF OrderInv, TypeInv, TypeOK, EmittersRun, Workers
<1>1. CASE KeyRefused(l)
  BY <1>0, <1>1 DEF KeyRefused, emitVars, RestoreFits, IdleFits
<1>2. CASE Start(l)
  <2>1. /\ st[l] = "down" /\ st'[l] = "restoring" /\ snap'[l] = file /\ file' = file
        /\ pos'[l] = 0 /\ seq'[l] = 0 /\ prev'[l] = GENESIS_HASH /\ pc' = pc
        /\ orderly' => \A m \in Loggers \ {l} : ~Up(m)
    BY <1>0, <1>2 DEF Start, Open, OrderInv, Forgotten, fileVars, emitVars
  <2>2. RestoreFits(l)'
    BY <1>0, <2>1 DEF RestoreFits, StandsAt, HashBefore
  <2> QED
    BY <1>0, <2>1, <2>2 DEF IdleFits
<1>3. CASE RestoreRaises(l)
  BY <1>0, <1>3 DEF RestoreRaises, Restoring, emitVars, RestoreFits, IdleFits
<1>4. CASE RestoreSkip(l)
  BY <1>0, <1>4 DEF RestoreSkip, Restoring, emitVars, RestoreFits, IdleFits
<1>5. CASE RestoreRecord(l)
  <2>1. st[l] = "restoring" /\ st' = st /\ pc' = pc /\ file' = file /\ orderly' = orderly
        /\ snap' = snap /\ pos[l] < Len(snap[l])
    BY <1>5 DEF RestoreRecord, Restoring, fileVars, emitVars, histVars
  <2>2. ASSUME orderly PROVE RestoreFits(l)'
    <3>1. /\ snap[l] = file /\ pos[l] \in Nat /\ pos[l] + 1 \in 1..Len(file)
          /\ StandsAt(l, pos[l]) /\ ChainOK(file)
      BY <1>0, <2>1, <2>2 DEF OrderInv, InOrder, RestoreFits
    <3>2. verify_record_chain(NextLine(l), prev[l], seq[l] + 1)
      BY <3>1 DEF NextLine, StandsAt, ChainOK
    <3>3. /\ NextLine(l).seq = pos[l] + 1
          /\ NextLine(l).hash = HashBefore(file, pos[l] + 2)
      BY <3>1, <3>2 DEF verify_record_chain, StandsAt, NextLine, HashBefore
    <3>4. /\ pos'[l] = pos[l] + 1
          /\ seq'[l] = pos[l] + 1
          /\ prev'[l] = HashBefore(file, pos[l] + 2)
      BY <1>0, <1>5, <3>2, <3>3 DEF RestoreRecord
    <3>5. /\ pos'[l] <= Len(file)
          /\ seq'[l] = pos'[l]
          /\ prev'[l] = HashBefore(file, pos'[l] + 1)
      BY <3>1, <3>4
    <3> QED
      BY <2>1, <3>1, <3>5 DEF RestoreFits, StandsAt
  <2> QED
    BY <1>0, <2>1, <2>2 DEF IdleFits
<1>6. CASE RestoreDone(l)
  <2>1. /\ st[l] = "restoring" /\ st'[l] = "running" /\ pc' = pc /\ file' = file
        /\ orderly' = orderly /\ seq' = seq /\ prev' = prev /\ pos[l] = Len(snap[l])
    BY <1>0, <1>6 DEF RestoreDone, fileVars, emitVars, histVars
  <2>2. ASSUME orderly PROVE StandsAt(l, Len(file))'
    BY <1>0, <2>1, <2>2 DEF OrderInv, InOrder, RestoreFits, StandsAt
  <2> QED
    BY <1>0, <2>1, <2>2 DEF RestoreFits, IdleFits
<1>7. CASE Stop(l)
  <2>1. /\ st'[l] = "down" /\ pos'[l] = 0 /\ seq'[l] = 0 /\ prev'[l] = GENESIS_HASH
        /\ \A w \in Workers : w[1] = l => pc'[w] = "idle"
    BY <1>0, <1>7 DEF Stop
  <2> QED
    BY <2>1 DEF RestoreFits, IdleFits
<1> QED
  BY <1>1, <1>2, <1>3, <1>4, <1>5, <1>6, <1>7 DEF LoggerStep

LEMMA OrderLoggerStep ==
  ASSUME OrderInv, NEW l \in Loggers, LoggerStep(l)
  PROVE  OrderInv'
<1>0. TypeInv /\ TypeInv'
  BY TypeLoggerStep DEF OrderInv
<1>1. /\ UNCHANGED <<file, openTail>>
      /\ \A m \in Loggers : m # l =>
           /\ st'[m] = st[m] /\ snap'[m] = snap[m]
           /\ pos'[m] = pos[m] /\ seq'[m] = seq[m] /\ prev'[m] = prev[m]
      /\ \A w \in Workers : w[1] # l => pc'[w] = pc[w] /\ rec'[w] = rec[w]
      /\ \A w \in Workers : pc'[w] # "idle" => pc'[w] = pc[w] /\ rec'[w] = rec[w]
      /\ orderly' => orderly
  BY <1>0, LoggerFrame
<1>2. Forgotten'
  BY <1>1, OwnStep DEF OrderInv, Forgotten
<1>3. EmittersRun'
  <2> SUFFICES ASSUME NEW w \in Workers, Emitting(w)' PROVE st'[w[1]] = "running"
    BY DEF EmittersRun
  <2>1. w[1] \in Loggers
    BY DEF Workers
  <2>2. CASE w[1] = l
    BY <2>2, OwnStep
  <2>3. CASE w[1] # l
    BY <1>1, <2>1, <2>3 DEF OrderInv, EmittersRun, Emitting
  <2> QED
    BY <2>2, <2>3
<1>4. ASSUME orderly' PROVE InOrder'
  <2>1. InOrder /\ orderly
    BY <1>1, <1>4 DEF OrderInv
  <2>2. OneUp'
    <3> SUFFICES ASSUME NEW m \in Loggers, NEW k \in Loggers, Up(m)', Up(k)' PROVE m = k
      BY DEF OneUp
    <3>1. \A i \in Loggers : i # l => (Up(i)' <=> Up(i))
      BY <1>1 DEF Up
    <3>2. Up(l) \/ ~Up(l)'  \/ \A i \in Loggers \ {l} : ~Up(i)
      BY <1>4, OwnStep
    <3> QED
      BY <2>1, <3>1, <3>2 DEF InOrder, OneUp
  <2>3. OneEmits'
    BY <1>1, <2>1 DEF InOrder, OneEmits, Emitting
  <2>4. ASSUME NEW m \in Loggers PROVE RestoreFits(m)' /\ IdleFits(m)'
    <3>1. CASE m = l
      BY <1>4, <3>1, OwnStep
    <3>2. CASE m # l
      <4>1. \A t \in Threads : pc'[<<m, t>>] = pc[<<m, t>>]
        BY <1>1, <3>2 DEF Workers
      <4> QED
        BY <1>1, <2>1, <3>2, <4>1 DEF InOrder, RestoreFits, IdleFits, StandsAt, Emitting
    <3> QED
      BY <3>1, <3>2
  <2>5. ASSUME NEW w \in Workers, Emitting(w)'
        PROVE  /\ verify_record_chain(rec'[w], HashBefore(file', Len(file') + 1), Len(file') + 1)
               /\ seq'[w[1]] = Len(file') + 1
               /\ pc'[w] = "append" => prev'[w[1]] = rec'[w].hash
    <3>1. pc'[w] = pc[w] /\ rec'[w] = rec[w] /\ Emitting(w) /\ w[1] \in Loggers
      BY <1>1, <2>5 DEF Emitting, Workers
    <3>2. /\ verify_record_chain(rec[w], HashBefore(file, Len(file) + 1), Len(file) + 1)
          /\ seq[w[1]] = Len(file) + 1
          /\ pc[w] = "append" => prev[w[1]] = rec[w].hash
      BY <2>1, <3>1 DEF InOrder, EmitFits
    <3>3. seq'[w[1]] = seq[w[1]] /\ prev'[w[1]] = prev[w[1]]
      <4>1. CASE w[1] # l
        BY <1>1, <3>1, <4>1
      <4>2. CASE w[1] = l
        <5>1. st[l] = "running" /\ st'[l] = "running"
          BY <1>3, <2>5, <3>1, <4>2 DEF OrderInv, EmittersRun
        <5> QED
          BY <4>2, <5>1, <1>0
          DEF LoggerStep, KeyRefused, Start, Open, RestoreRaises, RestoreSkip, RestoreRecord,
              RestoreDone, Restoring, Stop, TypeInv, TypeOK
      <4> QED
        BY <4>1, <4>2
    <3> QED
      BY <1>1, <3>1, <3>2, <3>3
  <2> QED
    BY <1>1, <2>1, <2>2, <2>3, <2>4, <2>5 DEF InOrder, EmitFits
<1> QED
  BY <1>0, <1>2, <1>3, <1>4 DEF OrderInv

LEMMA OrderWorkerStep ==
  ASSUME OrderInv, NEW w \in Workers, WorkerStep(w)
  PROVE  OrderInv'
<1> DEFINE l == w[1]
<1>0. /\ TypeInv /\ TypeInv' /\ l \in Loggers /\ \A t \in Threads : <<l, t>> \in Workers
      /\ st \in [Loggers -> {"down", "restoring", "running", "refused", "failed"}]
      /\ seq \in [Loggers -> Nat] /\ prev \in [Loggers -> Hashes] /\ file \in Seq(Lines)
      /\ pc \in [Workers -> {"idle", "attached", "append"}] /\ rec \in [Workers -> RecordLines]
      /\ w[2] \in Threads /\ w = <<l, w[2]>>
  <2>1. TypeInv /\ TypeInv'
    BY TypeWorkerStep DEF OrderInv
  <2>2. l \in Loggers /\ w[2] \in Threads /\ w = <<l, w[2]>>
    BY DEF Workers
  <2>3. \A t \in Threads : <<l, t>> \in Workers
    BY <2>2 DEF Workers
  <2> QED
    BY <2>1, <2>2, <2>3 DEF TypeInv, TypeOK
<1>1. /\ st[l] = "running" /\ st' = st /\ snap' = snap /\ pos' = pos
      /\ \A m \in Loggers : m # l => seq'[m] = seq[m] /\ prev'[m] = prev[m]
      /\ \A u \in Workers : u # w => pc'[u] = pc[u] /\ rec'[u] = rec[u]
      /\ orderly' => orderly
  <2>1. pc[w] # "idle" => st[l] = "running"
    BY DEF OrderInv, EmittersRun, Emitting
  <2>2. CASE EmitAttach(w)
    BY <1>0, <2>2 DEF EmitAttach
  <2>3. CASE EmitAdvance(w)
    BY <1>0, <2>1, <2>3 DEF EmitAdvance, histVars
  <2>4. CASE EmitAppend(w) \/ AppendFails(w) \/ AppendTorn(w)
    BY <1>0, <2>1, <2>4 DEF EmitAppend, AppendFails, AppendTorn, EmitReturns, logVars
  <2>5. CASE SyncFails(w)
    BY <1>0, <2>1, <2>5 DEF SyncFails, EmitReturns, logVars, histVars
  <2> QED
    BY <2>2, <2>3, <2>4, <2>5 DEF WorkerStep
<1>2. Forgotten' /\ EmittersRun'
  BY <1>0, <1>1 DEF OrderInv, Forgotten, EmittersRun, Emitting
<1>3. ASSUME orderly' PROVE InOrder'
  <2>1. InOrder
    BY <1>1, <1>3 DEF OrderInv
  <2>2. \A m \in Loggers : m # l => ~Up(m) /\ st[m] # "restoring" /\ st[m] # "running"
    BY <1>0, <1>1, <2>1 DEF InOrder, OneUp, Up
  <2>3. OneUp'
    BY <1>1, <2>1 DEF InOrder, OneUp, Up
  <2>4. \A u \in Workers : u # w => ~Emitting(u)'
    <3> SUFFICES ASSUME NEW u \in Workers, u # w, Emitting(u) PROVE FALSE
      BY <1>1 DEF Emitting
    <3>1. u[1] = l
      <4>1. u[1] \in Loggers /\ st[u[1]] = "running"
        BY DEF OrderInv, EmittersRun, Workers
      <4> QED
        BY <2>2, <4>1
    <3>2. CASE pc[w] # "idle"
      BY <2>1, <3>2 DEF InOrder, OneEmits, Emitting
    <3>3. CASE pc[w] = "idle"
      <4>1. EmitAttach(w)
        BY <3>3 DEF WorkerStep, EmitAdvance, EmitAppend, AppendFails, SyncFails, AppendTorn
      <4>2. PICK t \in Threads : u = <<l, t>>
        BY <3>1 DEF Workers
      <4> QED
        BY <1>3, <4>1, <4>2 DEF EmitAttach, Emitting
    <3> QED
      BY <3>2, <3>3
  <2>5. OneEmits'
    BY <2>4 DEF OneEmits
  <2>6. \A m \in Loggers : RestoreFits(m)'
    BY <1>1, <2>2 DEF RestoreFits
  <2>7. CASE EmitAttach(w)
    <3>1. StandsAt(l, Len(file)) /\ file' = file /\ openTail' = openTail /\ prev' = prev
      <4>1. \A t \in Threads : ~Emitting(<<l, t>>)
        BY <1>3, <2>7 DEF EmitAttach, Emitting
      <4> QED
        BY <1>0, <1>1, <2>1, <2>7, <4>1 DEF InOrder, IdleFits, EmitAttach, fileVars
    <3>2. /\ rec'[w] = attach_chain_fields(emits + 1, prev[l], seq[l] + 1, key[l])
          /\ pc'[w] = "attached" /\ seq'[l] = Len(file) + 1
      BY <1>0, <2>7, <3>1 DEF EmitAttach, StandsAt
    <3>3. EmitFits(w)'
      BY <3>1, <3>2 DEF EmitFits, StandsAt, attach_chain_fields, verify_record_chain
    <3>4. \A m \in Loggers : IdleFits(m)'
      <4>1. w[2] \in Threads /\ Emitting(<<l, w[2]>>)'
        BY <1>0, <3>2 DEF Emitting
      <4> QED
        BY <1>1, <2>2, <4>1 DEF IdleFits
    <3> QED
      BY <2>1, <2>3, <2>4, <2>5, <2>6, <3>1, <3>3, <3>4 DEF InOrder, EmitFits
  <2>8. CASE EmitAdvance(w)
    <3>1. /\ file' = file /\ openTail' = openTail /\ seq' = seq /\ rec' = rec
          /\ pc[w] = "attached" /\ pc'[w] = "append" /\ prev'[l] = rec[w].hash
      BY <1>0, <2>8 DEF EmitAdvance, fileVars
    <3>2. EmitFits(w)'
      BY <2>1, <3>1 DEF InOrder, EmitFits, Emitting
    <3>3. \A m \in Loggers : IdleFits(m)'
      <4>1. w[2] \in Threads /\ Emitting(<<l, w[2]>>)'
        BY <1>0, <3>1 DEF Emitting
      <4> QED
        BY <1>1, <2>2, <4>1 DEF IdleFits
    <3> QED
      BY <2>1, <2>3, <2>4, <2>5, <2>6, <3>1, <3>2, <3>3 DEF InOrder, EmitFits
  <2>9. CASE EmitAppend(w) \/ SyncFails(w)
    <3>1. /\ pc[w] = "append" /\ pc'[w] = "idle" /\ openTail' = FALSE
          /\ file' = Append(file, rec[w]) /\ seq' = seq /\ prev' = prev
      BY <1>0, <2>1, <2>9 DEF EmitAppend, SyncFails, EmitReturns, Extended, InOrder, logVars
    <3>2. /\ verify_record_chain(rec[w], HashBefore(file, Len(file) + 1), Len(file) + 1)
          /\ seq[l] = Len(file) + 1 /\ prev[l] = rec[w].hash /\ ChainOK(file)
      BY <2>1, <3>1 DEF InOrder, EmitFits, Emitting
    <3>3. ChainOK(file') /\ HashBefore(file', Len(file) + 2) = rec[w].hash
      BY <1>0, <3>1, <3>2, ChainExtends
    <3>4. Len(file') = Len(file) + 1
      BY <1>0, <3>1
    <3>5. StandsAt(l, Len(file))'
      BY <1>0, <3>1, <3>2, <3>3, <3>4 DEF StandsAt
    <3>6. \A m \in Loggers : IdleFits(m)'
      BY <1>1, <2>2, <3>5 DEF IdleFits
    <3>7. ~Emitting(w)'
      BY <3>1 DEF Emitting
    <3> QED
      BY <2>3, <2>4, <2>5, <2>6, <3>1, <3>3, <3>6, <3>7 DEF InOrder, EmitFits
  <2>10. ~AppendFails(w) /\ ~AppendTorn(w)
    BY <1>3 DEF AppendFails, AppendTorn
  <2> QED
    BY <2>7, <2>8, <2>9, <2>10 DEF WorkerStep
<1> QED
  BY <1>0, <1>2, <1>3 DEF OrderInv

(***************************************************************************)
(* While processes and calls of emit take turns, every line can be read    *)
(* and every append writes its line, the log is one chain at every moment, *)
(* for any number of processes, threads, keys, events, kills and restarts  *)
(* (audit.py, emit and _restore_chain_state).                              *)
(***************************************************************************)
THEOREM OrderlyChain == Spec => []ChainVerifies
<1>1. Init => OrderInv
  <2> SUFFICES ASSUME Init PROVE OrderInv
    OBVIOUS
  <2>1. Len(file) = 0
    BY DEF Init
  <2>2. /\ \A l \in Loggers : st[l] = "down" /\ pos[l] = 0 /\ seq[l] = 0
                              /\ prev[l] = GENESIS_HASH
        /\ \A w \in Workers : pc[w] = "idle"
    BY DEF Init
  <2>3. InOrder
    BY <2>1, <2>2
    DEF Init, InOrder, ChainOK, OneUp, OneEmits, Up, Emitting, RestoreFits, IdleFits, EmitFits
  <2> QED
    BY <2>2, <2>3, TypeInit DEF OrderInv, Forgotten, EmittersRun, Emitting
<1>2. OrderInv /\ [Next]_vars => OrderInv'
  <2>1. OrderInv /\ UNCHANGED vars => OrderInv'
    <3> SUFFICES ASSUME OrderInv, UNCHANGED vars PROVE OrderInv'
      OBVIOUS
    <3>1. TypeInv'
      BY TypeStutter DEF OrderInv
    <3> QED
      BY <3>1
      DEF OrderInv, Forgotten, EmittersRun, InOrder, OneUp, OneEmits, Up, Emitting, RestoreFits,
          IdleFits, EmitFits, StandsAt, vars, fileVars, logVars, emitVars, histVars
  <2> QED
    BY <2>1, OrderLoggerStep, OrderWorkerStep DEF Next
<1>3. OrderInv => ChainVerifies
  BY DEF OrderInv, InOrder, ChainVerifies
<1> QED
  BY <1>1, <1>2, <1>3, PTL DEF Spec

-----------------------------------------------------------------------------
\* Extending a file that does not verify cannot make it verify: the first
\* bad line stays, or becomes a torn line.
LEMMA ExtendedStaysBroken ==
  ASSUME NEW lines \in Seq(Lines), NEW open \in BOOLEAN, NEW line \in Lines,
         open => lines # <<>>, ~ChainOK(lines)
  PROVE  ~ChainOK(Extended(lines, open, line))
<1>1. CASE open
  <2> DEFINE torn == Extended(lines, open, line)
  <2>1. Len(lines) \in 1..Len(lines)
    BY <1>1
  <2>2. torn = [lines EXCEPT ![Len(lines)] = Garbage(lines[Len(lines)].key)]
    BY <1>1 DEF Extended
  <2>3. Len(torn) = Len(lines) /\ torn[Len(lines)].kind = "garbage"
    BY <2>1, <2>2 DEF Garbage
  <2> QED
    BY <2>1, <2>3 DEF ChainOK
<1>2. CASE ~open
  <2> DEFINE longer == Append(lines, line)
  <2>1. PICK i \in 1..Len(lines) :
          ~(/\ lines[i].kind = "record"
            /\ verify_record_chain(lines[i], HashBefore(lines, i), i))
    BY DEF ChainOK
  <2>2. i \in 1..Len(longer) /\ longer[i] = lines[i]
    OBVIOUS
  <2>3. HashBefore(longer, i) = HashBefore(lines, i)
    BY DEF HashBefore
  <2>4. ~ChainOK(longer)
    BY <2>1, <2>2, <2>3 DEF ChainOK
  <2> QED
    BY <1>2, <2>4 DEF Extended
<1> QED
  BY <1>1, <1>2

(***************************************************************************)
(* A log that fails verification fails it for ever, whatever processes,    *)
(* threads, faults and restarts follow (audit.py, _append, the only code   *)
(* that writes the file).                                                  *)
(***************************************************************************)
THEOREM BreaksArePermanent == Spec => BreakIsPermanent
<1>1. Init => TypeInv
  BY TypeInit
<1>2. TypeInv /\ [Next]_vars => TypeInv'
  BY TypeLoggerStep, TypeWorkerStep, TypeStutter DEF Next
<1>3. TypeInv /\ [Next]_vars => [~ChainOK(file) => ~ChainOK(file')]_vars
  <2> SUFFICES ASSUME TypeInv, Next, ~ChainOK(file) PROVE ~ChainOK(file')
    OBVIOUS
  <2>1. ASSUME NEW l \in Loggers, LoggerStep(l) PROVE file' = file
    BY <2>1, LoggerFrame
  <2>2. ASSUME NEW w \in Workers, WorkerStep(w)
        PROVE  file' = file \/ \E line \in Lines : file' = Extended(file, openTail, line)
    <3>1. rec[w] \in Lines /\ rec[w] \in RecordLines
      BY DEF TypeInv, TypeOK, Lines
    <3>2. \A fragment \in Fragments(rec[w]) : fragment \in Lines
      <4>1. Garbage(NoKey) \in Lines /\ Garbage(rec[w].key) \in Lines
        BY <3>1 DEF Garbage, Lines, GarbageLines, RecordLines, MaybeKeys
      <4> QED
        BY <3>1, <4>1 DEF Fragments
    <3> QED
      BY <2>2, <3>1, <3>2
      DEF WorkerStep, EmitAttach, EmitAdvance, EmitAppend, AppendFails,
          SyncFails, AppendTorn, fileVars
  <2> QED
    BY <2>1, <2>2, ExtendedStaysBroken DEF Next, TypeInv, TypeOK
<1> QED
  BY <1>1, <1>2, <1>3, PTL DEF Spec, BreakIsPermanent
-----------------------------------------------------------------------------
(* What torn appends can take                                              *)

Holds(lines, b) == \E i \in 1..Len(lines) : lines[i].kind = "record" /\ lines[i].body = b

LastOf(lines) == lines[Len(lines)]

\* The event of a record that waits for its newline.
TailOf(lines, open) ==
  {b \in Nat : open /\ LastOf(lines).kind = "record" /\ LastOf(lines).body = b}

\* An append takes no event out of the file but that of an unfinished line.
LEMMA HeldOn ==
  ASSUME NEW lines \in Seq(Lines), NEW open \in BOOLEAN, NEW line \in Lines,
         open => lines # <<>>, NEW b \in Nat, Holds(lines, b), b \notin TailOf(lines, open)
  PROVE  Holds(Extended(lines, open, line), b)
<1>1. PICK i \in 1..Len(lines) : lines[i].kind = "record" /\ lines[i].body = b
  BY DEF Holds
<1>2. CASE open
  <2> DEFINE torn == [lines EXCEPT ![Len(lines)] = Garbage(lines[Len(lines)].key)]
  <2>1. i # Len(lines)
    BY <1>1, <1>2 DEF TailOf, LastOf
  <2>2. Len(torn) = Len(lines) /\ torn[i] = lines[i]
    BY <2>1
  <2>3. Extended(lines, open, line) = torn
    BY <1>2 DEF Extended
  <2> HIDE DEF torn
  <2> QED
    BY <1>1, <2>2, <2>3 DEF Holds
<1>3. CASE ~open
  <2>1. /\ Len(Append(lines, line)) = Len(lines) + 1
        /\ Append(lines, line)[i] = lines[i]
    OBVIOUS
  <2>2. i \in 1..(Len(lines) + 1)
    OBVIOUS
  <2> QED
    BY <1>1, <1>3, <2>1, <2>2 DEF Holds, Extended
<1> QED
  BY <1>2, <1>3

\* A record that is appended as a line of its own is in the file.
LEMMA HeldNow ==
  ASSUME NEW lines \in Seq(Lines), NEW line \in RecordLines
  PROVE  Holds(Extended(lines, FALSE, line), line.body)
<1> DEFINE longer == Append(lines, line)
<1>1. Len(longer) = Len(lines) + 1 /\ longer[Len(lines) + 1] = line
  OBVIOUS
<1>2. Len(lines) + 1 \in 1..Len(longer)
  OBVIOUS
<1>3. line.kind = "record"
  BY DEF RecordLines
<1>4. Extended(lines, FALSE, line) = longer
  BY DEF Extended
<1> HIDE DEF longer
<1> QED
  BY <1>1, <1>2, <1>3, <1>4 DEF Holds

\* The unfinished line after an append is a torn one, or the appended one.
LEMMA TailNow ==
  ASSUME NEW lines \in Seq(Lines), NEW open \in BOOLEAN, NEW line \in Lines,
         open => lines # <<>>,
         LastOf(Extended(lines, open, line)).kind = "record"
  PROVE  LastOf(Extended(lines, open, line)) = line
<1>1. CASE open
  <2> DEFINE torn == [lines EXCEPT ![Len(lines)] = Garbage(lines[Len(lines)].key)]
  <2>1. Len(lines) \in 1..Len(lines)
    BY <1>1
  <2>2. Len(torn) = Len(lines) /\ torn[Len(lines)].kind = "garbage"
    BY <2>1 DEF Garbage
  <2>3. Extended(lines, open, line) = torn
    BY <1>1 DEF Extended
  <2> HIDE DEF torn
  <2> QED
    BY <2>2, <2>3 DEF LastOf
<1>2. CASE ~open
  <2>1. /\ Len(Append(lines, line)) = Len(lines) + 1
        /\ Append(lines, line)[Len(lines) + 1] = line
    OBVIOUS
  <2> QED
    BY <1>2, <2>1 DEF LastOf, Extended
<1> QED
  BY <1>1, <1>2

\* What a cut leaves is a line, and a record only when it is the record.
LEMMA FragmentType ==
  ASSUME NEW line \in RecordLines, NEW fragment \in Fragments(line)
  PROVE  fragment \in Lines /\ (fragment.kind = "record" => fragment = line)
<1>1. \A k \in MaybeKeys : Garbage(k) \in Lines /\ Garbage(k).kind = "garbage"
  BY DEF Garbage, Lines, GarbageLines
<1>2. line \in Lines /\ line.key \in MaybeKeys /\ NoKey \in MaybeKeys
  BY DEF Lines, RecordLines, MaybeKeys
<1> QED
  BY <1>1, <1>2 DEF Fragments

Pending == TailOf(file, openTail)

(***************************************************************************)
(* Every call of emit has an event of its own: no two of those under way,  *)
(* those that returned, and the one of an unfinished line are the same.    *)
(***************************************************************************)
Fresh ==
  /\ returned \cup Pending \subseteq 1..emits
  /\ Pending \cap returned = {}
  /\ \A w \in Workers : pc[w] # "idle" =>
       /\ rec[w].body \in 1..emits
       /\ rec[w].body \notin returned \cup Pending
       /\ \A u \in Workers : pc[u] # "idle" /\ u # w => rec[u].body # rec[w].body

LEMMA FreshInit == Init => Fresh
BY DEF Init, Fresh, Pending, TailOf

LEMMA FreshWorker ==
  ASSUME TypeInv, Fresh, NEW w \in Workers, WorkerStep(w)
  PROVE  Fresh'
<1>0. emits \in Nat /\ returned \subseteq Nat /\ Pending \subseteq Nat
  BY BoundsAssumption DEF TypeInv, TypeOK, Pending, TailOf
<1>r. \A u \in Workers : rec[u] \in RecordLines /\ rec[u] \in Lines /\ rec[u].body \in Nat
  BY DEF TypeInv, TypeOK, Lines, RecordLines
<1>f. pc \in [Workers -> {"idle", "attached", "append"}] /\ rec \in [Workers -> RecordLines]
  BY DEF TypeInv, TypeOK
<1>1. CASE EmitAttach(w)
  <2>1. /\ emits' = emits + 1 /\ Pending' = Pending /\ returned' = returned
        /\ \A u \in Workers : u # w => rec'[u] = rec[u] /\ pc'[u] = pc[u]
    BY <1>1, <1>f DEF EmitAttach, fileVars, Pending
  <2>2. rec'[w].body = emits + 1
    BY <1>1, <1>f DEF EmitAttach, attach_chain_fields
  <2>3. \A b \in 1..emits : b \in 1..(emits + 1) /\ b # emits + 1
    BY <1>0
  <2>4. emits + 1 \in 1..(emits + 1)
    BY <1>0
  <2>5. returned' \cup Pending' \subseteq 1..emits' /\ Pending' \cap returned' = {}
    BY <2>1, <2>3 DEF Fresh
  <2>6. ASSUME NEW v \in Workers, pc'[v] # "idle"
        PROVE  /\ rec'[v].body \in 1..emits'
               /\ rec'[v].body \notin returned' \cup Pending'
               /\ \A u \in Workers : pc'[u] # "idle" /\ u # v => rec'[u].body # rec'[v].body
    <3>1. CASE v = w
      <4>1. emits + 1 \notin returned \cup Pending
        BY <2>3 DEF Fresh
      <4>2. \A u \in Workers : pc[u] # "idle" => rec[u].body # emits + 1
        BY <2>3 DEF Fresh
      <4> QED
        BY <2>1, <2>2, <2>4, <3>1, <4>1, <4>2
    <3>2. CASE v # w
      <4>1. /\ rec[v].body \in 1..emits /\ rec[v].body \notin returned \cup Pending
            /\ \A u \in Workers : pc[u] # "idle" /\ u # v => rec[u].body # rec[v].body
        BY <2>1, <2>6, <3>2 DEF Fresh
      <4> QED
        BY <2>1, <2>2, <2>3, <3>2, <4>1
    <3> QED
      BY <3>1, <3>2
  <2> QED
    BY <2>5, <2>6 DEF Fresh
<1>2. CASE EmitAdvance(w)
  <2>1. /\ UNCHANGED <<emits, returned, rec, file, openTail>>
        /\ \A u \in Workers : pc'[u] # "idle" => pc[u] # "idle"
    BY <1>2, <1>f DEF EmitAdvance, fileVars, histVars
  <2> QED
    BY <2>1 DEF Fresh, Pending
\* A call that is over, with its event among the returned ones, in the tail, or in neither.
<1>3. ASSUME pc[w] = "append", emits' = emits, EmitReturns(w),
             returned' \subseteq returned \cup {rec[w].body},
             Pending' \subseteq Pending \cup {rec[w].body},
             Pending' \subseteq Pending \/ returned' = returned
      PROVE  Fresh'
  <2>1. /\ pc'[w] = "idle"
        /\ \A u \in Workers : u # w => pc'[u] = pc[u] /\ rec'[u] = rec[u]
    BY <1>3, <1>f DEF EmitReturns
  <2>2. /\ rec[w].body \in 1..emits /\ rec[w].body \notin returned \cup Pending
        /\ \A u \in Workers : pc[u] # "idle" /\ u # w => rec[u].body # rec[w].body
    BY <1>3 DEF Fresh
  <2>3. returned' \cup Pending' \subseteq 1..emits' /\ Pending' \cap returned' = {}
    BY <1>3, <2>2 DEF Fresh
  <2>4. ASSUME NEW v \in Workers, pc'[v] # "idle"
        PROVE  /\ rec'[v].body \in 1..emits'
               /\ rec'[v].body \notin returned' \cup Pending'
               /\ \A u \in Workers : pc'[u] # "idle" /\ u # v => rec'[u].body # rec'[v].body
    <3>1. v # w /\ pc[v] # "idle" /\ rec'[v] = rec[v]
      BY <2>1, <2>4
    <3>2. /\ rec[v].body \in 1..emits /\ rec[v].body \notin returned \cup Pending
          /\ \A u \in Workers : pc[u] # "idle" /\ u # v => rec[u].body # rec[v].body
      BY <3>1 DEF Fresh
    <3>3. rec[v].body # rec[w].body
      BY <2>2, <3>1
    <3>4. ASSUME NEW u \in Workers, pc'[u] # "idle", u # v
          PROVE  rec'[u].body # rec'[v].body
      BY <2>1, <3>1, <3>2, <3>4
    <3> QED
      BY <1>3, <3>1, <3>2, <3>3, <3>4
  <2> QED
    BY <2>3, <2>4 DEF Fresh
<1>7. CASE SyncFails(w)
  <2>1. Pending' = {}
    BY <1>7 DEF SyncFails, Pending, TailOf
  <2>2. pc[w] = "append" /\ emits' = emits /\ EmitReturns(w) /\ returned' = returned
    BY <1>7 DEF SyncFails, histVars
  <2> QED
    BY <1>3, <2>1, <2>2
<1>4. CASE EmitAppend(w)
  <2>1. Pending' = {}
    BY <1>4 DEF EmitAppend, Pending, TailOf
  <2>2. /\ pc[w] = "append" /\ emits' = emits /\ EmitReturns(w)
        /\ returned' = returned \cup {rec[w].body}
    BY <1>4 DEF EmitAppend
  <2> QED
    BY <1>3, <2>1, <2>2
<1>5. CASE AppendFails(w)
  <2>1. Pending' = Pending /\ returned' = returned
    BY <1>5 DEF AppendFails, fileVars, Pending
  <2> QED
    BY <1>3, <1>5, <2>1 DEF AppendFails
<1>6. CASE AppendTorn(w)
  <2>1. PICK fragment \in Fragments(rec[w]) : file' = Extended(file, openTail, fragment)
    BY <1>6 DEF AppendTorn
  <2>2. fragment \in Lines /\ (fragment.kind = "record" => fragment = rec[w])
    BY <1>r, FragmentType
  <2>3. file \in Seq(Lines) /\ openTail \in BOOLEAN /\ (openTail => file # <<>>)
    BY DEF TypeInv, TypeOK
  <2>4. openTail' = TRUE
    BY <1>6 DEF AppendTorn
  <2>5. Pending' = TailOf(Extended(file, openTail, fragment), TRUE)
    BY <2>1, <2>4 DEF Pending
  <2>6. Pending' \subseteq {rec[w].body}
    <3> SUFFICES ASSUME NEW b \in TailOf(Extended(file, openTail, fragment), TRUE)
                 PROVE  b = rec[w].body
      BY <2>5
    <3>1. /\ LastOf(Extended(file, openTail, fragment)).kind = "record"
          /\ LastOf(Extended(file, openTail, fragment)).body = b
      BY DEF TailOf
    <3>2. LastOf(Extended(file, openTail, fragment)) = fragment
      BY <2>2, <2>3, <3>1, TailNow
    <3> QED
      BY <2>2, <3>1, <3>2
  <2>7. returned' = returned /\ Pending' \subseteq Pending \cup {rec[w].body}
    BY <1>6, <2>6 DEF AppendTorn
  <2> QED
    BY <1>3, <1>6, <2>7 DEF AppendTorn
<1> QED
  BY <1>1, <1>2, <1>4, <1>5, <1>6, <1>7 DEF WorkerStep

LEMMA FreshLogger ==
  ASSUME TypeInv, Fresh, NEW l \in Loggers, LoggerStep(l)
  PROVE  Fresh'
<1>1. /\ UNCHANGED <<file, openTail, emits, returned>>
      /\ \A w \in Workers : pc'[w] # "idle" => pc'[w] = pc[w] /\ rec'[w] = rec[w]
  BY LoggerFrame
<1> QED
  BY <1>1 DEF Fresh, Pending

LEMMA FreshAlways == Spec => [](TypeInv /\ Fresh)
<1>1. TypeInv /\ Fresh /\ [Next]_vars => TypeInv' /\ Fresh'
  <2>1. TypeInv /\ Fresh /\ UNCHANGED vars => Fresh'
    BY DEF vars, fileVars, emitVars, histVars, Fresh, Pending
  <2> QED
    BY <2>1, FreshWorker, FreshLogger, TypeLoggerStep, TypeWorkerStep, TypeStutter DEF Next
<1> QED
  BY <1>1, TypeInit, FreshInit, PTL DEF Spec

\* An unfinished line may still take one event.
Losable == IF openTail THEN 1 ELSE 0

FewLost == Cardinality(LostEvents) + Losable <= tears

LEMMA LostAreFew ==
  ASSUME TypeInv, Fresh
  PROVE  /\ IsFiniteSet(LostEvents) /\ Cardinality(LostEvents) \in Nat
         /\ \A b : b \in LostEvents <=> b \in returned /\ ~Holds(file, b)
<1>1. \A b : b \in LostEvents <=> b \in returned /\ ~Holds(file, b)
  BY DEF LostEvents, Holds
<1>2. IsFiniteSet(1..emits)
  BY FS_Interval, BoundsAssumption DEF TypeInv, TypeOK
<1>3. LostEvents \subseteq 1..emits
  BY <1>1 DEF Fresh
<1>4. IsFiniteSet(LostEvents)
  BY <1>2, <1>3, FS_Subset
<1> QED
  BY <1>1, <1>4, FS_CardinalityType

\* The step of an append, whole or torn.
LEMMA LostByAppend ==
  ASSUME TypeInv, Fresh, TypeInv', Fresh', FewLost, NEW w \in Workers,
         EmitAppend(w) \/ SyncFails(w) \/ AppendTorn(w)
  PROVE  FewLost'
<1>0. /\ file \in Seq(Lines) /\ openTail \in BOOLEAN /\ (openTail => file # <<>>)
      /\ tears \in Nat /\ returned \subseteq Nat
      /\ rec[w] \in RecordLines /\ rec[w] \in Lines /\ rec[w].body \in Nat
  BY BoundsAssumption DEF TypeInv, TypeOK, Lines, RecordLines
<1> DEFINE b == rec[w].body
           lost == Cardinality(LostEvents)
<1>1. /\ IsFiniteSet(LostEvents) /\ lost \in Nat
      /\ \A x : x \in LostEvents <=> x \in returned /\ ~Holds(file, x)
  BY LostAreFew
<1>2. /\ IsFiniteSet(LostEvents') /\ Cardinality(LostEvents') \in Nat
      /\ \A x : x \in LostEvents' <=> x \in returned' /\ ~Holds(file', x)
  <2>1. \A x : x \in LostEvents' <=> x \in returned' /\ ~Holds(file', x)
    BY DEF LostEvents, Holds
  <2>2. IsFiniteSet(1..emits')
    BY FS_Interval, BoundsAssumption DEF TypeInv, TypeOK
  <2>3. LostEvents' \subseteq 1..emits'
    BY <2>1 DEF Fresh
  <2>4. IsFiniteSet(LostEvents')
    BY <2>2, <2>3, FS_Subset
  <2> QED
    BY <2>1, <2>4, FS_CardinalityType
\* What was returned and is in the file stays in it.
<1>3. ASSUME NEW line \in Lines, file' = Extended(file, openTail, line),
             NEW x \in returned, Holds(file, x)
      PROVE  Holds(file', x)
  <2>1. x \in Nat /\ x \notin TailOf(file, openTail)
    BY <1>0 DEF Fresh, Pending
  <2> QED
    BY <1>0, <1>3, <2>1, HeldOn
<1>4. CASE EmitAppend(w) \/ SyncFails(w)
  <2>1. /\ file' = Extended(file, openTail, rec[w]) /\ openTail' = FALSE
        /\ returned \subseteq returned' /\ returned' \subseteq returned \cup {b}
        /\ tears' = tears
    BY <1>4 DEF EmitAppend, SyncFails, histVars
  <2>2. LostEvents' \subseteq LostEvents \cup {b}
    BY <1>0, <1>1, <1>2, <1>3, <2>1
  <2>3. CASE openTail
    <3>1. /\ IsFiniteSet(LostEvents \cup {b})
          /\ Cardinality(LostEvents \cup {b}) = lost \/ Cardinality(LostEvents \cup {b}) = lost + 1
      BY <1>1, FS_AddElement
    <3>2. Cardinality(LostEvents') <= Cardinality(LostEvents \cup {b})
      BY <2>2, <3>1, FS_Subset
    <3>3. Cardinality(LostEvents') <= lost + 1
      BY <1>1, <1>2, <3>1, <3>2
    <3>4. lost + 1 <= tears
      BY <2>3 DEF FewLost, Losable
    <3> QED
      BY <1>0, <1>1, <1>2, <2>1, <3>3, <3>4 DEF FewLost, Losable
  <2>4. CASE ~openTail
    <3>1. Holds(file', b)
      BY <1>0, <2>1, <2>4, HeldNow
    <3>2. LostEvents' \subseteq LostEvents
      BY <1>2, <2>2, <3>1
    <3>3. Cardinality(LostEvents') <= lost
      BY <1>1, <3>2, FS_Subset
    <3>4. lost <= tears
      BY <2>4, <1>0, <1>1 DEF FewLost, Losable
    <3> QED
      BY <1>0, <1>1, <1>2, <2>1, <3>3, <3>4 DEF FewLost, Losable
  <2> QED
    BY <1>0, <2>3, <2>4
<1>5. CASE AppendTorn(w)
  <2>1. PICK fragment \in Fragments(rec[w]) : file' = Extended(file, openTail, fragment)
    BY <1>5 DEF AppendTorn
  <2>2. fragment \in Lines
    BY <1>0, FragmentType
  <2>3. openTail' = TRUE /\ returned' = returned /\ tears' = tears + 1
    BY <1>5 DEF AppendTorn
  <2>4. LostEvents' \subseteq LostEvents
    BY <1>1, <1>2, <1>3, <2>1, <2>2, <2>3
  <2>5. Cardinality(LostEvents') <= lost
    BY <1>1, <2>4, FS_Subset
  <2>6. lost <= tears
    BY <1>0, <1>1 DEF FewLost, Losable
  <2> QED
    BY <1>0, <1>1, <1>2, <2>3, <2>5, <2>6 DEF FewLost, Losable
<1> QED
  BY <1>4, <1>5

(***************************************************************************)
(* For any processes, threads, faults and restarts: an event whose emit    *)
(* returned is in the log, but for at most one per torn append (audit.py,  *)
(* emit and _append).                                                      *)
(***************************************************************************)
THEOREM FewAreLost == Spec => []LossBoundedByTears
<1>1. Init => FewLost
  <2> SUFFICES ASSUME Init PROVE FewLost
    OBVIOUS
  <2>1. LostEvents = {}
    BY DEF Init, LostEvents
  <2>2. Cardinality(LostEvents) = 0
    BY <2>1, FS_EmptySet
  <2> QED
    BY <2>2 DEF Init, FewLost, Losable
<1>2. /\ TypeInv /\ Fresh /\ FewLost /\ [Next]_vars /\ TypeInv' /\ Fresh'
      => FewLost'
  <2> SUFFICES ASSUME TypeInv, Fresh, FewLost, [Next]_vars, TypeInv', Fresh'
               PROVE  FewLost'
    OBVIOUS
  <2>1. ASSUME UNCHANGED <<file, openTail, returned, tears>>
        PROVE  FewLost'
    BY <2>1 DEF FewLost, Losable, LostEvents
  <2>2. ASSUME NEW w \in Workers, EmitAttach(w) \/ EmitAdvance(w) \/ AppendFails(w)
        PROVE  UNCHANGED <<file, openTail, returned, tears>>
    BY <2>2 DEF EmitAttach, EmitAdvance, AppendFails, fileVars, histVars
  <2>3. ASSUME NEW l \in Loggers, LoggerStep(l)
        PROVE  UNCHANGED <<file, openTail, returned, tears>>
    BY <2>3, LoggerFrame
  <2>4. UNCHANGED vars => UNCHANGED <<file, openTail, returned, tears>>
    BY DEF vars, fileVars, histVars
  <2> QED
    BY <2>1, <2>2, <2>3, <2>4, LostByAppend DEF Next, WorkerStep
<1>3. TypeInv /\ Fresh /\ FewLost => LossBoundedByTears
  <2> SUFFICES ASSUME TypeInv, Fresh, FewLost PROVE LossBoundedByTears
    OBVIOUS
  <2>1. Cardinality(LostEvents) \in Nat /\ tears \in Nat
    BY LostAreFew, BoundsAssumption DEF TypeInv, TypeOK
  <2> QED
    BY <2>1 DEF FewLost, Losable, LossBoundedByTears
<1> QED
  BY <1>1, <1>2, <1>3, FreshAlways, PTL DEF Spec
-----------------------------------------------------------------------------
(* The offline verification, for every sequence of lines                   *)

(***************************************************************************)
(* What holds of the verification loop holds after every number of lines.  *)
(* Where the argument is by induction on that number, it takes the least   *)
(* number for which the statement fails, so that no operator has to be     *)
(* passed to a theorem.                                                    *)
(***************************************************************************)
LEMMA SmallestExists ==
  ASSUME NEW S \in SUBSET Nat, S # {}
  PROVE  \E m \in S : \A k \in S : m <= k
<1> DEFINE R == OpToRel(<, Nat)
<1>1. IsWellFoundedOn(R, Nat)
  BY NatLessThanWellFounded
<1>2. \A x, y \in Nat : <<y, x>> \in R <=> y < x
  BY DEF OpToRel
<1> HIDE DEF R
<1>3. PICK m \in S : \A k \in S : ~(<<k, m>> \in R)
  BY <1>1, WFMin
<1>4. ASSUME NEW k \in S PROVE m <= k
  BY <1>2, <1>3, ~(k < m)
<1> QED
  BY <1>4

LEMMA InductionBySets ==
  ASSUME NEW S \in SUBSET Nat, 0 \in S, NEW top \in Nat,
         \A n \in 1..top : n - 1 \in S => n \in S
  PROVE  0..top \subseteq S
<1> DEFINE Out == {n \in 0..top : n \notin S}
<1> SUFFICES ASSUME Out # {} PROVE FALSE
  OBVIOUS
<1>1. PICK m \in Out : \A k \in Out : m <= k
  BY SmallestExists, Out \in SUBSET Nat
<1>2. m \in 1..top /\ m - 1 \in 0..top
  BY <1>1
<1>3. m - 1 \in S
  BY <1>1, <1>2
<1> QED
  BY <1>1, <1>2, <1>3

VerdictTypes == [prev : Hashes, verified : Nat, errors : Nat, stopped : BOOLEAN]

\* f is what the loop computes after each of the first n lines.
RunsTo(f, lines, K, n) ==
  f = [i \in 0..n |->
         IF i = 0 THEN VerifyStart ELSE VerifyLine(f[i - 1], lines[i], K)]

LEMMA VerifyRuns ==
  ASSUME NEW lines, NEW K, NEW top \in Nat
  PROVE  \E f : RunsTo(f, lines, K, top)
<1> DEFINE S == {n \in Nat : \E f : RunsTo(f, lines, K, n)}
<1>1. 0 \in S
  <2> DEFINE f == [i \in 0..0 |-> VerifyStart]
  <2>1. RunsTo(f, lines, K, 0)
    BY DEF RunsTo
  <2> QED
    BY <2>1
<1>2. ASSUME NEW n \in 1..top, n - 1 \in S PROVE n \in S
  <2>1. PICK f : RunsTo(f, lines, K, n - 1)
    BY <1>2
  <2> DEFINE g == [i \in 0..n |-> IF i = n THEN VerifyLine(f[n - 1], lines[n], K)
                                           ELSE f[i]]
             step(h, i) == IF i = 0 THEN VerifyStart ELSE VerifyLine(h[i - 1], lines[i], K)
  <2>2. ASSUME NEW i \in 0..n PROVE g[i] = step(g, i)
    <3>1. CASE i = n
      <4>1. i # 0 /\ i - 1 \in 0..n /\ i - 1 # n
        BY <3>1
      <4> QED
        BY <3>1, <4>1
    <3>2. CASE i # n
      <4>1. i \in 0..(n - 1) /\ g[i] = f[i]
        BY <3>2
      <4>2. f[i] = step(f, i)
        BY <2>1, <4>1 DEF RunsTo
      <4>3. i # 0 => g[i - 1] = f[i - 1]
        BY <3>2
      <4> QED
        BY <4>1, <4>2, <4>3
    <3> QED
      BY <3>1, <3>2
  <2>3. g = [i \in 0..n |-> step(g, i)]
    BY <2>2
  <2>4. RunsTo(g, lines, K, n)
    BY <2>3 DEF RunsTo
  <2>5. n \in Nat
    OBVIOUS
  <2> QED
    BY <2>4, <2>5
<1> HIDE DEF S
<1>3. S \in SUBSET Nat
  BY DEF S
<1>4. top \in S
  BY <1>1, <1>2, <1>3, InductionBySets
<1> QED
  BY <1>4 DEF S

\* The equation the recursive definition stands for.
LEMMA VerdictsDef ==
  ASSUME NEW lines \in Seq(Lines), NEW K
  PROVE  /\ Verdicts(lines, K)[0] = VerifyStart
         /\ \A i \in 1..Len(lines) :
              Verdicts(lines, K)[i] =
                VerifyLine(Verdicts(lines, K)[i - 1], lines[i], K)
<1> DEFINE f == Verdicts(lines, K)
<1>0. Len(lines) \in Nat
  OBVIOUS
<1>1. \E g : RunsTo(g, lines, K, Len(lines))
  BY <1>0, VerifyRuns
<1>2. f = CHOOSE g : RunsTo(g, lines, K, Len(lines))
  BY DEF Verdicts, RunsTo
<1>3. RunsTo(f, lines, K, Len(lines))
  BY <1>1, <1>2
<1> HIDE DEF f
<1>4. /\ f[0] = VerifyStart
      /\ \A i \in 1..Len(lines) : f[i] = VerifyLine(f[i - 1], lines[i], K)
  BY <1>3 DEF RunsTo
<1> QED
  BY <1>4 DEF f

LEMMA VerifyLineType ==
  ASSUME NEW v \in VerdictTypes, NEW line \in Lines, NEW K \in MaybeKeys
  PROVE  /\ VerifyLine(v, line, K) \in VerdictTypes
         /\ VerifyLine(v, line, K).errors >= v.errors
<1>1. CASE ~Legible(line, K) \/ v.stopped
  BY <1>1 DEF VerifyLine, VerdictTypes
<1>2. CASE Legible(line, K) /\ ~v.stopped
  <2>1. line \in RecordLines
    BY <1>2 DEF Lines, GarbageLines, Legible
  <2>2. line.hash \in Hashes
    BY <2>1 DEF RecordLines
  <2>3. \/ VerifyLine(v, line, K) =
              [v EXCEPT !.prev = line.hash, !.verified = v.verified + 1]
        \/ VerifyLine(v, line, K) =
              [v EXCEPT !.errors = v.errors + 1, !.stopped = TRUE]
    BY <1>2 DEF VerifyLine
  <2>4. ASSUME NEW u, u = [v EXCEPT !.prev = line.hash, !.verified = v.verified + 1]
        PROVE  u \in VerdictTypes /\ u.errors >= v.errors
    <3>1. PICK t : t = [v EXCEPT !.prev = line.hash]
      OBVIOUS
    <3>2. t \in VerdictTypes /\ t.verified = v.verified /\ t.errors = v.errors
      BY <2>2, <3>1 DEF VerdictTypes
    <3>3. u = [t EXCEPT !.verified = v.verified + 1]
      BY <2>4, <3>1
    <3> QED
      BY <3>2, <3>3 DEF VerdictTypes
  <2>5. ASSUME NEW u, u = [v EXCEPT !.errors = v.errors + 1, !.stopped = TRUE]
        PROVE  u \in VerdictTypes /\ u.errors >= v.errors
    <3>1. u = [prev |-> v.prev, verified |-> v.verified, errors |-> v.errors + 1,
               stopped |-> TRUE]
      BY <2>5 DEF VerdictTypes
    <3> QED
      BY <3>1 DEF VerdictTypes
  <2> QED
    BY <2>3, <2>4, <2>5
<1> QED
  BY <1>1, <1>2

LEMMA VerdictsType ==
  ASSUME NEW lines \in Seq(Lines), NEW K \in MaybeKeys, NEW n \in 0..Len(lines)
  PROVE  Verdicts(lines, K)[n] \in VerdictTypes
<1> DEFINE S == {k \in 0..Len(lines) : Verdicts(lines, K)[k] \in VerdictTypes}
<1>1. Len(lines) \in Nat /\ S \in SUBSET Nat
  OBVIOUS
<1>2. 0 \in S
  <2>1. VerifyStart \in VerdictTypes
    BY GenesisType DEF VerifyStart, VerdictTypes
  <2> QED
    BY <2>1, VerdictsDef
<1>3. ASSUME NEW k \in 1..Len(lines), k - 1 \in S PROVE k \in S
  <2>1. lines[k] \in Lines
    OBVIOUS
  <2> QED
    BY <1>3, <2>1, VerdictsDef, VerifyLineType
<1> HIDE DEF S
<1>4. 0..Len(lines) \subseteq S
  BY <1>1, <1>2, <1>3, InductionBySets
<1> QED
  BY <1>4 DEF S

\* Line i is a record the verifier can read, and it continues the one before it.
LineOK(lines, K, i) ==
  /\ lines[i].kind = "record"
  /\ lines[i].key \in {NoKey, K}
  /\ verify_record_chain(lines[i], HashBefore(lines, i), i)

(***************************************************************************)
(* After n lines there is no error exactly when each of them is as it      *)
(* should be, and then the loop has counted them all and stands at the     *)
(* hash the next line must have.                                           *)
(***************************************************************************)
ExactAfter(lines, K, n) ==
  LET v == Verdicts(lines, K)[n] IN
  /\ v.errors = 0 <=> \A i \in 1..n : LineOK(lines, K, i)
  /\ v.errors = 0 =>
       v.verified = n /\ v.prev = HashBefore(lines, n + 1) /\ ~v.stopped

LEMMA VerdictsExact ==
  ASSUME NEW lines \in Seq(Lines), NEW K \in MaybeKeys, NEW n \in 0..Len(lines)
  PROVE  ExactAfter(lines, K, n)
<1> DEFINE S == {k \in 0..Len(lines) : ExactAfter(lines, K, k)}
<1>1. Len(lines) \in Nat /\ S \in SUBSET Nat
  OBVIOUS
<1>2. 0 \in S
  BY VerdictsDef DEF VerifyStart, ExactAfter, HashBefore
<1>3. ASSUME NEW k \in 1..Len(lines), k - 1 \in S PROVE k \in S
  <2> DEFINE u == Verdicts(lines, K)[k - 1]
             v == Verdicts(lines, K)[k]
  <2>1. lines[k] \in Lines /\ k - 1 \in 0..Len(lines)
    OBVIOUS
  <2>2. v = VerifyLine(u, lines[k], K)
    BY VerdictsDef
  <2>3. u \in VerdictTypes /\ v \in VerdictTypes
    BY <2>1, VerdictsType
  <2>4. /\ u.errors = 0 <=> \A i \in 1..(k - 1) : LineOK(lines, K, i)
        /\ u.errors = 0 =>
             u.verified = k - 1 /\ u.prev = HashBefore(lines, k) /\ ~u.stopped
    BY <1>3 DEF ExactAfter
  <2>5. \A i \in 1..k : i = k \/ i \in 1..(k - 1)
    OBVIOUS
  <2> HIDE DEF u, v
  <2>6. CASE u.errors # 0
    <3>1. v.errors # 0
      <4>1. v.errors >= u.errors
        BY <2>1, <2>2, <2>3, VerifyLineType
      <4>2. u.errors \in Nat /\ v.errors \in Nat
        BY <2>3 DEF VerdictTypes
      <4> QED
        BY <2>6, <4>1, <4>2
    <3>2. ~\A i \in 1..k : LineOK(lines, K, i)
      BY <2>4, <2>6
    <3> QED
      BY <3>1, <3>2 DEF ExactAfter, v
  <2>7. CASE u.errors = 0
    <3>1. /\ u.verified + 1 = k /\ u.prev = HashBefore(lines, k) /\ ~u.stopped
          /\ \A i \in 1..k : i # k => LineOK(lines, K, i)
      BY <2>4, <2>5, <2>7
    <3>2. lines[k].kind = "record" \/ lines[k].kind = "garbage"
      BY <2>1 DEF Lines, RecordLines, GarbageLines
    <3>3. CASE LineOK(lines, K, k)
      <4>1. v = [u EXCEPT !.prev = lines[k].hash, !.verified = @ + 1]
        BY <2>2, <3>1, <3>3 DEF VerifyLine, Legible, LineOK
      <4>2. v.errors = 0 /\ v.verified = k /\ v.prev = lines[k].hash /\ ~v.stopped
        BY <2>3, <2>7, <3>1, <4>1 DEF VerdictTypes
      <4>3. HashBefore(lines, k + 1) = lines[k].hash
        BY DEF HashBefore
      <4> QED
        BY <3>1, <3>3, <4>2, <4>3 DEF ExactAfter, v
    <3>4. CASE ~LineOK(lines, K, k)
      <4>1. v.errors = u.errors + 1
        BY <2>1, <2>2, <2>3, <3>1, <3>2, <3>4 DEF VerifyLine, Legible, LineOK, VerdictTypes
      <4> QED
        BY <2>7, <3>4, <4>1 DEF ExactAfter, v
    <3> QED
      BY <3>3, <3>4
  <2> QED
    BY <2>6, <2>7
<1> HIDE DEF S
<1>4. 0..Len(lines) \subseteq S
  BY <1>1, <1>2, <1>3, InductionBySets
<1> QED
  BY <1>4 DEF S

(***************************************************************************)
(* verify-audit succeeds exactly on the files every line of which it can   *)
(* read and which are one chain (chain.py, verify_audit_chain; cli.py,     *)
(* verify_audit_cmd), for every file whatever.                             *)
(***************************************************************************)
THEOREM VerifierIsExact ==
  ASSUME NEW lines \in Seq(Lines), NEW K \in MaybeKeys
  PROVE  VerifyOK(lines, K) <=> \A i \in 1..Len(lines) : LineOK(lines, K, i)
<1> DEFINE v == Verdicts(lines, K)[Len(lines)]
<1>1. Len(lines) \in 0..Len(lines) /\ (lines # <<>> => Len(lines) > 0)
  OBVIOUS
<1>2. /\ v.errors = 0 <=> \A i \in 1..Len(lines) : LineOK(lines, K, i)
      /\ v.errors = 0 => v.verified = Len(lines)
  BY <1>1, VerdictsExact DEF ExactAfter
<1>3. VerifyOK(lines, K) <=> v.errors = 0 /\ (v.verified > 0 \/ lines = <<>>)
  BY DEF VerifyOK, verify_audit_chain
<1> HIDE DEF v
<1> QED
  BY <1>1, <1>2, <1>3

\* Those are the files that are one chain, with no line of another key.
LEMMA ChainIsOK ==
  ASSUME NEW lines \in Seq(Lines), NEW K \in MaybeKeys
  PROVE  VerifyOK(lines, K) <=>
           ChainOK(lines) /\ \A i \in 1..Len(lines) : lines[i].key \in {NoKey, K}
<1>1. VerifyOK(lines, K) <=> \A i \in 1..Len(lines) : LineOK(lines, K, i)
  BY VerifierIsExact
<1> QED
  BY <1>1 DEF LineOK, ChainOK

(***************************************************************************)
(* The command's verdict on the log is the reference definition's, at      *)
(* every moment, whatever processes, threads, faults and restarts wrote    *)
(* the log (chain.py, verify_audit_chain).                                 *)
(***************************************************************************)
THEOREM VerdictIsExact == Spec => []VerifyIsExact
<1>1. TypeOK => VerifyIsExact
  BY ChainIsOK DEF TypeOK, VerifyIsExact
<1> QED
  BY <1>1, TypeCorrect, PTL

-----------------------------------------------------------------------------
(* Edits of a log                                                          *)

\* Taking a line out puts the next one where its number does not fit.
LEMMA RemovalBreaks ==
  ASSUME NEW lines \in Seq(Lines), ChainOK(lines), NEW i \in 1..(Len(lines) - 1)
  PROVE  RemoveAt(lines, i) \in Seq(Lines) /\ ~ChainOK(RemoveAt(lines, i))
<1> DEFINE head == SubSeq(lines, 1, i - 1)
           rest == SubSeq(lines, i + 1, Len(lines))
<1>1. /\ head \in Seq(Lines) /\ Len(head) = i - 1
      /\ rest \in Seq(Lines) /\ Len(rest) = Len(lines) - i /\ rest[1] = lines[i + 1]
  OBVIOUS
<1> HIDE DEF head, rest
<1>2. /\ head \o rest \in Seq(Lines) /\ i \in 1..Len(head \o rest)
      /\ (head \o rest)[i] = lines[i + 1]
  BY <1>1
<1>3. lines[i + 1].seq = i + 1
  BY DEF ChainOK, verify_record_chain
<1>4. ~ChainOK(head \o rest)
  BY <1>2, <1>3 DEF ChainOK, verify_record_chain
<1> QED
  BY <1>2, <1>4 DEF RemoveAt, head, rest

\* So does exchanging two lines.
LEMMA ExchangeBreaks ==
  ASSUME NEW lines \in Seq(Lines), ChainOK(lines),
         NEW i \in 1..Len(lines), NEW j \in 1..Len(lines), i < j
  PROVE  LET other == [lines EXCEPT ![i] = lines[j], ![j] = lines[i]]
         IN  other \in Seq(Lines) /\ ~ChainOK(other)
<1> DEFINE other == [lines EXCEPT ![i] = lines[j], ![j] = lines[i]]
<1>1. other \in Seq(Lines) /\ Len(other) = Len(lines) /\ other[i] = lines[j]
  OBVIOUS
<1>2. lines[j].seq = j
  BY DEF ChainOK, verify_record_chain
<1> HIDE DEF other
<1>3. ~ChainOK(other)
  BY <1>1, <1>2 DEF ChainOK, verify_record_chain
<1> QED
  BY <1>1, <1>3 DEF other

\* A record with another payload no longer has the hash of its payload.
LEMMA RewritingBreaks ==
  ASSUME NEW lines \in Seq(Lines), ChainOK(lines), NEW i \in 1..Len(lines),
         NEW b \in Nat, lines[i].body # b
  PROVE  LET other == [lines EXCEPT ![i].body = b]
         IN  other \in Seq(Lines) /\ ~ChainOK(other)
<1> DEFINE line == [lines[i] EXCEPT !.body = b]
           other == [lines EXCEPT ![i] = line]
<1>1. lines[i].kind = "record" /\ verify_record_chain(lines[i], HashBefore(lines, i), i)
  BY DEF ChainOK
<1>2. lines[i] \in RecordLines
  BY <1>1 DEF Lines, GarbageLines
<1>3. line \in Lines
  BY <1>2 DEF Lines, RecordLines
<1>4. line.body = b /\ line.hash = lines[i].hash
  BY <1>2 DEF RecordLines
<1> HIDE DEF line
<1>5. /\ other \in Seq(Lines) /\ Len(other) = Len(lines) /\ other[i] = line
      /\ \A k \in 1..Len(lines) : k # i => other[k] = lines[k]
  BY <1>3
<1> HIDE DEF other
<1>6. HashBefore(other, i) = HashBefore(lines, i) /\ HashBefore(lines, i) \in Hashes
  <2>1. CASE i = 1
    BY <2>1, GenesisType DEF HashBefore
  <2>2. CASE i # 1
    <3>1. i - 1 \in 1..Len(lines) /\ i - 1 # i
      BY <2>2
    <3>2. lines[i - 1] \in RecordLines
      BY <3>1 DEF ChainOK, Lines, GarbageLines
    <3> QED
      BY <1>5, <2>2, <3>1, <3>2 DEF HashBefore, RecordLines
  <2> QED
    BY <2>1, <2>2
<1>7. compute_entry_hash(HashBefore(lines, i), b)
        # compute_entry_hash(HashBefore(lines, i), lines[i].body)
  <2>1. HashBefore(lines, i) \in Seq(Nat) /\ lines[i].body \in Nat
    BY <1>2, <1>6 DEF Hashes, RecordLines
  <2> QED
    BY <2>1 DEF compute_entry_hash
<1>8. ~ChainOK(other)
  <2>1. SUFFICES ASSUME ChainOK(other) PROVE FALSE
    OBVIOUS
  <2>2. verify_record_chain(line, HashBefore(other, i), i)
    BY <1>5, <2>1 DEF ChainOK
  <2> QED
    BY <1>1, <1>4, <1>6, <1>7, <2>2 DEF verify_record_chain
<1> QED
  BY <1>5, <1>8 DEF other, line

\* No record of the file has a payload that was not emitted yet.
Emitted == \A i \in 1..Len(file) : file[i].kind = "record" => file[i].body <= emits

LEMMA ExtendedEmitted ==
  ASSUME NEW lines \in Seq(Lines), NEW open \in BOOLEAN, NEW line \in Lines,
         open => lines # <<>>, NEW most \in Nat,
         \A i \in 1..Len(lines) : lines[i].kind = "record" => lines[i].body <= most,
         line.kind = "record" => line.body <= most
  PROVE  \A i \in 1..Len(Extended(lines, open, line)) :
           Extended(lines, open, line)[i].kind = "record" =>
             Extended(lines, open, line)[i].body <= most
<1>1. CASE open
  <2> DEFINE torn == [lines EXCEPT ![Len(lines)] = Garbage(lines[Len(lines)].key)]
  <2>1. /\ Len(torn) = Len(lines)
        /\ \A i \in 1..Len(lines) :
             torn[i] = lines[i] \/ torn[i] = Garbage(lines[Len(lines)].key)
    BY <1>1
  <2>2. Extended(lines, open, line) = torn
    BY <1>1 DEF Extended
  <2> HIDE DEF torn
  <2> QED
    BY <2>1, <2>2 DEF Garbage
<1>2. CASE ~open
  <2>1. /\ Len(Append(lines, line)) = Len(lines) + 1
        /\ \A i \in 1..(Len(lines) + 1) :
             Append(lines, line)[i] = IF i = Len(lines) + 1 THEN line ELSE lines[i]
    OBVIOUS
  <2>2. \A i \in 1..(Len(lines) + 1) : i = Len(lines) + 1 \/ i \in 1..Len(lines)
    OBVIOUS
  <2> QED
    BY <1>2, <2>1, <2>2 DEF Extended
<1> QED
  BY <1>1, <1>2

\* Every append is of a line that is torn or is the record under way.
LEMMA FileStep ==
  ASSUME TypeInv, [Next]_vars
  PROVE  \/ UNCHANGED <<file, openTail, tears>> /\ (emits' = emits \/ emits' = emits + 1)
         \/ /\ emits' = emits
            /\ \E w \in Workers, line \in Lines :
                 /\ pc[w] = "append"
                 /\ file' = Extended(file, openTail, line)
                 /\ line.kind = "record" => line = rec[w]
                 /\ \/ openTail' = FALSE /\ tears' = tears /\ line = rec[w]
                    \/ openTail' = TRUE /\ tears' = tears + 1
<1>1. ASSUME NEW l \in Loggers, LoggerStep(l)
      PROVE  UNCHANGED <<file, openTail, tears, emits>>
  BY <1>1, LoggerFrame
<1>2. UNCHANGED vars => UNCHANGED <<file, openTail, tears, emits>>
  BY DEF vars, fileVars, histVars
<1>3. ASSUME NEW w \in Workers, EmitAttach(w) \/ EmitAdvance(w) \/ AppendFails(w)
      PROVE  UNCHANGED <<file, openTail, tears>> /\ (emits' = emits \/ emits' = emits + 1)
  BY <1>3 DEF EmitAttach, EmitAdvance, AppendFails, fileVars, histVars
<1>4. ASSUME NEW w \in Workers, EmitAppend(w) \/ SyncFails(w) \/ AppendTorn(w)
      PROVE  /\ emits' = emits
             /\ \E line \in Lines :
                  /\ pc[w] = "append"
                  /\ file' = Extended(file, openTail, line)
                  /\ line.kind = "record" => line = rec[w]
                  /\ \/ openTail' = FALSE /\ tears' = tears /\ line = rec[w]
                     \/ openTail' = TRUE /\ tears' = tears + 1
  <2>1. rec[w] \in RecordLines /\ rec[w] \in Lines
    BY DEF TypeInv, TypeOK, Lines
  <2>2. CASE EmitAppend(w) \/ SyncFails(w)
    BY <2>1, <2>2 DEF EmitAppend, SyncFails, histVars
  <2>3. CASE AppendTorn(w)
    <3>1. PICK fragment \in Fragments(rec[w]) : file' = Extended(file, openTail, fragment)
      BY <2>3 DEF AppendTorn
    <3>2. fragment \in Lines /\ (fragment.kind = "record" => fragment = rec[w])
      BY <2>1, FragmentType
    <3> QED
      BY <2>3, <3>1, <3>2 DEF AppendTorn
  <2> QED
    BY <1>4, <2>2, <2>3
<1> QED
  BY <1>1, <1>2, <1>3, <1>4 DEF Next, WorkerStep

(***************************************************************************)
(* Removing a line, exchanging two or rewriting a payload is detected by   *)
(* verify-audit in every log the program can have written (chain.py,       *)
(* verify_record_chain), for any processes, threads and faults.            *)
(***************************************************************************)
THEOREM EditsDetected == Spec => []EditsAreDetected
<1>1. Init => Emitted
  BY DEF Init, Emitted
<1>2. TypeInv /\ Fresh /\ Emitted /\ [Next]_vars => Emitted'
  <2> SUFFICES ASSUME TypeInv, Fresh, Emitted, [Next]_vars PROVE Emitted'
    OBVIOUS
  <2>0. /\ emits \in Nat /\ file \in Seq(Lines) /\ openTail \in BOOLEAN
        /\ openTail => file # <<>>
        /\ \A i \in 1..Len(file) : file[i].kind = "record" => file[i].body \in Nat
    <3>1. \A i \in 1..Len(file) : file[i].kind = "record" => file[i] \in RecordLines
      BY DEF TypeInv, TypeOK, Lines, GarbageLines
    <3> QED
      BY <3>1, BoundsAssumption DEF TypeInv, TypeOK, RecordLines
  <2>1. CASE file' = file /\ (emits' = emits \/ emits' = emits + 1)
    BY <2>0, <2>1 DEF Emitted
  <2>2. ASSUME emits' = emits, NEW w \in Workers, NEW line \in Lines, pc[w] = "append",
               file' = Extended(file, openTail, line), line.kind = "record" => line = rec[w]
        PROVE  Emitted'
    <3>1. rec[w].body <= emits
      BY <2>0, <2>2 DEF Fresh
    <3> QED
      BY <2>0, <2>2, <3>1, ExtendedEmitted DEF Emitted
  <2> QED
    BY <2>1, <2>2, FileStep
<1>3. TypeInv /\ Emitted => EditsAreDetected
  <2> SUFFICES ASSUME TypeInv, Emitted, ChainOK(file), NEW k \in MaybeKeys
               PROVE  /\ \A i \in 1..(Len(file) - 1) : ~VerifyOK(RemoveAt(file, i), k)
                      /\ \A i, j \in 1..Len(file) : i < j =>
                           ~VerifyOK([file EXCEPT ![i] = file[j], ![j] = file[i]], k)
                      /\ \A i \in 1..Len(file) :
                           ~VerifyOK([file EXCEPT ![i].body = MaxEmits + 1], k)
    BY DEF EditsAreDetected
  <2>1. file \in Seq(Lines) /\ emits \in Nat /\ emits <= MaxEmits /\ MaxEmits \in Nat
    BY BoundsAssumption DEF TypeInv, TypeOK
  <2>2. ASSUME NEW i \in 1..Len(file)
        PROVE  file[i].body # MaxEmits + 1
    BY <2>1 DEF Emitted, ChainOK
  <2>3. \A i \in 1..(Len(file) - 1) : ~VerifyOK(RemoveAt(file, i), k)
    BY <2>1, RemovalBreaks, ChainIsOK
  <2>4. ASSUME NEW i \in 1..Len(file), NEW j \in 1..Len(file), i < j
        PROVE  ~VerifyOK([file EXCEPT ![i] = file[j], ![j] = file[i]], k)
    BY <2>1, <2>4, ExchangeBreaks, ChainIsOK
  <2>5. ASSUME NEW i \in 1..Len(file)
        PROVE  ~VerifyOK([file EXCEPT ![i].body = MaxEmits + 1], k)
    <3> DEFINE other == [file EXCEPT ![i].body = MaxEmits + 1]
    <3>1. other \in Seq(Lines) /\ ~ChainOK(other)
      <4>1. file[i].body # MaxEmits + 1 /\ MaxEmits + 1 \in Nat
        BY <2>1, <2>2
      <4> QED
        BY <2>1, <4>1, RewritingBreaks
    <3> HIDE DEF other
    <3>2. ~VerifyOK(other, k)
      BY <3>1, ChainIsOK
    <3> QED
      BY <3>2 DEF other
  <2> QED
    BY <2>3, <2>4, <2>5
<1> QED
  BY <1>1, <1>2, <1>3, FreshAlways, PTL DEF Spec

-----------------------------------------------------------------------------
(* The restore loop and the verifier                                       *)

\* The verdict on a prefix is the loop's verdict after as many lines.
LEMMA VerdictOfPrefix ==
  ASSUME NEW lines \in Seq(Lines), NEW K, NEW p \in 0..Len(lines)
  PROVE  verify_audit_chain(SubSeq(lines, 1, p), K) = Verdicts(lines, K)[p]
<1> DEFINE short == SubSeq(lines, 1, p)
           S == {n \in 0..p : Verdicts(short, K)[n] = Verdicts(lines, K)[n]}
<1>1. /\ short \in Seq(Lines) /\ Len(short) = p
      /\ \A n \in 1..p : short[n] = lines[n]
  OBVIOUS
<1> HIDE DEF short
<1>2. 0 \in S
  BY <1>1, VerdictsDef
<1>3. ASSUME NEW n \in 1..p, n - 1 \in S PROVE n \in S
  <2>1. Verdicts(short, K)[n] = VerifyLine(Verdicts(short, K)[n - 1], short[n], K)
    BY <1>1, VerdictsDef
  <2>2. Verdicts(lines, K)[n] = VerifyLine(Verdicts(lines, K)[n - 1], lines[n], K)
    BY VerdictsDef
  <2> QED
    BY <1>1, <1>3, <2>1, <2>2
<1> HIDE DEF S
<1>4. p \in S
  <2>1. S \in SUBSET Nat /\ p \in Nat /\ p \in 0..p
    BY DEF S
  <2> QED
    BY <2>1, <1>2, <1>3, InductionBySets
<1>5. Verdicts(short, K)[p] = Verdicts(lines, K)[p]
  BY <1>4 DEF S
<1> QED
  BY <1>1, <1>5 DEF verify_audit_chain, short

\* A loop that stopped has its verdict.
LEMMA StoppedStays ==
  ASSUME NEW lines \in Seq(Lines), NEW K, NEW n \in 0..Len(lines),
         Verdicts(lines, K)[n].stopped
  PROVE  Verdicts(lines, K)[Len(lines)] = Verdicts(lines, K)[n]
<1> DEFINE v == Verdicts(lines, K)
           S == {k \in 0..Len(lines) : k < n \/ v[k] = v[n]}
<1> HIDE DEF v
<1>1. 0 \in S
  OBVIOUS
<1>2. ASSUME NEW k \in 1..Len(lines), k - 1 \in S PROVE k \in S
  <2>1. v[k] = VerifyLine(v[k - 1], lines[k], K) /\ v[n].stopped
    BY VerdictsDef DEF v
  <2>2. CASE k <= n
    BY <2>2
  <2>3. CASE k > n
    BY <1>2, <2>1, <2>3 DEF VerifyLine
  <2> QED
    BY <2>2, <2>3
<1> HIDE DEF S
<1>3. Len(lines) \in S
  <2>1. S \in SUBSET Nat /\ Len(lines) \in Nat /\ Len(lines) \in 0..Len(lines)
    BY DEF S
  <2> QED
    BY <2>1, <1>1, <1>2, InductionBySets
<1>4. v[Len(lines)] = v[n]
  BY <1>3 DEF S
<1> QED
  BY <1>4 DEF v

HasGarbage(lines) == \E i \in 1..Len(lines) : lines[i].kind = "garbage"

LEMMA IllegibleIsRejected ==
  ASSUME NEW lines \in Seq(Lines), NEW K \in MaybeKeys,
         NEW i \in 1..Len(lines), ~Legible(lines[i], K)
  PROVE  ~VerifyOK(lines, K)
BY VerifierIsExact DEF Legible, LineOK

(***************************************************************************)
(* The strengthening of RestoreAgreesWithVerify: the restore loop runs in  *)
(* step with the verification of the lines it read, and is at their end    *)
(* when the verification has stopped; a call of emit is under way only in  *)
(* a process that has restored; and only a torn append leaves a line that  *)
(* cannot be parsed, in the file or in what a process read of it.          *)
(***************************************************************************)
InStep(l) ==
  LET v == Verdicts(snap[l], key[l])[pos[l]] IN
  /\ pos[l] <= Len(snap[l])
  /\ seq[l] = v.verified
  /\ prev[l] = v.prev
  /\ v.stopped => pos[l] = Len(snap[l])

Restored(l) ==
  /\ st[l] = "down" => seq[l] = 0 /\ prev[l] = GENESIS_HASH /\ pos[l] = 0
  /\ st[l] = "restoring" => InStep(l)
  /\ st[l] = "failed" =>
       /\ ~VerifyOK(snap[l], key[l])
       /\ tears > 0 \/ \E i \in 1..Len(snap[l]) : snap[l][i].key \notin {NoKey, key[l]}

TornByAppends ==
  openTail \/ HasGarbage(file) \/ (\E l \in Loggers : HasGarbage(snap[l])) => tears > 0

RestoreInv ==
  /\ \A w \in Workers : pc[w] # "idle" => st[w[1]] = "running"
  /\ TornByAppends
  /\ \A l \in Loggers : Restored(l)

LEMMA RestoreInit == Init => RestoreInv
BY DEF Init, RestoreInv, TornByAppends, HasGarbage, Restored

\* What one iteration of the restore loop does, next to one of the verifier.
LEMMA RestoreInStep ==
  ASSUME TypeInv, NEW l \in Loggers, st[l] = "restoring", InStep(l),
         RestoreSkip(l) \/ RestoreRecord(l)
  PROVE  InStep(l)'
<1> DEFINE lines == snap[l]
           K == key[l]
           u == Verdicts(lines, K)[pos[l]]
           v == Verdicts(lines, K)[pos[l] + 1]
           line == lines[pos[l] + 1]
<1>1. /\ lines \in Seq(Lines) /\ K \in MaybeKeys
      /\ pos[l] \in Nat /\ pos[l] < Len(lines) /\ Len(lines) \in Nat
      /\ pos \in [Loggers -> Nat] /\ seq \in [Loggers -> Nat] /\ prev \in [Loggers -> Hashes]
  BY DEF RestoreSkip, RestoreRecord, Restoring, TypeInv, TypeOK
<1>2. UNCHANGED <<st, key, snap>>
  BY DEF RestoreSkip, RestoreRecord
<1>3. /\ seq[l] = u.verified /\ prev[l] = u.prev /\ ~u.stopped
  BY <1>1 DEF InStep
<1>4. v = VerifyLine(u, line, K) /\ line \in Lines /\ NextLine(l) = line
  <2>1. pos[l] + 1 \in 1..Len(lines) /\ (pos[l] + 1) - 1 = pos[l]
    BY <1>1
  <2> QED
    BY <1>1, <2>1, VerdictsDef DEF NextLine
<1>5. u \in VerdictTypes /\ v \in VerdictTypes
  <2>1. pos[l] \in 0..Len(lines) /\ pos[l] + 1 \in 0..Len(lines)
    BY <1>1
  <2> QED
    BY <1>1, <2>1, VerdictsType
<1> HIDE DEF u, v, line
<1>6. CASE RestoreSkip(l)
  <2>1. ~Legible(line, K)
    BY <1>4, <1>6 DEF RestoreSkip, Skipped, Sealed, Legible
  <2>2. v = [u EXCEPT !.errors = @ + 1]
    BY <1>3, <1>4, <2>1 DEF VerifyLine
  <2>3. v.verified = u.verified /\ v.prev = u.prev /\ ~v.stopped
    BY <1>3, <1>5, <2>2 DEF VerdictTypes
  <2>4. pos'[l] = pos[l] + 1 /\ UNCHANGED <<seq, prev>>
    BY <1>1, <1>6 DEF RestoreSkip
  <2>5. Verdicts(snap'[l], key'[l])[pos'[l]] = v
    BY <1>2, <2>4 DEF v
  <2> QED
    BY <1>1, <1>2, <1>3, <2>3, <2>4, <2>5 DEF InStep
<1>7. CASE RestoreRecord(l)
  <2>1. Legible(line, K)
    BY <1>4, <1>7
    DEF RestoreRecord, Readable, Undecryptable, Skipped, Sealed, Legible, Lines, RecordLines,
        GarbageLines
  <2>2. CASE verify_record_chain(line, prev[l], seq[l] + 1)
    <3>1. /\ prev'[l] = line.hash /\ seq'[l] = line.seq /\ pos'[l] = pos[l] + 1
      BY <1>1, <1>4, <1>7, <2>2 DEF RestoreRecord
    <3>2. line.seq = u.verified + 1
      BY <1>3, <2>2 DEF verify_record_chain
    <3>3. v = [u EXCEPT !.prev = line.hash, !.verified = @ + 1]
      BY <1>3, <1>4, <2>1, <2>2 DEF VerifyLine
    <3>4. v.verified = u.verified + 1 /\ v.prev = line.hash /\ ~v.stopped
      BY <1>3, <1>5, <3>3 DEF VerdictTypes
    <3>5. Verdicts(snap'[l], key'[l])[pos'[l]] = v
      BY <1>2, <3>1 DEF v
    <3> QED
      BY <1>1, <1>2, <3>1, <3>2, <3>4, <3>5 DEF InStep
  <2>3. CASE ~verify_record_chain(line, prev[l], seq[l] + 1)
    <3>1. pos'[l] = Len(lines) /\ UNCHANGED <<seq, prev>>
      BY <1>1, <1>4, <1>7, <2>3 DEF RestoreRecord
    <3>2. v = [u EXCEPT !.errors = @ + 1, !.stopped = TRUE]
      BY <1>3, <1>4, <2>1, <2>3 DEF VerifyLine
    <3>3. v.verified = u.verified /\ v.prev = u.prev /\ v.stopped
      BY <1>5, <3>2 DEF VerdictTypes
    <3>4. Verdicts(lines, K)[Len(lines)] = v
      <4>1. pos[l] + 1 \in 0..Len(lines)
        BY <1>1
      <4> QED
        BY <1>1, <3>3, <4>1, StoppedStays DEF v
    <3>5. Verdicts(snap'[l], key'[l])[pos'[l]] = v
      BY <1>2, <3>1, <3>4
    <3> QED
      BY <1>1, <1>2, <1>3, <3>1, <3>3, <3>5 DEF InStep
  <2> QED
    BY <2>2, <2>3
<1> QED
  BY <1>6, <1>7

LEMMA RestoredByOwn ==
  ASSUME TypeInv, RestoreInv, NEW l \in Loggers, LoggerStep(l)
  PROVE  Restored(l)'
<1>0. /\ st \in [Loggers -> {"down", "restoring", "running", "refused", "failed"}]
      /\ seq \in [Loggers -> Nat] /\ prev \in [Loggers -> Hashes] /\ pos \in [Loggers -> Nat]
      /\ snap \in [Loggers -> Seq(Lines)] /\ key \in [Loggers -> MaybeKeys]
      /\ file \in Seq(Lines) /\ Restored(l)
  BY DEF TypeInv, TypeOK, RestoreInv
<1>1. CASE Start(l)
  <2>1. /\ st'[l] = "restoring" /\ snap'[l] = file
        /\ pos'[l] = 0 /\ seq'[l] = 0 /\ prev'[l] = GENESIS_HASH
    BY <1>0, <1>1 DEF Start, Open, Restored
  <2>2. Verdicts(file, key'[l])[0] = VerifyStart
    BY <1>0, VerdictsDef
  <2>3. InStep(l)'
    BY <1>0, <2>1, <2>2 DEF InStep, VerifyStart
  <2> QED
    BY <2>1, <2>3 DEF Restored
<1>2. CASE RestoreRaises(l)
  <2> DEFINE i == pos[l] + 1
  <2>1. st'[l] = "failed" /\ UNCHANGED <<snap, key, pos, tears>>
    BY <1>0, <1>2 DEF RestoreRaises, histVars
  <2>2. /\ i \in 1..Len(snap[l]) /\ snap[l][i] \in Lines
        /\ ~Legible(snap[l][i], key[l])
    BY <1>0, <1>2 DEF RestoreRaises, Restoring, Undecryptable, NextLine
  <2>3. ~VerifyOK(snap[l], key[l])
    BY <1>0, <2>2, IllegibleIsRejected
  <2>4. CASE snap[l][i].kind = "garbage"
    BY <2>1, <2>2, <2>3, <2>4 DEF Restored, RestoreInv, TornByAppends, HasGarbage
  <2>5. CASE snap[l][i].kind # "garbage"
    <3>1. snap[l][i].key \notin {NoKey, key[l]}
      BY <2>2, <2>5 DEF Legible, Lines, RecordLines, GarbageLines
    <3> QED
      BY <2>1, <2>2, <2>3, <3>1 DEF Restored
  <2> QED
    BY <2>4, <2>5
<1>3. CASE RestoreSkip(l) \/ RestoreRecord(l)
  <2>1. st[l] = "restoring" /\ st' = st
    BY <1>3 DEF RestoreSkip, RestoreRecord, Restoring
  <2>2. InStep(l)'
    BY <1>0, <1>3, <2>1, RestoreInStep DEF Restored
  <2> QED
    BY <2>1, <2>2 DEF Restored
<1>4. CASE RestoreDone(l)
  BY <1>0, <1>4 DEF RestoreDone, Restored
<1>5. CASE Stop(l)
  BY <1>0, <1>5 DEF Stop, Restored
<1>6. CASE KeyRefused(l)
  BY <1>0, <1>6 DEF KeyRefused, Restored
<1> QED
  BY <1>1, <1>2, <1>3, <1>4, <1>5, <1>6 DEF LoggerStep

LEMMA RestoreLoggerStep ==
  ASSUME TypeInv, RestoreInv, NEW l \in Loggers, LoggerStep(l)
  PROVE  RestoreInv'
<1>0. /\ st \in [Loggers -> {"down", "restoring", "running", "refused", "failed"}]
      /\ seq \in [Loggers -> Nat] /\ prev \in [Loggers -> Hashes] /\ pos \in [Loggers -> Nat]
      /\ snap \in [Loggers -> Seq(Lines)] /\ key \in [Loggers -> MaybeKeys]
      /\ pc \in [Workers -> {"idle", "attached", "append"}]
  BY DEF TypeInv, TypeOK
<1>1. UNCHANGED <<file, openTail, tears>>
  BY LoggerFrame
<1>2. ASSUME NEW k \in Loggers, k # l
      PROVE  /\ st'[k] = st[k] /\ seq'[k] = seq[k] /\ prev'[k] = prev[k] /\ pos'[k] = pos[k]
             /\ snap'[k] = snap[k] /\ key'[k] = key[k]
  BY <1>2, LoggerFrame
<1>3. ASSUME NEW k \in Loggers PROVE Restored(k)'
  <2>1. CASE k = l
    BY <2>1, RestoredByOwn
  <2>2. CASE k # l
    BY <1>1, <1>2, <2>2 DEF RestoreInv, Restored, InStep
  <2> QED
    BY <2>1, <2>2
<1>4. snap'[l] = snap[l] \/ snap'[l] = file \/ snap'[l] = <<>>
  BY <1>0 DEF LoggerStep, KeyRefused, Start, RestoreRaises, RestoreSkip, RestoreRecord,
              RestoreDone, Stop
<1>5. TornByAppends'
  <2>1. ~HasGarbage(<<>>)
    BY DEF HasGarbage
  <2>2. ASSUME NEW k \in Loggers, HasGarbage(snap'[k])
        PROVE  HasGarbage(file) \/ HasGarbage(snap[k])
    BY <1>2, <1>4, <2>1, <2>2
  <2> QED
    BY <1>1, <2>2 DEF RestoreInv, TornByAppends, HasGarbage
<1>6. ASSUME NEW w \in Workers, pc'[w] # "idle" PROVE st'[w[1]] = "running"
  <2>0. w[1] \in Loggers
    BY DEF Workers
  <2>1. CASE w[1] # l
    <3>1. pc[w] # "idle"
      BY <1>6, LoggerFrame
    <3> QED
      BY <1>2, <2>0, <2>1, <3>1 DEF RestoreInv
  <2>2. CASE w[1] = l
    <3>1. ~Stop(l)
      BY <1>6, <2>2 DEF Stop
    <3>2. pc[w] # "idle"
      BY <1>6, LoggerFrame
    <3>3. st[l] = "running"
      BY <2>2, <3>2 DEF RestoreInv
    <3> QED
      BY <3>1, <3>3
      DEF LoggerStep, KeyRefused, Start, Open, RestoreRaises, RestoreSkip, RestoreRecord,
          RestoreDone, Restoring
  <2> QED
    BY <2>1, <2>2
<1> QED
  BY <1>3, <1>5, <1>6 DEF RestoreInv

LEMMA ExtendedGarbage ==
  ASSUME NEW lines \in Seq(Lines), NEW line \in Lines, line.kind # "garbage",
         HasGarbage(Extended(lines, FALSE, line))
  PROVE  HasGarbage(lines)
<1>1. Extended(lines, FALSE, line) = Append(lines, line)
  BY DEF Extended
<1>2. /\ Len(Append(lines, line)) = Len(lines) + 1
      /\ \A i \in 1..(Len(lines) + 1) :
           Append(lines, line)[i] = IF i = Len(lines) + 1 THEN line ELSE lines[i]
  OBVIOUS
<1>3. PICK i \in 1..(Len(lines) + 1) : Append(lines, line)[i].kind = "garbage"
  BY <1>1, <1>2 DEF HasGarbage
<1>4. i # Len(lines) + 1
  BY <1>2, <1>3
<1>5. i \in 1..Len(lines) /\ lines[i].kind = "garbage"
  BY <1>2, <1>3, <1>4
<1> QED
  BY <1>5 DEF HasGarbage

LEMMA RestoreWorkerStep ==
  ASSUME TypeInv, RestoreInv, NEW w \in Workers, WorkerStep(w)
  PROVE  RestoreInv'
<1>0. /\ seq \in [Loggers -> Nat] /\ prev \in [Loggers -> Hashes] /\ w[1] \in Loggers
      /\ pc \in [Workers -> {"idle", "attached", "append"}]
      /\ file \in Seq(Lines) /\ openTail \in BOOLEAN /\ tears \in Nat
      /\ rec[w] \in RecordLines
  BY BoundsAssumption DEF TypeInv, TypeOK, Workers
<1>1. /\ UNCHANGED <<st, key, snap, pos>>
      /\ st[w[1]] = "running"
      /\ \A k \in Loggers : k # w[1] => seq'[k] = seq[k] /\ prev'[k] = prev[k]
      /\ \A u \in Workers : u # w => pc'[u] = pc[u]
  BY <1>0 DEF WorkerStep, EmitAttach, EmitAdvance, EmitAppend, AppendFails, SyncFails,
              AppendTorn, EmitReturns, logVars, RestoreInv
<1>2. /\ TornByAppends'
      /\ tears' >= tears
  <2>1. CASE UNCHANGED <<file, openTail, tears>>
    BY <1>0, <1>1, <2>1 DEF RestoreInv, TornByAppends
  <2>2. ASSUME NEW u \in Workers, NEW line \in Lines, pc[u] = "append",
               file' = Extended(file, openTail, line), line = rec[u],
               openTail' = FALSE, tears' = tears
        PROVE  TornByAppends' /\ tears' >= tears
    <3>1. line.kind # "garbage"
      BY <2>2 DEF TypeInv, TypeOK, RecordLines
    <3>2. HasGarbage(file') => openTail \/ HasGarbage(file)
      BY <1>0, <2>2, <3>1, ExtendedGarbage
    <3> QED
      BY <1>0, <1>1, <2>2, <3>2 DEF RestoreInv, TornByAppends
  <2>3. CASE tears' = tears + 1
    BY <1>0, <2>3 DEF TornByAppends
  <2> QED
    BY <2>1, <2>2, <2>3, FileStep DEF Next
<1>3. ASSUME NEW k \in Loggers PROVE Restored(k)'
  <2>1. CASE k = w[1]
    BY <1>1, <2>1 DEF Restored
  <2>2. CASE k # w[1]
    <3>1. seq'[k] = seq[k] /\ prev'[k] = prev[k] /\ Restored(k)
      BY <1>1, <2>2 DEF RestoreInv
    <3>2. tears > 0 => tears' > 0
      <4>1. TypeInv'
        BY TypeWorkerStep
      <4>2. tears' \in Nat
        BY <4>1, BoundsAssumption DEF TypeInv, TypeOK
      <4> QED
        BY <1>0, <1>2, <4>2
    <3> QED
      BY <1>1, <3>1, <3>2 DEF Restored, InStep
  <2> QED
    BY <2>1, <2>2
<1>4. ASSUME NEW u \in Workers, pc'[u] # "idle" PROVE st'[u[1]] = "running"
  BY <1>1, <1>4 DEF RestoreInv
<1> QED
  BY <1>2, <1>3, <1>4 DEF RestoreInv

(***************************************************************************)
(* What a restarted logger continues from is what verify-audit reaches on  *)
(* the same lines with the same key, and a constructor that got its key    *)
(* and raises has before it a file that verify-audit rejects with that     *)
(* key: an append tore it, or another key sealed a line of it (audit.py,   *)
(* _restore_chain_state), for any processes, threads, keys and faults.     *)
(***************************************************************************)
THEOREM RestoreFollowsVerify == Spec => []RestoreAgreesWithVerify
<1>1. TypeInv /\ RestoreInv /\ [Next]_vars => RestoreInv'
  <2>1. RestoreInv /\ UNCHANGED vars => RestoreInv'
    BY DEF vars, fileVars, logVars, emitVars, histVars, RestoreInv, TornByAppends,
           Restored, InStep
  <2> QED
    BY <2>1, RestoreLoggerStep, RestoreWorkerStep DEF Next
<1>2. TypeInv /\ RestoreInv => RestoreAgreesWithVerify
  <2> SUFFICES ASSUME TypeInv, RestoreInv, NEW l \in Loggers
               PROVE  /\ st[l] = "restoring" =>
                           LET v == verify_audit_chain(SubSeq(snap[l], 1, pos[l]), key[l])
                           IN  seq[l] = v.verified /\ prev[l] = v.prev
                      /\ st[l] = "failed" =>
                           /\ ~VerifyOK(snap[l], key[l])
                           /\ \/ tears > 0
                              \/ \E i \in 1..Len(snap[l]) :
                                   snap[l][i].key \notin {NoKey, key[l]}
    BY DEF RestoreAgreesWithVerify
  <2>1. snap[l] \in Seq(Lines) /\ pos[l] \in Nat /\ Restored(l)
    BY DEF TypeInv, TypeOK, RestoreInv
  <2>2. ASSUME InStep(l)
        PROVE  verify_audit_chain(SubSeq(snap[l], 1, pos[l]), key[l])
                 = Verdicts(snap[l], key[l])[pos[l]]
    <3>1. pos[l] \in 0..Len(snap[l])
      BY <2>1, <2>2 DEF InStep
    <3> QED
      BY <2>1, <3>1, VerdictOfPrefix
  <2> QED
    BY <2>1, <2>2 DEF Restored, InStep
<1>3. TypeInv /\ [Next]_vars => TypeInv'
  BY TypeLoggerStep, TypeWorkerStep, TypeStutter DEF Next
<1> QED
  BY <1>1, <1>2, <1>3, TypeInit, RestoreInit, PTL DEF Spec

-----------------------------------------------------------------------------
(* What the last hash of a log says of it                                  *)

\* The hash of a record spells out the payloads up to it.
LEMMA HashIsHistory ==
  ASSUME NEW lines \in Seq(Lines), ChainOK(lines), NEW n \in 1..Len(lines)
  PROVE  /\ lines[n].hash \in Hashes /\ Len(lines[n].hash) = n
         /\ \A k \in 1..n : lines[n].hash[k] = lines[k].body
<1> DEFINE Spells(i) == /\ lines[i].hash \in Hashes /\ Len(lines[i].hash) = i
                        /\ \A k \in 1..i : lines[i].hash[k] = lines[k].body
           S == {i \in 0..Len(lines) : i = 0 \/ Spells(i)}
<1>1. 0 \in S /\ S \in SUBSET Nat /\ Len(lines) \in Nat
  OBVIOUS
<1>2. ASSUME NEW i \in 1..Len(lines), i - 1 \in S PROVE i \in S
  <2>1. lines[i].hash = Append(HashBefore(lines, i), lines[i].body)
    BY DEF ChainOK, verify_record_chain, compute_entry_hash
  <2>2. lines[i].body \in Nat
    BY DEF ChainOK, Lines, RecordLines, GarbageLines
  <2>3. /\ HashBefore(lines, i) \in Seq(Nat) /\ Len(HashBefore(lines, i)) = i - 1
        /\ \A k \in 1..(i - 1) : HashBefore(lines, i)[k] = lines[k].body
    <3>1. CASE i = 1
      BY <3>1 DEF HashBefore, GENESIS_HASH
    <3>2. CASE i # 1
      <4>1. Spells(i - 1)
        BY <1>2, <3>2
      <4> QED
        BY <3>2, <4>1 DEF HashBefore, Hashes
    <3> QED
      BY <3>1, <3>2
  <2> DEFINE h == HashBefore(lines, i)
  <2> HIDE DEF h
  <2>4. /\ h \in Seq(Nat) /\ Len(h) = i - 1 /\ lines[i].hash = Append(h, lines[i].body)
        /\ \A k \in 1..(i - 1) : h[k] = lines[k].body
    BY <2>1, <2>3 DEF h
  <2>5. /\ lines[i].hash \in Seq(Nat) /\ Len(lines[i].hash) = i
        /\ \A k \in 1..i : lines[i].hash[k] = IF k = i THEN lines[i].body ELSE h[k]
    BY <2>2, <2>4
  <2>6. \A k \in 1..i : k = i \/ k \in 1..(i - 1)
    OBVIOUS
  <2>7. \A k \in 1..i : lines[i].hash[k] = lines[k].body
    BY <2>4, <2>5, <2>6
  <2> QED
    BY <2>5, <2>7 DEF Hashes
<1> HIDE DEF S
<1>3. 0..Len(lines) \subseteq S
  BY <1>1, <1>2, InductionBySets
<1> QED
  BY <1>3 DEF S

(***************************************************************************)
(* The hash of the last record commits to the whole log: two logs that     *)
(* verify-audit accepts and that end in the same hash hold the same        *)
(* payloads in the same order (chain.py, compute_entry_hash), as long as   *)
(* the hash function is collision-free.                                    *)
(***************************************************************************)
THEOREM LastHashCommits ==
  ASSUME NEW a \in Seq(Lines), NEW b \in Seq(Lines), a # <<>>, b # <<>>,
         NEW j \in MaybeKeys, NEW k \in MaybeKeys,
         VerifyOK(a, j), VerifyOK(b, k), LastOf(a).hash = LastOf(b).hash
  PROVE  Len(a) = Len(b) /\ \A i \in 1..Len(a) : a[i].body = b[i].body
<1>1. ChainOK(a) /\ ChainOK(b)
  BY ChainIsOK
<1>2. Len(a) \in 1..Len(a) /\ Len(b) \in 1..Len(b)
  OBVIOUS
<1>3. /\ Len(LastOf(a).hash) = Len(a)
      /\ \A i \in 1..Len(a) : LastOf(a).hash[i] = a[i].body
  BY <1>1, <1>2, HashIsHistory DEF LastOf
<1>4. /\ Len(LastOf(b).hash) = Len(b)
      /\ \A i \in 1..Len(b) : LastOf(b).hash[i] = b[i].body
  BY <1>1, <1>2, HashIsHistory DEF LastOf
<1> QED
  BY <1>3, <1>4

(***************************************************************************)
(* And no earlier hash is asked for: a log cut off after any of its lines  *)
(* still verifies, so a loss at the end is not detected by verify-audit    *)
(* alone (chain.py, verify_audit_chain, keeps no expected length).         *)
(***************************************************************************)
THEOREM TruncationPasses ==
  ASSUME NEW lines \in Seq(Lines), NEW k \in MaybeKeys, VerifyOK(lines, k),
         NEW p \in 0..Len(lines)
  PROVE  VerifyOK(SubSeq(lines, 1, p), k)
<1> DEFINE short == SubSeq(lines, 1, p)
<1>1. ChainOK(lines) /\ \A i \in 1..Len(lines) : lines[i].key \in {NoKey, k}
  BY ChainIsOK
<1>2. /\ short \in Seq(Lines) /\ Len(short) = p
      /\ \A i \in 1..p : short[i] = lines[i]
  OBVIOUS
<1> HIDE DEF short
<1>3. ASSUME NEW i \in 1..p
      PROVE  short[i] = lines[i] /\ HashBefore(short, i) = HashBefore(lines, i)
  <2>1. i # 1 => i - 1 \in 1..p
    OBVIOUS
  <2> QED
    BY <1>2, <2>1 DEF HashBefore
<1>4. \A i \in 1..p : i \in 1..Len(lines)
  OBVIOUS
<1>5. ChainOK(short)
  BY <1>1, <1>2, <1>3, <1>4 DEF ChainOK
<1>6. VerifyOK(short, k)
  BY <1>1, <1>2, <1>4, <1>5, ChainIsOK
<1> QED
  BY <1>6 DEF short
=============================================================================
