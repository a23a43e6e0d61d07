------------------------------ MODULE AuditLog ------------------------------
(***************************************************************************)
(* security/audit.py: AuditLogger objects that append hash-chained records *)
(* to one log file.                                                        *)
(*                                                                         *)
(* Each logger stands for one process that opened the log (airgap-agent    *)
(* run, chat or serve); its threads are the request handlers of            *)
(* ThreadingHTTPServer, which share the process's single AuditLogger.      *)
(* emit holds no lock, so its body is cut where another thread may run:    *)
(* at the call of attach_chain_fields, whose arguments have been read, and *)
(* before the append.                                                      *)
(*                                                                         *)
(* Modelled with enabled = hash_chain = True.                              *)
(***************************************************************************)
EXTENDS AuditChain, SequencesExt

CONSTANTS
  Loggers,       \* processes that open the log file
  Threads,       \* threads of each process that emit
  KeySettings,   \* what a start may find: NoKey if encrypt_at_rest is off,
                 \* the key of encryption_key_env if it is on, or BadKey
  BadKey,        \* the variable is unset, or holds no key
  Faults,        \* what may go wrong: "append" (OSError before a byte of the
                 \* line is written, or after all of them), "torn" (OSError
                 \* or power loss after part of a line), "kill" (the process
                 \* dies between two steps)
  MaxEmits,      \* bound on calls of emit
  MaxFailures,   \* bound on calls that ended without returning when one raises
                 \* OSError
  MaxTears       \* bound on torn appends

ASSUME KeySettingsAssumption ==
  BadKey \notin MaybeKeys /\ KeySettings \subseteq MaybeKeys \cup {BadKey}
ASSUME FaultsAssumption == Faults \subseteq {"append", "torn", "kill"}
ASSUME BoundsAssumption ==
  MaxEmits \in Nat /\ MaxFailures \in Nat /\ MaxTears \in Nat

VARIABLES
  file,      \* the lines of the log file
  openTail,  \* the last line has no newline
  st,        \* st[l]: life of the process
  key,       \* key[l]: self._encrypt_key, which seals its lines
  snap,      \* snap[l]: what read_text returned to _restore_chain_state
  pos,       \* pos[l]: lines of snap[l] the restore loop has consumed
  seq,       \* seq[l]: self._seq
  prev,      \* prev[l]: self._prev_hash
  pc,        \* pc[w]: where thread w stands in emit
  rec,       \* rec[w]: the record thread w is emitting
  emits,     \* calls of emit so far
  returned,  \* payloads whose emit returned normally (history)
  tears,     \* torn appends so far
  orderly    \* FALSE once two loggers or two calls of emit overlapped, a line
             \* could not be read, or an append wrote no whole line (history)

fileVars == <<file, openTail>>
logVars == <<st, key, snap, pos, seq, prev>>
emitVars == <<pc, rec>>
histVars == <<emits, returned, tears, orderly>>
vars == <<fileVars, logVars, emitVars, histVars>>

Workers == Loggers \X Threads

NoRecord == attach_chain_fields(0, GENESIS_HASH, 0, NoKey)

TypeOK ==
  /\ file \in Seq(Lines)
  /\ openTail \in BOOLEAN
  /\ st \in [Loggers -> {"down", "restoring", "running", "refused", "failed"}]
  /\ key \in [Loggers -> MaybeKeys]
  /\ snap \in [Loggers -> Seq(Lines)]
  /\ pos \in [Loggers -> Nat]
  /\ seq \in [Loggers -> Nat]
  /\ prev \in [Loggers -> Hashes]
  /\ pc \in [Workers -> {"idle", "attached", "append"}]
  /\ rec \in [Workers -> RecordLines]
  /\ emits \in 0..MaxEmits
  /\ returned \subseteq Nat
  /\ tears \in 0..MaxTears
  /\ orderly \in BOOLEAN

Init ==
  /\ file = <<>>
  /\ openTail = FALSE
  /\ st = [l \in Loggers |-> "down"]
  /\ key = [l \in Loggers |-> NoKey]
  /\ snap = [l \in Loggers |-> <<>>]
  /\ pos = [l \in Loggers |-> 0]
  /\ seq = [l \in Loggers |-> 0]
  /\ prev = [l \in Loggers |-> GENESIS_HASH]
  /\ pc = [w \in Workers |-> "idle"]
  /\ rec = [w \in Workers |-> NoRecord]
  /\ emits = 0
  /\ returned = {}
  /\ tears = 0
  /\ orderly = TRUE

-----------------------------------------------------------------------------
(* AuditLogger.__init__ and _restore_chain_state                           *)

\* encrypt_at_rest is on and there is no key of 32 bytes: the constructor
\* raises before it looks at the log.
KeyRefused(l) ==
  /\ st[l] = "down"
  /\ BadKey \in KeySettings
  /\ st' = [st EXCEPT ![l] = "refused"]
  /\ UNCHANGED <<fileVars, key, snap, pos, seq, prev, emitVars, histVars>>

Up(l) == st[l] \in {"restoring", "running"}

\* The key of the process, and whether it is the only one that may write.
Open(l) ==
  /\ st[l] = "down"
  /\ \E k \in KeySettings \ {BadKey} : key' = [key EXCEPT ![l] = k]
  /\ st' = [st EXCEPT ![l] = "restoring"]
  /\ orderly' = (orderly /\ \A m \in Loggers \ {l} : ~Up(m))
  /\ UNCHANGED <<fileVars, pos, seq, prev, emitVars, emits, returned, tears>>

\* Mutation: the constructor does not restore.
StartWithoutRestore(l) == Open(l) /\ UNCHANGED snap

\* The constructor: genesis state, the key if lines are sealed, one read.
Start(l) == Open(l) /\ snap' = [snap EXCEPT ![l] = file]

NextLine(l) == snap[l][pos[l] + 1]

Sealed(line) == line.key # NoKey

\* _decode_line lets the exception of open_line out of the constructor: the
\* line is torn, or was sealed with another key.
Undecryptable(l) ==
  /\ Sealed(NextLine(l))
  /\ key[l] # NoKey
  /\ ~Legible(NextLine(l), key[l])

\* Ciphertext without a key, or text that is not JSON: skipped.
Skipped(l) ==
  IF Sealed(NextLine(l)) THEN key[l] = NoKey ELSE NextLine(l).kind = "garbage"

Readable(l) == ~Undecryptable(l) /\ ~Skipped(l)

Restoring(l) == st[l] = "restoring" /\ pos[l] < Len(snap[l])

RestoreRaises(l) ==
  /\ Restoring(l)
  /\ Undecryptable(l)
  /\ st' = [st EXCEPT ![l] = "failed"]
  /\ UNCHANGED <<fileVars, key, snap, pos, seq, prev, emitVars, histVars>>

\* Mutation: an unreadable line ends the loop.
RestoreSkipStops(l) ==
  /\ Restoring(l)
  /\ Skipped(l)
  /\ pos' = [pos EXCEPT ![l] = Len(snap[l])]
  /\ orderly' = FALSE
  /\ UNCHANGED <<fileVars, st, key, snap, seq, prev, emitVars, emits, returned, tears>>

RestoreSkip(l) ==
  /\ Restoring(l)
  /\ Skipped(l)
  /\ pos' = [pos EXCEPT ![l] = @ + 1]
  /\ orderly' = FALSE
  /\ UNCHANGED <<fileVars, st, key, snap, seq, prev, emitVars, emits, returned, tears>>

\* A record either continues the chain or ends the loop with a warning.
RestoreRecord(l) ==
  /\ Restoring(l)
  /\ Readable(l)
  /\ IF verify_record_chain(NextLine(l), prev[l], seq[l] + 1)
       THEN /\ prev' = [prev EXCEPT ![l] = NextLine(l).hash]
            /\ seq' = [seq EXCEPT ![l] = NextLine(l).seq]
            /\ pos' = [pos EXCEPT ![l] = @ + 1]
       ELSE /\ pos' = [pos EXCEPT ![l] = Len(snap[l])]
            /\ UNCHANGED <<prev, seq>>
  /\ UNCHANGED <<fileVars, st, key, snap, emitVars, histVars>>

RestoreDone(l) ==
  /\ st[l] = "restoring"
  /\ pos[l] = Len(snap[l])
  /\ st' = [st EXCEPT ![l] = "running"]
  /\ snap' = [snap EXCEPT ![l] = <<>>]
  /\ pos' = [pos EXCEPT ![l] = 0]
  /\ UNCHANGED <<fileVars, key, seq, prev, emitVars, histVars>>

-----------------------------------------------------------------------------
(* emit and _append                                                        *)

\* self._seq += 1, then the arguments of attach_chain_fields are read.
EmitAttach(w) ==
  LET l == w[1] IN
  /\ st[l] = "running"
  /\ pc[w] = "idle"
  /\ emits < MaxEmits
  /\ emits' = emits + 1
  /\ seq' = [seq EXCEPT ![l] = @ + 1]
  /\ rec' = [rec EXCEPT ![w] =
               attach_chain_fields(emits + 1, prev[l], seq[l] + 1, key[l])]
  /\ pc' = [pc EXCEPT ![w] = "attached"]
  /\ orderly' = (orderly /\ \A t \in Threads : pc[<<l, t>>] = "idle")
  /\ UNCHANGED <<fileVars, st, key, snap, pos, prev, returned, tears>>

\* self._prev_hash is set before the line is written.
EmitAdvance(w) ==
  LET l == w[1] IN
  /\ pc[w] = "attached"
  /\ prev' = [prev EXCEPT ![l] = rec[w].hash]
  /\ pc' = [pc EXCEPT ![w] = "append"]
  /\ UNCHANGED <<fileVars, st, key, snap, pos, seq, rec, histVars>>

\* Mutation: the record is written without its chain fields.
ExtendedUnchained(lines, open, line) ==
  Append(lines, [kind |-> "record", key |-> line.key, body |-> line.body])

\* Bytes written to a file whose last line has no newline extend that line.
Extended(lines, open, line) ==
  IF open
    THEN [lines EXCEPT ![Len(lines)] = Garbage(lines[Len(lines)].key)]
    ELSE Append(lines, line)

\* The frame of emit is gone, whether it returns or raises.
EmitReturns(w) ==
  /\ pc' = [pc EXCEPT ![w] = "idle"]
  /\ rec' = [rec EXCEPT ![w] = NoRecord]

\* Mutation: the file is opened for writing, not for appending.
EmitOverwrite(w) ==
  /\ pc[w] = "append"
  /\ file' = <<rec[w]>>
  /\ openTail' = FALSE
  /\ returned' = returned \cup {rec[w].body}
  /\ EmitReturns(w)
  /\ UNCHANGED <<logVars, emits, tears, orderly>>

EmitAppend(w) ==
  /\ pc[w] = "append"
  /\ file' = Extended(file, openTail, rec[w])
  /\ openTail' = FALSE
  /\ returned' = returned \cup {rec[w].body}
  /\ EmitReturns(w)
  /\ UNCHANGED <<logVars, emits, tears, orderly>>

\* Calls of emit that ended without returning, cut off by a kill or an error.
Unreturned ==
  emits - Cardinality(returned) - Cardinality({w \in Workers : pc[w] # "idle"})

\* open or write raises OSError before a byte reached the file.
AppendFails(w) ==
  /\ "append" \in Faults
  /\ Unreturned < MaxFailures
  /\ pc[w] = "append"
  /\ orderly' = FALSE
  /\ EmitReturns(w)
  /\ UNCHANGED <<fileVars, logVars, emits, returned, tears>>

\* fsync raises OSError, with the whole line in the file.
SyncFails(w) ==
  /\ "append" \in Faults
  /\ Unreturned < MaxFailures
  /\ pc[w] = "append"
  /\ file' = Extended(file, openTail, rec[w])
  /\ openTail' = FALSE
  /\ EmitReturns(w)
  /\ UNCHANGED <<logVars, histVars>>

\* What a cut leaves: all but the newline, or a fragment of the line; a
\* fragment of a sealed line may be too short to show the ENC1: prefix.
Fragments(line) == {line, Garbage(line.key), Garbage(NoKey)}

AppendTorn(w) ==
  /\ "torn" \in Faults
  /\ tears < MaxTears
  /\ pc[w] = "append"
  /\ \E fragment \in Fragments(rec[w]) :
       file' = Extended(file, openTail, fragment)
  /\ openTail' = TRUE
  /\ tears' = tears + 1
  /\ orderly' = FALSE
  /\ EmitReturns(w)
  /\ UNCHANGED <<logVars, emits, returned>>

-----------------------------------------------------------------------------
\* The process ends: between calls of emit, or anywhere if it is killed
\* (handler threads are daemons, so an exit may also cut them off).  Its
\* memory goes with it.
Stop(l) ==
  /\ st[l] # "down"
  /\ "kill" \in Faults \/ \A t \in Threads : pc[<<l, t>>] = "idle"
  /\ st' = [st EXCEPT ![l] = "down"]
  /\ key' = [key EXCEPT ![l] = NoKey]
  /\ snap' = [snap EXCEPT ![l] = <<>>]
  /\ pos' = [pos EXCEPT ![l] = 0]
  /\ seq' = [seq EXCEPT ![l] = 0]
  /\ prev' = [prev EXCEPT ![l] = GENESIS_HASH]
  /\ pc' = [w \in Workers |-> IF w[1] = l THEN "idle" ELSE pc[w]]
  /\ rec' = [w \in Workers |-> IF w[1] = l THEN NoRecord ELSE rec[w]]
  /\ UNCHANGED <<fileVars, histVars>>

LoggerStep(l) ==
  \/ KeyRefused(l)
  \/ Start(l)
  \/ RestoreRaises(l)
  \/ RestoreSkip(l)
  \/ RestoreRecord(l)
  \/ RestoreDone(l)
  \/ Stop(l)

WorkerStep(w) ==
  \/ EmitAttach(w)
  \/ EmitAdvance(w)
  \/ EmitAppend(w)
  \/ AppendFails(w)
  \/ SyncFails(w)
  \/ AppendTorn(w)

Next ==
  \/ \E l \in Loggers : LoggerStep(l)
  \/ \E w \in Workers : WorkerStep(w)

Spec == Init /\ [][Next]_vars

-----------------------------------------------------------------------------
(* Properties                                                              *)

(***************************************************************************)
(* While the loggers take turns, each can read what it finds, and every    *)
(* append writes its line, the log verifies at every moment, across any    *)
(* number of kills and restarts: what restore has put together, or emit    *)
(* has carried on, is the sequence number and the hash of the file's last  *)
(* line (audit.py, emit and _restore_chain_state).                         *)
(***************************************************************************)
ChainVerifies == orderly => ChainOK(file)

(***************************************************************************)
(* Some key makes verify-audit accept the log: "Verify tamper-evident hash *)
(* chain in an audit log" (cli.py, verify_audit_cmd) is said of any log    *)
(* that nobody tampered with.                                              *)
(***************************************************************************)
LogVerifies == \E k \in MaybeKeys : VerifyOK(file, k)

(***************************************************************************)
(* At every iteration the restore loop has accepted exactly the records    *)
(* that verify-audit accepts of the same lines, with the same key: what a  *)
(* restarted logger continues from is what a verifier reached, unreadable  *)
(* lines and a broken chain included.  A constructor that raises while it  *)
(* restores has a file before it that verify-audit rejects under the same  *)
(* key, and an append tore it or it holds a line that was sealed with      *)
(* another key: no race, kill or failed append alone shuts a process out.  *)
(***************************************************************************)
RestoreAgreesWithVerify ==
  \A l \in Loggers :
    /\ st[l] = "restoring" =>
         LET v == verify_audit_chain(SubSeq(snap[l], 1, pos[l]), key[l])
         IN  seq[l] = v.verified /\ prev[l] = v.prev
    /\ st[l] = "failed" =>
         /\ ~VerifyOK(snap[l], key[l])
         /\ tears > 0 \/ \E i \in 1..Len(snap[l]) : snap[l][i].key \notin {NoKey, key[l]}

\* Completed events that no readable line of the file holds.
LostEvents ==
  {b \in returned :
     \A i \in 1..Len(file) : file[i].kind = "record" => file[i].body # b}

(***************************************************************************)
(* An event whose emit returned is in the log, whatever threads, processes *)
(* and restarts do; each torn append can take at most one completed event  *)
(* with it, the one appended to the torn line (audit.py, _append).         *)
(***************************************************************************)
LossBoundedByTears == Cardinality(LostEvents) <= tears

(***************************************************************************)
(* A log that fails verification is never repaired by running the program  *)
(* again: restore stops at the break and emit only appends.                *)
(***************************************************************************)
BreakIsPermanent == [][~ChainOK(file) => ~ChainOK(file')]_vars

(***************************************************************************)
(* With a key or without, verify-audit accepts exactly the logs every line *)
(* of which is a record it can open and that continues the one before it   *)
(* (chain.py, verify_audit_chain), of all that the loggers can produce.    *)
(***************************************************************************)
VerifyIsExact ==
  \A k \in MaybeKeys :
    VerifyOK(file, k) <=>
      ChainOK(file) /\ \A i \in 1..Len(file) : file[i].key \in {NoKey, k}

(***************************************************************************)
(* Removing any line but the last, exchanging two lines, or replacing the  *)
(* payload of a record of a log that is a chain makes verify-audit fail,   *)
(* whatever key it is given.                                               *)
(***************************************************************************)
EditsAreDetected ==
  ChainOK(file) => \A k \in MaybeKeys :
    /\ \A i \in 1..(Len(file) - 1) : ~VerifyOK(RemoveAt(file, i), k)
    /\ \A i, j \in 1..Len(file) : i < j =>
         ~VerifyOK([file EXCEPT ![i] = file[j], ![j] = file[i]], k)
    /\ \A i \in 1..Len(file) :
         ~VerifyOK([file EXCEPT ![i].body = MaxEmits + 1], k)
=============================================================================
