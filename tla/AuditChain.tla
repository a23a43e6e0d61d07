----------------------------- MODULE AuditChain -----------------------------
(***************************************************************************)
(* crypto/chain.py: the hash chain that links the records of an audit log, *)
(* and the offline verification of a log file.                             *)
(*                                                                         *)
(* A hash is modelled injectively: the hash of an entry is the sequence of *)
(* the payloads it commits to, so two entries have equal hashes exactly    *)
(* when they have equal payloads and equal histories, which is what a      *)
(* collision-free SHA-256 gives the code.  A payload is a natural number,  *)
(* one per emitted event.                                                  *)
(***************************************************************************)
EXTENDS Naturals, Sequences

CONSTANTS
  Keys,  \* encryption keys
  NoKey  \* in the place of a key: none is given, or a line is not sealed

ASSUME NoKeyAssumption == NoKey \notin Keys

MaybeKeys == Keys \cup {NoKey}

GENESIS_HASH == <<>>

\* The hash covers the previous hash and the payload, and no chain field.
compute_entry_hash(prev, body) == Append(prev, body)

(***************************************************************************)
(* One line of the file.  A line of kind "garbage" is what a torn write    *)
(* leaves: it does not parse.  A line whose key is not NoKey starts with   *)
(* ENC1: and was sealed with this key; if it is whole the key opens it,    *)
(* and no other does.                                                      *)
(***************************************************************************)
Hashes == Seq(Nat)

RecordLines == [kind : {"record"}, key : MaybeKeys, seq : Nat, body : Nat,
                prev : Hashes, hash : Hashes]
GarbageLines == [kind : {"garbage"}, key : MaybeKeys]
Lines == RecordLines \cup GarbageLines

Garbage(key) == [kind |-> "garbage", key |-> key]

attach_chain_fields(body, prev, seq, key) ==
  [kind |-> "record", key |-> key, seq |-> seq, body |-> body,
   prev |-> prev, hash |-> compute_entry_hash(prev, body)]

\* Mutation: the entry hash is not recomputed.
verify_links_only(record, expectedPrev, expectedSeq) ==
  record.seq = expectedSeq /\ record.prev = expectedPrev

verify_record_chain(record, expectedPrev, expectedSeq) ==
  /\ record.seq = expectedSeq
  /\ record.prev = expectedPrev
  /\ record.hash = compute_entry_hash(expectedPrev, record.body)

-----------------------------------------------------------------------------
(***************************************************************************)
(* verify_audit_chain, preceded by the decryption of the verify-audit      *)
(* command when a key is given: a loop over the lines.  A line that cannot *)
(* be read is an error and is skipped; a record that does not continue the *)
(* chain is an error and ends the loop; a ciphertext that does not open    *)
(* raises, which ends the command with a failure, as an error does.        *)
(***************************************************************************)
VerifyStart == [prev |-> GENESIS_HASH, verified |-> 0, errors |-> 0,
                stopped |-> FALSE]

\* What verify_audit_chain can parse, once --decrypt has used the key.
Legible(line, key) == line.kind = "record" /\ line.key \in {NoKey, key}

\* Mutation: an unreadable line is skipped without an error.
VerifyLineLenient(v, line, key) ==
  IF v.stopped \/ ~Legible(line, key) THEN v
  ELSE IF verify_record_chain(line, v.prev, v.verified + 1)
    THEN [v EXCEPT !.prev = line.hash, !.verified = @ + 1]
    ELSE [v EXCEPT !.errors = @ + 1, !.stopped = TRUE]

VerifyLine(v, line, key) ==
  IF v.stopped THEN v
  ELSE IF ~Legible(line, key)
    THEN [v EXCEPT !.errors = @ + 1]
  ELSE IF verify_record_chain(line, v.prev, v.verified + 1)
    THEN [v EXCEPT !.prev = line.hash, !.verified = @ + 1]
    ELSE [v EXCEPT !.errors = @ + 1, !.stopped = TRUE]

\* The loop's variables after 0, 1, 2, ... lines.
Verdicts(lines, key) ==
  LET v[i \in 0..Len(lines)] ==
        IF i = 0 THEN VerifyStart ELSE VerifyLine(v[i - 1], lines[i], key)
  IN  v

verify_audit_chain(lines, key) == Verdicts(lines, key)[Len(lines)]

\* The command's exit status.
VerifyOK(lines, key) ==
  LET v == verify_audit_chain(lines, key)
  IN  v.errors = 0 /\ (v.verified > 0 \/ lines = <<>>)

-----------------------------------------------------------------------------
(***************************************************************************)
(* The reference definition the loop is checked against: every line is a   *)
(* record, and each record continues the one before it.                    *)
(***************************************************************************)
HashBefore(lines, i) == IF i = 1 THEN GENESIS_HASH ELSE lines[i - 1].hash

ChainOK(lines) ==
  \A i \in 1..Len(lines) :
    /\ lines[i].kind = "record"
    /\ verify_record_chain(lines[i], HashBefore(lines, i), i)
=============================================================================
