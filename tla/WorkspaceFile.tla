--------------------------- MODULE WorkspaceFile ---------------------------
(***************************************************************************)
(* security/paths.py: one file of the workspace, written by                *)
(* write_file_bounded and read by read_file_bounded, in the handler        *)
(* threads of one process after another.                                   *)
(*                                                                         *)
(* A call writes a temporary file, makes it durable, renames it over the   *)
(* target and makes the directory durable.  The file of a call bears the   *)
(* name of the call; of its contents only how much of them is there is     *)
(* kept.  The target's name has referred to one file after another:        *)
(* versions.                                                               *)
(***************************************************************************)
EXTENDS Naturals, Sequences, Functions

CONSTANTS
  Calls,      \* the calls of write_file_bounded
  Reads,      \* the calls of read_file_bounded
  Original,   \* the file that is there before any call
  Link,       \* a symbolic link in its place
  MaxCrashes  \* bound: how often the machine stops

ASSUME FilesAssumption ==
  /\ Original # Link
  /\ {Original, Link} \cap Calls = {}
  /\ {"idle", "failed", "done"} \cap (Calls \cup {Original}) = {}
  /\ MaxCrashes \in Nat

VARIABLES
  pc,         \* where each call of write_file_bounded is
  data,       \* how much of the contents each file holds
  flushed,    \* the files that were made durable
  temps,      \* the calls whose temporary name exists
  versions,   \* the files the target's name has referred to, the last is current
  hard,       \* how many of them are durable
  short,      \* the calls whose os.write wrote less than it was given
  fd,         \* the file each read has open, or what became of the read
  got,        \* the file each read returned, and how much of it
  crashes     \* how often the machine has stopped

vars == <<pc, data, flushed, temps, versions, hard, short, fd, got, crashes>>
reading == <<fd, got>>

Files == Calls \cup {Original}
Parts == {"none", "empty", "cut", "whole"}
Running == {"created", "written", "flushed", "renamed", "failing", "durable"}
Ended == {"done", "failed", "raised", "crashed"}

\* What may be left on the disk of a file that was not made durable.
Prefixes(part) ==
  CASE part = "none" -> {"none"}
    [] part = "empty" -> {"empty"}
    [] part = "cut" -> {"empty", "cut"}
    [] part = "whole" -> {"empty", "cut", "whole"}

Exists == versions # <<>>
Current == versions[Len(versions)]

Init ==
  /\ pc = [c \in Calls |-> "idle"]
  /\ data = [f \in Files |-> IF f \in Calls THEN "none" ELSE "whole"]
  /\ flushed = {Original}
  /\ temps = {}
  /\ versions \in {<<>>, <<Original>>, <<Link>>}
  /\ hard = Len(versions)
  /\ short = {}
  /\ fd = [r \in Reads |-> "idle"]
  /\ got = [r \in Reads |-> <<>>]
  /\ crashes = 0

-----------------------------------------------------------------------------
(* write_file_bounded                                                      *)

\* Too long, no directory, a link at the name, or no temporary file.
Refuse(c) ==
  /\ pc[c] = "idle"
  /\ pc' = [pc EXCEPT ![c] = "failed"]
  /\ UNCHANGED <<data, flushed, temps, versions, hard, short, reading, crashes>>

Create(c) ==
  /\ pc[c] = "idle"
  /\ Exists => Current # Link
  /\ pc' = [pc EXCEPT ![c] = "created"]
  /\ data' = [data EXCEPT ![c] = "empty"]
  /\ temps' = temps \cup {c}
  /\ UNCHANGED <<flushed, versions, hard, short, reading, crashes>>

\* One os.write, whose result nothing looks at.
Write(c) ==
  /\ pc[c] = "created"
  /\ pc' = [pc EXCEPT ![c] = "written"]
  /\ \/ data' = [data EXCEPT ![c] = "whole"] /\ UNCHANGED short
     \/ data' = [data EXCEPT ![c] = "cut"] /\ short' = short \cup {c}
  /\ UNCHANGED <<flushed, temps, versions, hard, reading, crashes>>

\* Mutation: the temporary file is closed without os.fsync.
CloseUnflushed(c) ==
  /\ pc[c] = "written"
  /\ pc' = [pc EXCEPT ![c] = "flushed"]
  /\ UNCHANGED <<data, flushed, temps, versions, hard, short, reading, crashes>>

\* os.fsync of the temporary file.
Flush(c) ==
  /\ pc[c] = "written"
  /\ pc' = [pc EXCEPT ![c] = "flushed"]
  /\ flushed' = flushed \cup {c}
  /\ UNCHANGED <<data, temps, versions, hard, short, reading, crashes>>

\* os.replace
Rename(c) ==
  /\ pc[c] = "flushed"
  /\ pc' = [pc EXCEPT ![c] = "renamed"]
  /\ versions' = Append(versions, c)
  /\ temps' = temps \ {c}
  /\ UNCHANGED <<data, flushed, hard, short, reading, crashes>>

\* Mutation: the directory is not made durable.
SkipDirectory(c) ==
  /\ pc[c] = "renamed"
  /\ pc' = [pc EXCEPT ![c] = "durable"]
  /\ UNCHANGED <<data, flushed, temps, versions, hard, short, reading, crashes>>

\* os.fsync of the directory.
FlushDirectory(c) ==
  /\ pc[c] = "renamed"
  /\ pc' = [pc EXCEPT ![c] = "durable"]
  /\ hard' = Len(versions)
  /\ UNCHANGED <<data, flushed, temps, versions, short, reading, crashes>>

\* OSError of any of these steps, the last one included.
Fail(c) ==
  /\ pc[c] \in {"created", "written", "flushed", "renamed"}
  /\ pc' = [pc EXCEPT ![c] = "failing"]
  /\ UNCHANGED <<data, flushed, temps, versions, hard, short, reading, crashes>>

\* Mutation: the temporary file is removed only when all went well.
CleanUpIfDurable(c) ==
  /\ pc[c] \in {"failing", "durable"}
  /\ pc' = [pc EXCEPT ![c] = IF pc[c] = "durable" THEN "done" ELSE "failed"]
  /\ temps' = IF pc[c] = "durable" THEN temps \ {c} ELSE temps
  /\ UNCHANGED <<data, flushed, versions, hard, short, reading, crashes>>

\* finally: the temporary name is removed if it is still there.
CleanUp(c) ==
  /\ pc[c] \in {"failing", "durable"}
  /\ pc' = [pc EXCEPT ![c] = IF pc[c] = "durable" THEN "done" ELSE "failed"]
  /\ temps' = temps \ {c}
  /\ UNCHANGED <<data, flushed, versions, hard, short, reading, crashes>>

\* OSError of os.unlink, which replaces the SandboxError.
CleanUpFails(c) ==
  /\ pc[c] = "failing" /\ c \in temps
  /\ pc' = [pc EXCEPT ![c] = "raised"]
  /\ UNCHANGED <<data, flushed, temps, versions, hard, short, reading, crashes>>

-----------------------------------------------------------------------------
(* read_file_bounded                                                       *)

\* Mutation: a link is followed.
OpenFollowing(r) ==
  /\ fd[r] = "idle"
  /\ \/ Exists /\ fd' = [fd EXCEPT ![r] = Current]
     \/ fd' = [fd EXCEPT ![r] = "failed"]
  /\ UNCHANGED <<pc, data, flushed, temps, versions, hard, short, got, crashes>>

\* A link is not followed, and any opening may fail.
Open(r) ==
  /\ fd[r] = "idle"
  /\ \/ Exists /\ Current # Link /\ fd' = [fd EXCEPT ![r] = Current]
     \/ fd' = [fd EXCEPT ![r] = "failed"]
  /\ UNCHANGED <<pc, data, flushed, temps, versions, hard, short, got, crashes>>

\* os.fstat, which may find the file too large, os.read, which may fail,
\* and os.close.
Read(r) ==
  /\ fd[r] \in Files
  /\ \/ /\ fd' = [fd EXCEPT ![r] = "done"]
        /\ got' = [got EXCEPT ![r] = <<fd[r], data[fd[r]]>>]
     \/ fd' = [fd EXCEPT ![r] = "failed"] /\ UNCHANGED got
  /\ UNCHANGED <<pc, data, flushed, temps, versions, hard, short, crashes>>

-----------------------------------------------------------------------------
(* The machine stops; a process starts on what the disk has kept.          *)

Crash ==
  /\ crashes < MaxCrashes
  /\ crashes' = crashes + 1
  /\ pc' = [c \in Calls |-> IF pc[c] \in Running THEN "crashed" ELSE pc[c]]
  /\ fd' = [r \in Reads |-> IF fd[r] \in Files THEN "failed" ELSE fd[r]]
  /\ \E k \in hard..Len(versions) :
       /\ versions' = SubSeq(versions, 1, k)
       /\ hard' = k
  /\ data' \in {d \in [Files -> Parts] :
                  \A f \in Files :
                    d[f] \in IF f \in flushed THEN {data[f]} ELSE Prefixes(data[f])}
  /\ temps' \in SUBSET {c \in Calls : data[c] # "none" /\ c \notin Range(versions')}
  /\ UNCHANGED <<flushed, short, got>>

-----------------------------------------------------------------------------
CallStep(c) ==
  \/ Refuse(c) \/ Create(c) \/ Write(c) \/ Flush(c) \/ Rename(c)
  \/ FlushDirectory(c) \/ Fail(c) \/ CleanUp(c) \/ CleanUpFails(c)

Next ==
  \/ \E c \in Calls : CallStep(c)
  \/ \E r \in Reads : Open(r) \/ Read(r)
  \/ Crash

Spec == Init /\ [][Next]_vars

-----------------------------------------------------------------------------
(* Properties                                                              *)

(***************************************************************************)
(* The variables have the values their comments say.                       *)
(***************************************************************************)
TypeOK ==
  /\ pc \in [Calls -> {"idle"} \cup Running \cup Ended]
  /\ data \in [Files -> Parts]
  /\ flushed \subseteq Files
  /\ temps \subseteq Calls
  /\ versions \in Seq(Files \cup {Link})
  /\ hard \in 0..Len(versions)
  /\ short \subseteq Calls
  /\ fd \in [Reads -> Files \cup {"idle", "failed", "done"}]
  /\ got \in [Reads -> {<<>>} \cup (Files \X Parts)]
  /\ crashes \in 0..MaxCrashes

(***************************************************************************)
(* A read returns all that one call was given to write, whatever other     *)
(* calls do and wherever the machine stopped before, unless the os.write   *)
(* of that call was short (paths.py, write_file_bounded: a file takes the  *)
(* target's name only when it is written and durable, and is never         *)
(* written again).                                                         *)
(***************************************************************************)
ReadsAreWhole ==
  \A r \in Reads :
    got[r] # <<>> =>
      got[r][2] = "whole" \/ (got[r][2] = "cut" /\ got[r][1] \in short)

(***************************************************************************)
(* What write_file_bounded reported as written is not lost: after a stop   *)
(* of the machine the target is the file of that call or of one that       *)
(* replaced it later (paths.py, write_file_bounded: os.fsync of the        *)
(* directory after os.replace).                                            *)
(***************************************************************************)
ReportedWritesSurvive ==
  \A c \in Calls : pc[c] = "done" => c \in Range(versions)

(***************************************************************************)
(* A call that returned, or raised SandboxError, left no temporary file    *)
(* behind, unless the machine stopped (paths.py, write_file_bounded: the   *)
(* finally clause).                                                        *)
(***************************************************************************)
NothingLeftBehind ==
  \A c \in temps : pc[c] \in {"done", "failed"} => crashes > 0
=============================================================================
