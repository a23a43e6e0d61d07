------------------------ MODULE WorkspaceFileProofs ------------------------
(***************************************************************************)
(* Proofs about WorkspaceFile, for any calls, reads and stops of the       *)
(* machine.                                                                *)
(***************************************************************************)
EXTENDS WorkspaceFile, SequenceTheorems, TLAPS

\* A file whose contents a reader may be given.
Complete(f) == data[f] = "whole" \/ (data[f] = "cut" /\ f \in short)

\* A file is made durable when it is complete, and never written again.
DurableIsComplete ==
  /\ \A f \in flushed : Complete(f)
  /\ \A c \in Calls :
       /\ pc[c] \in {"idle", "created"} => c \notin flushed
       /\ pc[c] = "written" => Complete(c)
       /\ pc[c] = "flushed" => c \in flushed

\* Only durable files are reached, through the name or a descriptor.
ReachedIsDurable ==
  /\ \A i \in 1..Len(versions) : versions[i] \in flushed \cup {Link}
  /\ \A r \in Reads : fd[r] \in Files => fd[r] \in flushed

\* Where a renamed file is among the versions.
RenamedIsVersion ==
  \A c \in Calls :
    /\ pc[c] = "renamed" => \E i \in 1..Len(versions) : versions[i] = c
    /\ pc[c] \in {"durable", "done"} => \E i \in 1..hard : versions[i] = c

(***************************************************************************)
(* The variables keep the types that paths.py gives them (TypeOK).         *)
(***************************************************************************)
THEOREM TypeCorrect == Spec => []TypeOK
<1>1. Init => TypeOK
  <2> SUFFICES ASSUME Init PROVE TypeOK
    OBVIOUS
  <2>1. versions \in Seq(Files \cup {Link})
    <3>1. CASE versions = <<>>
      BY <3>1
    <3>2. CASE versions = <<Original>>
      BY <3>2 DEF Files
    <3>3. CASE versions = <<Link>>
      BY <3>3
    <3> QED
      BY <3>1, <3>2, <3>3 DEF Init
  <2>2. hard \in 0..Len(versions)
    BY <2>1, LenProperties DEF Init
  <2> QED
    BY <2>1, <2>2, FilesAssumption DEF Init, TypeOK, Files, Parts
<1>2. TypeOK /\ [Next]_vars => TypeOK'
  <2> SUFFICES ASSUME TypeOK, [Next]_vars PROVE TypeOK'
    OBVIOUS
  <2> USE DEF TypeOK, reading
  <2>1. ASSUME NEW c \in Calls, CallStep(c) PROVE TypeOK'
    <3> USE DEF Running, Ended, Files, Parts
    <3>1. CASE Refuse(c)
      BY <3>1 DEF Refuse
    <3>2. CASE Create(c)
      BY <3>2 DEF Create
    <3>3. CASE Write(c)
      BY <3>3 DEF Write
    <3>4. CASE Flush(c)
      BY <3>4 DEF Flush
    <3>5. CASE Rename(c)
      BY <3>5, AppendProperties DEF Rename
    <3>6. CASE FlushDirectory(c)
      BY <3>6, LenProperties DEF FlushDirectory
    <3>7. CASE Fail(c)
      BY <3>7 DEF Fail
    <3>8. CASE CleanUp(c)
      BY <3>8 DEF CleanUp
    <3>9. CASE CleanUpFails(c)
      BY <3>9 DEF CleanUpFails
    <3> QED
      BY <2>1, <3>1, <3>2, <3>3, <3>4, <3>5, <3>6, <3>7, <3>8, <3>9 DEF CallStep
  <2>2. ASSUME NEW r \in Reads, Open(r) PROVE TypeOK'
    <3>1. Exists /\ Current # Link => Current \in Files
      BY ElementOfSeq, LenProperties DEF Exists, Current
    <3> QED
      BY <2>2, <3>1 DEF Open
  <2>3. ASSUME NEW r \in Reads, Read(r) PROVE TypeOK'
    BY <2>3 DEF Read
  <2>4. ASSUME Crash PROVE TypeOK'
    <3>1. PICK k \in hard..Len(versions) :
            versions' = SubSeq(versions, 1, k) /\ hard' = k
      BY <2>4 DEF Crash
    <3>2. /\ versions' \in Seq(Files \cup {Link})
          /\ Len(versions') = k
      BY <3>1, SubSeqProperties, LenProperties
    <3>3. /\ pc' \in [Calls -> {"idle"} \cup Running \cup Ended]
          /\ fd' \in [Reads -> Files \cup {"idle", "failed", "done"}]
      BY <2>4 DEF Crash, Ended
    <3>4. data' \in [Files -> Parts] /\ temps' \subseteq Calls
      BY <2>4 DEF Crash
    <3>5. crashes' \in 0..MaxCrashes
      BY <2>4, FilesAssumption DEF Crash
    <3> QED
      BY <2>4, <3>1, <3>2, <3>3, <3>4, <3>5 DEF Crash
  <2>5. CASE UNCHANGED vars
    BY <2>5 DEF vars
  <2> QED
    BY <2>1, <2>2, <2>3, <2>4, <2>5 DEF Next
<1> QED
  BY <1>1, <1>2, PTL DEF Spec

-----------------------------------------------------------------------------
(***************************************************************************)
(* Only durable and complete files are reached, and a read returns what    *)
(* such a file holds.                                                      *)
(***************************************************************************)
ReadInv == DurableIsComplete /\ ReachedIsDurable /\ ReadsAreWhole

LEMMA ReadInit == Init => ReadInv
<1> SUFFICES ASSUME Init PROVE ReadInv
  OBVIOUS
<1>1. DurableIsComplete
  BY FilesAssumption DEF Init, DurableIsComplete, Complete, Files
<1>2. \A i \in 1..Len(versions) : versions[i] \in flushed \cup {Link}
  <2>1. CASE versions = <<>>
    BY <2>1
  <2>2. CASE versions = <<Original>>
    BY <2>2 DEF Init
  <2>3. CASE versions = <<Link>>
    BY <2>3
  <2> QED
    BY <2>1, <2>2, <2>3 DEF Init
<1>3. ReachedIsDurable
  BY <1>2, FilesAssumption DEF Init, ReachedIsDurable, Files
<1>4. ReadsAreWhole
  BY DEF Init, ReadsAreWhole
<1> QED
  BY <1>1, <1>3, <1>4 DEF ReadInv

\* The steps of write_file_bounded.
LEMMA ReadCall ==
  ASSUME TypeOK, ReadInv, NEW c \in Calls, CallStep(c)
  PROVE  ReadInv'
<1> USE DEF TypeOK, ReadInv, DurableIsComplete, ReachedIsDurable,
            ReadsAreWhole, Complete, reading, Files
<1>1. CASE Refuse(c)
  BY <1>1 DEF Refuse
<1>2. CASE Create(c)
  BY <1>2 DEF Create
<1>3. CASE Write(c)
  BY <1>3 DEF Write
<1>4. CASE Flush(c)
  BY <1>4 DEF Flush
<1>5. CASE Rename(c)
  <2>1. c \in flushed
    BY <1>5 DEF Rename
  <2>2. \A i \in 1..Len(versions') : versions'[i] \in flushed \cup {Link}
    BY <1>5, <2>1, AppendProperties, LenProperties DEF Rename
  <2> QED
    BY <1>5, <2>2 DEF Rename
<1>6. CASE FlushDirectory(c)
  BY <1>6 DEF FlushDirectory
<1>7. CASE Fail(c)
  BY <1>7 DEF Fail
<1>8. CASE CleanUp(c)
  BY <1>8 DEF CleanUp
<1>9. CASE CleanUpFails(c)
  BY <1>9 DEF CleanUpFails
<1> QED
  BY <1>1, <1>2, <1>3, <1>4, <1>5, <1>6, <1>7, <1>8, <1>9 DEF CallStep

\* A stop of the machine keeps the durable files as they are.
LEMMA ReadCrash ==
  ASSUME TypeOK, ReadInv, Crash
  PROVE  ReadInv'
<1>1. PICK k \in hard..Len(versions) : versions' = SubSeq(versions, 1, k)
  BY DEF Crash
<1>2. \A i \in 1..Len(versions') : versions'[i] \in flushed' \cup {Link}
  <2>1. /\ Len(versions') = k
        /\ \A i \in 1..k : versions'[i] = versions[i]
    BY <1>1, SubSeqProperties, LenProperties DEF TypeOK
  <2> QED
    BY <2>1, LenProperties DEF TypeOK, ReadInv, ReachedIsDurable, Crash
<1>3. \A f \in flushed : data'[f] = data[f]
  BY DEF Crash, TypeOK
<1>4. DurableIsComplete'
  BY <1>3 DEF Crash, TypeOK, ReadInv, DurableIsComplete, Complete, Files, Running
<1>5. ReachedIsDurable'
  <2>1. \A r \in Reads : fd'[r] \notin Files
    BY FilesAssumption DEF Crash, TypeOK, Files
  <2> QED
    BY <1>2, <2>1 DEF ReachedIsDurable, Files
<1>6. ReadsAreWhole'
  BY DEF Crash, ReadInv, ReadsAreWhole
<1> QED
  BY <1>4, <1>5, <1>6 DEF ReadInv

LEMMA ReadStep == TypeOK /\ ReadInv /\ [Next]_vars => ReadInv'
<1> SUFFICES ASSUME TypeOK, ReadInv, [Next]_vars PROVE ReadInv'
  OBVIOUS
<1>1. ASSUME NEW r \in Reads, Open(r) PROVE ReadInv'
  <2>1. Exists /\ Current # Link => Current \in flushed
    BY LenProperties DEF Exists, Current, TypeOK, ReadInv, ReachedIsDurable
  <2>2. ReachedIsDurable'
    BY <1>1, <2>1, FilesAssumption
    DEF Open, TypeOK, ReadInv, ReachedIsDurable, Files
  <2>3. DurableIsComplete' /\ ReadsAreWhole'
    BY <1>1 DEF Open, ReadInv, DurableIsComplete, ReadsAreWhole, Complete
  <2> QED
    BY <2>2, <2>3 DEF ReadInv
<1>2. ASSUME NEW r \in Reads, Read(r) PROVE ReadInv'
  <2>1. fd[r] \in flushed /\ Complete(fd[r])
    BY <1>2 DEF Read, ReadInv, ReachedIsDurable, DurableIsComplete
  <2>2. ReachedIsDurable'
    BY <1>2, FilesAssumption
    DEF Read, TypeOK, ReadInv, ReachedIsDurable, Files
  <2>3. DurableIsComplete'
    BY <1>2 DEF Read, ReadInv, DurableIsComplete, Complete
  <2>4. ReadsAreWhole'
    BY <1>2, <2>1 DEF Read, TypeOK, ReadInv, ReadsAreWhole, Complete
  <2> QED
    BY <2>2, <2>3, <2>4 DEF ReadInv
<1>3. CASE UNCHANGED vars
  BY <1>3
  DEF vars, ReadInv, DurableIsComplete, ReachedIsDurable, ReadsAreWhole,
      Complete
<1> QED
  BY <1>1, <1>2, <1>3, ReadCall, ReadCrash DEF Next

(***************************************************************************)
(* A read returns all of what one call wrote, or what a short os.write of  *)
(* it left (ReadsAreWhole; paths.py, write_file_bounded and                *)
(* read_file_bounded).                                                     *)
(***************************************************************************)
THEOREM WholeReads == Spec => []ReadsAreWhole
<1>1. ReadInv => ReadsAreWhole
  BY DEF ReadInv
<1> QED
  BY <1>1, ReadInit, ReadStep, TypeCorrect, PTL DEF Spec

-----------------------------------------------------------------------------
LEMMA RenamedInit == Init => RenamedIsVersion
  BY DEF Init, RenamedIsVersion

LEMMA RenamedCall ==
  ASSUME TypeOK, RenamedIsVersion, NEW c \in Calls, CallStep(c)
  PROVE  RenamedIsVersion'
<1> USE DEF TypeOK, RenamedIsVersion, reading
<1>1. CASE Refuse(c)
  BY <1>1 DEF Refuse
<1>2. CASE Create(c)
  BY <1>2 DEF Create
<1>3. CASE Write(c)
  BY <1>3 DEF Write
<1>4. CASE Flush(c)
  BY <1>4 DEF Flush
<1>5. CASE Rename(c)
  <2>1. /\ Len(versions') = Len(versions) + 1
        /\ \A i \in 1..Len(versions) : versions'[i] = versions[i]
        /\ versions'[Len(versions) + 1] = c
    BY <1>5, AppendProperties, LenProperties, c \in Files \cup {Link}
    DEF Rename, Files
  <2>2. \A d \in Calls \ {c} : pc'[d] = pc[d]
    BY <1>5 DEF Rename
  <2>3. \A d \in Calls \ {c} : pc'[d] = "renamed" =>
          \E i \in 1..Len(versions') : versions'[i] = d
    <3>1. SUFFICES ASSUME NEW d \in Calls \ {c}, pc'[d] = "renamed"
                   PROVE  \E i \in 1..Len(versions') : versions'[i] = d
      OBVIOUS
    <3>2. PICK i \in 1..Len(versions) : versions[i] = d
      BY <2>2, <3>1
    <3>3. i \in 1..Len(versions') /\ versions'[i] = d
      BY <2>1, <3>2, LenProperties
    <3> QED
      BY <3>3
  <2>4. \A d \in Calls \ {c} : pc'[d] \in {"durable", "done"} =>
          \E i \in 1..hard' : versions'[i] = d
    BY <1>5, <2>1, <2>2, LenProperties DEF Rename
  <2>5. pc'[c] = "renamed" /\ Len(versions) + 1 \in 1..Len(versions')
    BY <1>5, <2>1, LenProperties DEF Rename
  <2> QED
    BY <2>1, <2>3, <2>4, <2>5
<1>6. CASE FlushDirectory(c)
  BY <1>6, LenProperties DEF FlushDirectory
<1>7. CASE Fail(c)
  BY <1>7 DEF Fail
<1>8. CASE CleanUp(c)
  BY <1>8 DEF CleanUp
<1>9. CASE CleanUpFails(c)
  BY <1>9 DEF CleanUpFails
<1> QED
  BY <1>1, <1>2, <1>3, <1>4, <1>5, <1>6, <1>7, <1>8, <1>9 DEF CallStep

LEMMA RenamedStep == TypeOK /\ RenamedIsVersion /\ [Next]_vars => RenamedIsVersion'
<1> SUFFICES ASSUME TypeOK, RenamedIsVersion, [Next]_vars PROVE RenamedIsVersion'
  OBVIOUS
<1>1. ASSUME NEW r \in Reads, Open(r) \/ Read(r) PROVE RenamedIsVersion'
  BY <1>1 DEF Open, Read, RenamedIsVersion
<1>2. ASSUME Crash PROVE RenamedIsVersion'
  <2>1. PICK k \in hard..Len(versions) :
          versions' = SubSeq(versions, 1, k) /\ hard' = k
    BY <1>2 DEF Crash
  <2>2. \A i \in 1..hard : i \in 1..hard' /\ versions'[i] = versions[i]
    BY <2>1, SubSeqProperties, LenProperties DEF TypeOK
  <2>3. \A c \in Calls : /\ pc'[c] # "renamed"
                         /\ pc'[c] \in {"durable", "done"} => pc[c] = "done"
    BY <1>2 DEF Crash, TypeOK, Running, Ended
  <2> QED
    BY <2>2, <2>3 DEF RenamedIsVersion
<1>3. CASE UNCHANGED vars
  BY <1>3 DEF vars, RenamedIsVersion
<1> QED
  BY <1>1, <1>2, <1>3, RenamedCall DEF Next

(***************************************************************************)
(* The file of a call that returned stays among the versions of the        *)
(* target, whatever stops the machine (ReportedWritesSurvive; paths.py,    *)
(* write_file_bounded).                                                    *)
(***************************************************************************)
THEOREM DurableWrites == Spec => []ReportedWritesSurvive
<1>1. TypeOK /\ RenamedIsVersion => ReportedWritesSurvive
  <2> SUFFICES ASSUME TypeOK, RenamedIsVersion, NEW c \in Calls, pc[c] = "done"
               PROVE  c \in Range(versions)
    BY DEF ReportedWritesSurvive
  <2>1. PICK i \in 1..hard : versions[i] = c
    BY DEF RenamedIsVersion
  <2>2. i \in DOMAIN versions
    BY LenProperties DEF TypeOK
  <2> QED
    BY <2>1, <2>2 DEF Range
<1> QED
  BY <1>1, RenamedInit, RenamedStep, TypeCorrect, PTL DEF Spec
-----------------------------------------------------------------------------
(* Where a temporary name may be while the machine has not stopped.        *)
TempsAreInUse ==
  crashes = 0 => \A c \in temps : pc[c] \in {"created", "written", "flushed", "failing", "raised"}

LEMMA TempsCall ==
  ASSUME TypeOK, TempsAreInUse, NEW c \in Calls, CallStep(c)
  PROVE  TempsAreInUse'
<1> USE DEF TypeOK, TempsAreInUse, reading
<1>1. CASE Refuse(c)
  BY <1>1 DEF Refuse
<1>2. CASE Create(c)
  BY <1>2 DEF Create
<1>3. CASE Write(c)
  BY <1>3 DEF Write
<1>4. CASE Flush(c)
  BY <1>4 DEF Flush
<1>5. CASE Rename(c)
  BY <1>5 DEF Rename
<1>6. CASE FlushDirectory(c)
  BY <1>6 DEF FlushDirectory
<1>7. CASE Fail(c)
  BY <1>7 DEF Fail
<1>8. CASE CleanUp(c)
  BY <1>8 DEF CleanUp
<1>9. CASE CleanUpFails(c)
  BY <1>9 DEF CleanUpFails
<1> QED
  BY <1>1, <1>2, <1>3, <1>4, <1>5, <1>6, <1>7, <1>8, <1>9 DEF CallStep

(***************************************************************************)
(* A call that returned or raised SandboxError left no temporary file, at  *)
(* whichever step it failed and whatever other calls do, unless the        *)
(* machine stopped (paths.py, write_file_bounded, the finally clause).     *)
(***************************************************************************)
THEOREM NothingStays == Spec => []NothingLeftBehind
<1>1. Init => TempsAreInUse
  BY DEF Init, TempsAreInUse
<1>2. TypeOK /\ TempsAreInUse /\ [Next]_vars => TempsAreInUse'
  <2> SUFFICES ASSUME TypeOK, TempsAreInUse, [Next]_vars PROVE TempsAreInUse'
    OBVIOUS
  <2>1. ASSUME NEW r \in Reads, Open(r) \/ Read(r) PROVE TempsAreInUse'
    BY <2>1 DEF Open, Read, TempsAreInUse
  <2>2. CASE Crash
    <3>1. crashes' # 0
      BY <2>2 DEF Crash, TypeOK
    <3> QED
      BY <3>1 DEF TempsAreInUse
  <2>3. CASE UNCHANGED vars
    BY <2>3 DEF vars, TempsAreInUse
  <2> QED
    BY <2>1, <2>2, <2>3, TempsCall DEF Next
<1>3. TypeOK /\ TempsAreInUse => NothingLeftBehind
  BY FilesAssumption DEF TypeOK, TempsAreInUse, NothingLeftBehind
<1> QED
  BY <1>1, <1>2, <1>3, TypeCorrect, PTL DEF Spec
=============================================================================
