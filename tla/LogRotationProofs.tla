-------------------------- MODULE LogRotationProofs --------------------------
(***************************************************************************)
(* Proofs about LogRotation, for every set of configurations, every number *)
(* of log files and any number of crashes and failing renames.             *)
(***************************************************************************)
EXTENDS LogRotation, TLAPS

\* The loops run inside their ranges: the scan and the chain over suffixes
\* that exist, the chain below its top, the excess check from num_logs up; and
\* the loop a nested rotation goes back to is inside its own.
LoopRange ==
  /\ pc = "scan" => i \in 1 .. MaxIndex /\ ~Present(MaxIndex)
  /\ pc = "chain" => i \in 1 .. top
  /\ pc = "excess" => i >= conf.num_logs
  /\ outer.pc = "chain" => outer.i \in 1 .. outer.top

\* The next rename of a chain moves into a hole, as long as none failed; the
\* first one of a rotation with a limit is the exception.
TargetFree ==
  pc = "chain" /\ ~failed =>
    \/ ~Present(i)
    \/ op = "rotate" /\ i = top

\* No log lies beyond the highest suffix a rotation has used.
WithinWidest ==
  /\ \A k \in Index : Present(k) => k <= widest
  /\ pc = "chain" => top <= widest
  /\ outer.pc = "chain" => outer.top <= widest

\* The inductive invariant.
RotationInv == TypeOK /\ LoopRange /\ AgeOrder /\ TargetFree /\ WithinWidest

-----------------------------------------------------------------------------
(* Types and loop ranges                                                   *)

LEMMA ConfValue ==
  ASSUME NEW c \in Configs
  PROVE  c.num_logs \in Nat /\ c.num_logs <= MaxIndex
  BY ConfigsAssumption, BoundsAssumption

LEMMA InitInv == Init => RotationInv
<1> SUFFICES ASSUME Init PROVE RotationInv
  OBVIOUS
<1>1. FileTypes /\ LoopTypes
  BY BoundsAssumption DEF Init, FileTypes, LoopTypes, Index, None
<1>2. ControlTypes
  <2>1. crashes \in 0 .. MaxCrashes
    BY BoundsAssumption DEF Init
  <2>2. NoFrame \in [pc : {"none", "chain", "open"}, op : {"rotate", "shift"},
                     i : 0 .. MaxIndex, top : 1 .. MaxIndex]
    BY BoundsAssumption DEF NoFrame
  <2> QED
    BY <2>1, <2>2 DEF Init, ControlTypes
<1>3. LoopRange /\ TargetFree /\ WithinWidest
  BY DEF Init, LoopRange, TargetFree, WithinWidest, NoFrame, Present, Index, None
<1>4. AgeOrder
  BY DEF Init, AgeOrder, Present, Index, None
<1> QED
  BY <1>1, <1>2, <1>3, <1>4 DEF RotationInv, TypeOK

(* rename(2) and open_audit_log keep the files well-typed. *)
LEMMA RenameTypes ==
  ASSUME FileTypes, NEW from \in Index, NEW to \in Index, Rename(from, to), UNCHANGED created
  PROVE  FileTypes'
<1>1. files' \in [Index -> 0 .. created]
  BY DEF FileTypes, Rename, None
<1>2. ASSUME NEW g \in lost' PROVE g \in 1 .. created
  <2>1. g \in lost \/ (g = files[to] /\ g # 0)
    BY DEF Rename, None
  <2>2. files[to] \in 0 .. created /\ created \in Nat
    BY DEF FileTypes
  <2>3. CASE g \in lost
    BY <2>3 DEF FileTypes
  <2>4. CASE g = files[to] /\ g # 0
    BY <2>2, <2>4
  <2> QED
    BY <2>1, <2>3, <2>4
<1> QED
  BY <1>1, <1>2 DEF FileTypes

LEMMA OpenTypes ==
  ASSUME FileTypes, OpenCurrent, UNCHANGED lost
  PROVE  FileTypes' /\ created <= created'
<1>1. CASE Present(0)
  BY <1>1 DEF FileTypes, OpenCurrent
<1>2. CASE ~Present(0)
  <2>1. created' \in 1 .. MaxLogs /\ created' = created + 1 /\ created \in Nat
    BY <1>2, BoundsAssumption DEF FileTypes, OpenCurrent
  <2>2. files' \in [Index -> 0 .. created']
    BY <1>2, <2>1 DEF FileTypes, OpenCurrent, Index
  <2>3. lost' \subseteq 1 .. created'
    BY <2>1 DEF FileTypes
  <2> QED
    BY <2>1, <2>2, <2>3 DEF FileTypes
<1> QED
  BY <1>1, <1>2

LEMMA FileTypesKept == RotationInv /\ Next => FileTypes'
<1> SUFFICES ASSUME RotationInv, Next PROVE FileTypes'
  OBVIOUS
<1> USE DEF RotationInv, TypeOK
<1>1. CASE UNCHANGED <<files, created, lost>>
  BY <1>1 DEF FileTypes
<1>2. CASE RenameOlder
  <2>1. i - 1 \in Index /\ i \in Index
    BY <1>2, BoundsAssumption DEF RenameOlder, LoopRange, LoopTypes, Index
  <2> QED
    BY <1>1, <1>2, <2>1, RenameTypes DEF RenameOlder, Renamed, RenameFails
<1>3. CASE RenameCurrent
  <2>1. 0 \in Index /\ 1 \in Index
    BY BoundsAssumption DEF Index
  <2> QED
    BY <1>1, <1>3, <2>1, RenameTypes DEF RenameCurrent, Renamed, RenameFails
<1>4. CASE Reopen \/ ReopenNested
  BY <1>1, <1>4, OpenTypes DEF Reopen, ReopenNested
<1>5. CASE ResumeLogging
  BY <1>1, <1>5, OpenTypes DEF ResumeLogging
<1>6. CASE Restart
  BY <1>6, OpenTypes DEF Restart
<1>7. CASE ExcessUnlink
  <2>1. i \in Index /\ files[i] \in 0 .. created /\ files[i] # 0
    BY <1>7 DEF ExcessUnlink, FileTypes, LoopTypes, Present, Index, None
  <2>2. files' \in [Index -> 0 .. created] /\ created \in Nat
    BY <1>7, <2>1 DEF ExcessUnlink, FileTypes, None
  <2>3. lost' = lost \cup {files[i]} /\ files[i] \in 1 .. created
    BY <1>7, <2>1, <2>2 DEF ExcessUnlink
  <2> QED
    BY <1>7, <2>2, <2>3 DEF ExcessUnlink, FileTypes
<1>8. CASE RemoveFile
  BY <1>8 DEF RemoveFile, FileTypes, Present, Index, None
<1> QED
  BY <1>1, <1>2, <1>3, <1>4, <1>5, <1>6, <1>7, <1>8
  DEF Next, Rotate, RotateNow, ScanFound, ScanRestart, ScanEnd, ExcessEnd, Reconfigure,
      Crash

LEMMA LoopTypesKept == RotationInv /\ Next => LoopTypes'
<1> SUFFICES ASSUME RotationInv, Next PROVE LoopTypes'
  OBVIOUS
<1> USE BoundsAssumption DEF RotationInv, TypeOK, LoopTypes, Wider
<1>0. /\ conf \in Configs /\ conf.num_logs \in Nat /\ conf.num_logs <= MaxIndex
  BY ConfValue DEF ControlTypes
<1>1. CASE Rotate
  BY <1>1, <1>0 DEF Rotate, SizeCheck, StartRotate, StartShift
<1>2. CASE RotateNow
  BY <1>2, <1>0 DEF RotateNow, StartRotate, StartShift
<1>3. CASE ScanFound
  BY <1>3 DEF ScanFound, LoopRange, Present, Index
<1>4. CASE ScanRestart
  BY <1>4 DEF ScanRestart, LoopRange
<1>5. CASE ScanEnd
  BY <1>5 DEF ScanEnd, LoopRange
<1>6. CASE RenameOlder
  BY <1>6, <1>0 DEF RenameOlder, Renamed, RenameFails, StartRotate, LoopRange
<1>7. CASE RenameCurrent
  BY <1>7, <1>0 DEF RenameCurrent, Renamed, RenameFails, StartRotate
<1>8. CASE Reopen
  BY <1>8, <1>0 DEF Reopen, AfterCheck
<1>16. CASE ReopenNested
  BY <1>16 DEF ReopenNested, ControlTypes
<1>9. CASE ResumeLogging
  BY <1>9, <1>0 DEF ResumeLogging, SizeCheck, StartRotate, StartShift
<1>10. CASE ExcessUnlink
  BY <1>10 DEF ExcessUnlink
<1>11. CASE ExcessEnd
  BY <1>11 DEF ExcessEnd
<1>12. CASE Reconfigure
  BY <1>12, ConfValue DEF Reconfigure, SizeCheck, StartRotate, StartShift, AfterCheck
<1>13. CASE Crash
  BY <1>13 DEF Crash
<1>14. CASE Restart
  BY <1>14, ConfValue DEF Restart, SizeCheck, StartRotate, StartShift, AfterCheck
<1>15. CASE RemoveFile
  BY <1>15 DEF RemoveFile
<1> QED
  BY <1>1, <1>2, <1>3, <1>4, <1>5, <1>6, <1>7, <1>8, <1>9, <1>10, <1>11, <1>12, <1>13, <1>14, <1>15, <1>16
  DEF Next

(* The frame a nested rotation goes back to. *)
Frames ==
  [pc : {"none", "chain", "open"}, op : {"rotate", "shift"}, i : 0 .. MaxIndex,
   top : 1 .. MaxIndex]

LEMMA NoFrameType == NoFrame \in Frames
  BY BoundsAssumption DEF NoFrame, Frames

LEMMA FrameType ==
  ASSUME TypeOK, NEW p \in {"chain", "open"}, NEW k \in 0 .. MaxIndex
  PROVE  [pc |-> p, op |-> op, i |-> k, top |-> top] \in Frames
  BY DEF TypeOK, ControlTypes, LoopTypes, Frames

LEMMA ControlTypesKept == RotationInv /\ Next => ControlTypes'
<1> SUFFICES ASSUME RotationInv, Next PROVE ControlTypes'
  OBVIOUS
<1> USE DEF RotationInv, TypeOK, ControlTypes, Frames
<1>1. CASE Rotate
  BY <1>1 DEF Rotate, DiskMayBeFull, SizeCheck, StartRotate, StartShift
<1>2. CASE RotateNow
  BY <1>2 DEF RotateNow, StartRotate, StartShift
<1>3. CASE ScanFound
  BY <1>3 DEF ScanFound
<1>4. CASE ScanRestart
  BY <1>4 DEF ScanRestart
<1>5. CASE ScanEnd
  BY <1>5 DEF ScanEnd
<1>6. CASE RenameOlder
  <2>1. i - 1 \in 0 .. MaxIndex
    BY <1>6, BoundsAssumption DEF RenameOlder, LoopRange, LoopTypes
  <2> QED
    BY <1>6, <2>1, FrameType
    DEF RenameOlder, DiskMayBeFull, Renamed, RenameFails, StartRotate
<1>7. CASE RenameCurrent
  <2>1. i \in 0 .. MaxIndex
    BY <1>7, BoundsAssumption DEF RenameCurrent, LoopRange, LoopTypes
  <2> QED
    BY <1>7, <2>1, FrameType
    DEF RenameCurrent, DiskMayBeFull, Renamed, RenameFails, StartRotate
<1>8. CASE Reopen
  BY <1>8 DEF Reopen, AfterCheck
<1>16. CASE ReopenNested
  BY <1>16, NoFrameType DEF ReopenNested
<1>9. CASE ResumeLogging
  BY <1>9 DEF ResumeLogging, SizeCheck, StartRotate, StartShift
<1>10. CASE ExcessUnlink
  BY <1>10 DEF ExcessUnlink
<1>11. CASE ExcessEnd
  BY <1>11 DEF ExcessEnd
<1>12. CASE Reconfigure
  BY <1>12 DEF Reconfigure, SizeCheck, StartRotate, StartShift, AfterCheck
<1>13. CASE Crash
  <2>1. crashes' \in 0 .. MaxCrashes
    BY <1>13, BoundsAssumption DEF Crash
  <2> QED
    BY <1>13, <2>1, NoFrameType DEF Crash
<1>14. CASE Restart
  BY <1>14 DEF Restart, SizeCheck, StartRotate, StartShift, AfterCheck
<1>15. CASE RemoveFile
  BY <1>15 DEF RemoveFile
<1> QED
  BY <1>1, <1>2, <1>3, <1>4, <1>5, <1>6, <1>7, <1>8, <1>9, <1>10, <1>11, <1>12, <1>13, <1>14, <1>15, <1>16
  DEF Next

LEMMA LoopRangeKept == RotationInv /\ Next => LoopRange'
<1> SUFFICES ASSUME RotationInv, Next PROVE LoopRange'
  OBVIOUS
<1> USE BoundsAssumption DEF RotationInv, TypeOK, LoopRange, LoopTypes
<1>0. /\ conf \in Configs /\ conf.num_logs \in Nat /\ conf.num_logs <= MaxIndex
  BY ConfValue DEF ControlTypes
<1>1. CASE Rotate
  BY <1>1, <1>0 DEF Rotate, SizeCheck, StartRotate, StartShift, Present
<1>2. CASE RotateNow
  BY <1>2, <1>0 DEF RotateNow, StartRotate, StartShift, Present
<1>3. CASE ScanFound
  BY <1>3, <1>0 DEF ScanFound, Present, Index
<1>4. CASE ScanRestart
  BY <1>4, <1>0 DEF ScanRestart, Present
<1>5. CASE ScanEnd
  BY <1>5, <1>0 DEF ScanEnd, Present
<1>6. CASE RenameOlder
  BY <1>6, <1>0 DEF RenameOlder, Renamed, RenameFails, StartRotate, Present, Index
<1>7. CASE RenameCurrent
  BY <1>7, <1>0 DEF RenameCurrent, Renamed, RenameFails, StartRotate, Present, Index
<1>8. CASE Reopen
  BY <1>8, <1>0 DEF Reopen, AfterCheck, Present, OpenCurrent, FileTypes, Index, None
<1>16. CASE ReopenNested
  BY <1>16 DEF ReopenNested, ControlTypes, NoFrame
<1>9. CASE ResumeLogging
  BY <1>9, <1>0
  DEF ResumeLogging, SizeCheck, StartRotate, StartShift, Present, OpenCurrent, FileTypes,
      Index, None
<1>10. CASE ExcessUnlink
  BY <1>10, <1>0 DEF ExcessUnlink, Present
<1>11. CASE ExcessEnd
  BY <1>11, <1>0 DEF ExcessEnd, Present
<1>12. CASE Reconfigure
  BY <1>12, <1>0, ConfValue DEF Reconfigure, SizeCheck, StartRotate, StartShift, AfterCheck, Present
<1>13. CASE Crash
  BY <1>13, <1>0 DEF Crash, NoFrame
<1>14. CASE Restart
  BY SMTT(30), <1>14, <1>0, ConfValue DEF Restart, SizeCheck, StartRotate, StartShift, AfterCheck, Present, OpenCurrent, FileTypes, Index, None
<1>15. CASE RemoveFile
  BY <1>15, <1>0 DEF RemoveFile, Present, FileTypes, Index, None
<1> QED
  BY <1>1, <1>2, <1>3, <1>4, <1>5, <1>6, <1>7, <1>8, <1>9, <1>10, <1>11, <1>12, <1>13, <1>14, <1>15, <1>16
  DEF Next

-----------------------------------------------------------------------------
(* The order of the files                                                  *)

LEMMA RenameOrder ==
  ASSUME FileTypes, AgeOrder, NEW k \in Index, k + 1 \in Index, Rename(k, k + 1)
  PROVE  AgeOrder'
  BY DEF FileTypes, AgeOrder, Rename, Present, Index, None

LEMMA OpenOrder ==
  ASSUME FileTypes, AgeOrder, OpenCurrent
  PROVE  AgeOrder'
  BY BoundsAssumption DEF FileTypes, AgeOrder, OpenCurrent, Present, Index, None

LEMMA RemoveOrder ==
  ASSUME FileTypes, AgeOrder, NEW k \in Index, files' = [files EXCEPT ![k] = None]
  PROVE  AgeOrder'
  BY DEF FileTypes, AgeOrder, Present, Index, None

LEMMA AgeOrderKept == RotationInv /\ Next => AgeOrder'
<1> SUFFICES ASSUME RotationInv, Next PROVE AgeOrder'
  OBVIOUS
<1> USE DEF RotationInv, TypeOK
<1>1. CASE UNCHANGED files
  BY <1>1 DEF AgeOrder, Present
<1>2. CASE RenameOlder
  <2>1. i - 1 \in Index /\ (i - 1) + 1 \in Index /\ (i - 1) + 1 = i
    BY <1>2, BoundsAssumption DEF RenameOlder, LoopRange, LoopTypes, Index
  <2> QED
    BY <1>1, <1>2, <2>1, RenameOrder DEF RenameOlder, Renamed, RenameFails
<1>3. CASE RenameCurrent
  <2>1. 0 \in Index /\ 0 + 1 \in Index /\ 0 + 1 = 1
    BY BoundsAssumption DEF Index
  <2> QED
    BY <1>1, <1>3, <2>1, RenameOrder DEF RenameCurrent, Renamed, RenameFails
<1>4. CASE Reopen \/ ReopenNested \/ ResumeLogging \/ Restart
  BY <1>1, <1>4, OpenOrder DEF Reopen, ReopenNested, ResumeLogging, Restart
<1>5. CASE ExcessUnlink
  <2>1. i \in Index
    BY <1>5 DEF ExcessUnlink, LoopTypes, Index
  <2> QED
    BY <1>5, <2>1, RemoveOrder DEF ExcessUnlink
<1>6. CASE RemoveFile
  BY <1>6, RemoveOrder DEF RemoveFile
<1> QED
  BY <1>1, <1>2, <1>3, <1>4, <1>5, <1>6
  DEF Next, Rotate, RotateNow, ScanFound, ScanRestart, ScanEnd, ExcessEnd, Reconfigure,
      Crash

(* The hole ahead of the chain: each rename, done or not needed, leaves one *)
(* behind it for the next.                                                  *)
LEMMA TargetFreeKept == RotationInv /\ Next => TargetFree'
<1> SUFFICES ASSUME RotationInv, Next PROVE TargetFree'
  OBVIOUS
<1> USE DEF RotationInv, TypeOK, TargetFree
<1>1. CASE pc' # "chain"
  BY <1>1
<1>2. CASE Rotate \/ RotateNow \/ ResumeLogging
  BY <1>2 DEF Rotate, RotateNow, ResumeLogging, SizeCheck, StartRotate, StartShift
<1>3. CASE Reconfigure \/ Restart
  BY <1>3 DEF Reconfigure, Restart, AfterCheck, SizeCheck, StartRotate, StartShift
<1>4. CASE ScanEnd
  BY <1>4 DEF ScanEnd, Present
<1>5. CASE RenameOlder
  <2>1. i - 1 \in Index /\ i \in Index /\ i \in Int
    BY <1>5, BoundsAssumption DEF RenameOlder, LoopRange, LoopTypes, Index
  <2>2. CASE Present(i - 1) /\ Rename(i - 1, i) /\ i' = i - 1
    BY <2>1, <2>2 DEF Rename, Present, FileTypes
  <2>3. CASE ~Present(i - 1) /\ UNCHANGED files /\ i' = i - 1
    BY <2>1, <2>3 DEF Present
  <2>4. CASE RenameFails(i - 1, "chain", i - 1)
    BY <2>4 DEF RenameFails, StartRotate
  <2> QED
    BY <1>5, <2>2, <2>3, <2>4 DEF RenameOlder, Renamed
<1>7. CASE RenameCurrent
  BY <1>7 DEF RenameCurrent, Renamed, RenameFails, StartRotate
<1>8. CASE ReopenNested
  BY <1>8 DEF ReopenNested
<1>6. CASE RemoveFile
  <2>1. pc = "chain" => i \in Index
    BY BoundsAssumption DEF LoopRange, LoopTypes, Index
  <2> QED
    BY <1>6, <2>1 DEF RemoveFile, Present, FileTypes
<1> QED
  BY <1>1, <1>2, <1>3, <1>4, <1>5, <1>6, <1>7, <1>8
  DEF Next, ScanFound, ScanRestart, Reopen, AfterCheck, ExcessUnlink, ExcessEnd, Crash

(* A rename moves a log by one suffix, below the top of its rotation. *)
LEMMA RenameWithin ==
  ASSUME FileTypes, NEW k \in Index, k + 1 \in Index, Rename(k, k + 1), k + 1 <= widest,
         \A j \in Index : Present(j) => j <= widest, widest' = widest
  PROVE  \A j \in Index : Present(j)' => j <= widest'
  BY DEF FileTypes, Rename, Present, Index, None

LEMMA OpenWithin ==
  ASSUME FileTypes, LoopTypes, OpenCurrent, \A j \in Index : Present(j) => j <= widest
  PROVE  \A j \in Index : Present(j)' => j <= widest
  BY BoundsAssumption DEF FileTypes, LoopTypes, OpenCurrent, Present, Index, None

LEMMA WithinWidestKept == RotationInv /\ Next => WithinWidest'
<1> SUFFICES ASSUME RotationInv, Next PROVE WithinWidest'
  OBVIOUS
<1> USE DEF RotationInv, TypeOK
<1>0. /\ conf \in Configs /\ conf.num_logs \in Nat /\ conf.num_logs <= MaxIndex
      /\ widest \in Nat /\ MaxIndex \in Nat \ {0} /\ top \in Nat /\ Index \subseteq Nat
      /\ outer.top \in Nat
  BY ConfValue, BoundsAssumption DEF ControlTypes, LoopTypes, Index
<1>1. \A j \in Index : Present(j)' => j <= widest'
  <2>1. CASE UNCHANGED files /\ widest' >= widest /\ widest' \in Nat
    BY <1>0, <2>1 DEF WithinWidest, Present
  <2>2. CASE RenameOlder
    <3>1. /\ i - 1 \in Index /\ (i - 1) + 1 \in Index /\ (i - 1) + 1 = i
          /\ (i - 1) + 1 <= widest
      BY <1>0, <2>2, BoundsAssumption DEF RenameOlder, LoopRange, LoopTypes, Index, WithinWidest
    <3>2. CASE Renamed(i - 1, i)
      <4>1. CASE Rename(i - 1, (i - 1) + 1)
        BY <3>1, <3>2, <4>1, RenameWithin DEF Renamed, WithinWidest
      <4>2. CASE UNCHANGED files
        BY <2>1, <3>2, <4>2, <1>0 DEF Renamed
      <4> QED
        BY <3>1, <3>2, <4>1, <4>2 DEF Renamed
    <3>3. CASE RenameFails(i - 1, "chain", i - 1)
      BY <2>1, <3>3, <1>0 DEF RenameFails, StartRotate, Wider
    <3> QED
      BY <2>2, <3>2, <3>3 DEF RenameOlder
  <2>3. CASE RenameCurrent
    <3>1. 0 \in Index /\ 0 + 1 \in Index /\ 0 + 1 = 1 /\ 0 + 1 <= widest
      BY BoundsAssumption DEF LoopTypes, Index
    <3>2. CASE Renamed(0, 1)
      <4>1. CASE Rename(0, 0 + 1)
        BY <3>1, <3>2, <4>1, RenameWithin DEF Renamed, WithinWidest
      <4>2. CASE UNCHANGED files
        BY <2>1, <3>2, <4>2, <1>0 DEF Renamed
      <4> QED
        BY <3>1, <3>2, <4>1, <4>2 DEF Renamed
    <3>3. CASE RenameFails(0, "open", i)
      BY <2>1, <3>3, <1>0 DEF RenameFails, StartRotate, Wider
    <3> QED
      BY <2>3, <3>2, <3>3 DEF RenameCurrent
  <2>4. CASE OpenCurrent /\ widest' >= widest /\ widest' \in Nat
    BY <1>0, <2>4, OpenWithin DEF WithinWidest
  <2>5. CASE Reopen \/ ReopenNested
    BY <1>0, <2>1, <2>4, <2>5 DEF Reopen, ReopenNested
  <2>6. CASE ResumeLogging
    BY <1>0, <2>1, <2>4, <2>6 DEF ResumeLogging, SizeCheck, StartRotate, StartShift, Wider
  <2>7. CASE Restart
    BY <1>0, <2>4, <2>7, ConfValue DEF Restart, SizeCheck, StartRotate, StartShift, Wider
  <2>8. CASE ExcessUnlink
    BY <1>0, <2>8 DEF ExcessUnlink, WithinWidest, Present, FileTypes, None
  <2>9. CASE RemoveFile
    BY <1>0, <2>9 DEF RemoveFile, WithinWidest, Present, FileTypes, None
  <2>10. CASE Rotate \/ RotateNow
    BY <1>0, <2>1, <2>10 DEF Rotate, RotateNow, SizeCheck, StartRotate, StartShift, Wider
  <2>11. CASE Reconfigure
    BY <1>0, <2>1, <2>11, ConfValue DEF Reconfigure, SizeCheck, StartRotate, StartShift, Wider
  <2>12. CASE ScanEnd
    BY <1>0, <2>1, <2>12 DEF ScanEnd, Wider, LoopTypes
  <2> QED
    BY <1>0, <2>1, <2>2, <2>3, <2>5, <2>6, <2>7, <2>8, <2>9, <2>10, <2>11, <2>12
    DEF Next, ScanFound, ScanRestart, ExcessEnd, Crash
<1>2. (pc' = "chain" => top' <= widest') /\ (outer'.pc = "chain" => outer'.top <= widest')
  <2> USE DEF WithinWidest
  <2>1. CASE RenameOlder \/ RenameCurrent
    BY <1>0, <2>1 DEF RenameOlder, RenameCurrent, Renamed, RenameFails, StartRotate, Wider
  <2>2. CASE ReopenNested
    BY <1>0, <2>2 DEF ReopenNested, NoFrame
  <2>3. CASE Rotate \/ RotateNow \/ ResumeLogging
    BY <1>0, <2>3
    DEF Rotate, RotateNow, ResumeLogging, SizeCheck, StartRotate, StartShift, Wider
  <2>4. CASE Reconfigure
    BY <1>0, <2>4, ConfValue
    DEF Reconfigure, SizeCheck, StartRotate, StartShift, Wider, AfterCheck
  <2>5. CASE Restart
    BY <1>0, <2>5, ConfValue DEF Restart, SizeCheck, StartRotate, StartShift, Wider, AfterCheck
  <2>6. CASE ScanEnd
    BY <1>0, <2>6 DEF ScanEnd, Wider, LoopTypes
  <2>7. CASE Crash
    BY <2>7 DEF Crash, NoFrame
  <2> QED
    BY <2>1, <2>2, <2>3, <2>4, <2>5, <2>6, <2>7
    DEF Next, ScanFound, ScanRestart, Reopen, AfterCheck, ExcessUnlink, ExcessEnd, RemoveFile
<1> QED
  BY <1>1, <1>2 DEF WithinWidest

-----------------------------------------------------------------------------
(* The theorems                                                            *)

LEMMA RotationInvariant == Spec => []RotationInv
<1>1. RotationInv /\ [Next]_vars => RotationInv'
  <2> SUFFICES ASSUME RotationInv, [Next]_vars PROVE RotationInv'
    OBVIOUS
  <2>1. CASE Next
    BY <2>1, FileTypesKept, LoopTypesKept, ControlTypesKept, LoopRangeKept, AgeOrderKept,
       TargetFreeKept, WithinWidestKept
    DEF RotationInv, TypeOK
  <2>2. CASE UNCHANGED vars
    BY <2>2
    DEF vars, RotationInv, TypeOK, FileTypes, LoopTypes, ControlTypes, LoopRange,
        AgeOrder, TargetFree, WithinWidest, Present
  <2> QED
    BY <2>1, <2>2
<1> QED
  BY <1>1, InitInv, PTL DEF Spec

\* Type correctness, for all configurations and bounds: the loops of rotate_logs,
\* shift_logs and check_excess_logs never leave the range of suffixes.
THEOREM RotationTypes == Spec => []TypeOK
  BY RotationInvariant, PTL DEF RotationInv

\* At every moment a log with a higher number is older than one with a lower
\* number, whatever renames of rotate_logs fail, files vanish or crashes strike.
THEOREM HigherIsOlder == Spec => []AgeOrder
  BY RotationInvariant, PTL DEF RotationInv

\* As long as its renames succeed, shift_logs (keep_logs) overwrites no log.
THEOREM ShiftLosesNothing == Spec => ShiftKeepsLogs
<1>1. RotationInv /\ [Next]_vars =>
        [pc = "chain" /\ op = "shift" /\ ~failed => lost' = lost]_vars
  <2> SUFFICES ASSUME RotationInv, Next, pc = "chain", op = "shift", ~failed
               PROVE  lost' = lost
    BY DEF vars
  <2>1. ~Present(i)
    BY DEF RotationInv, TargetFree
  <2>2. CASE RenameOlder
    BY <2>1, <2>2 DEF RenameOlder, Renamed, RenameFails, Rename, Present
  <2>3. CASE RenameCurrent
    <3>1. i = 1
      BY <2>3 DEF RenameCurrent, RotationInv, TypeOK, LoopRange, LoopTypes
    <3> QED
      BY <2>1, <2>3, <3>1 DEF RenameCurrent, Renamed, RenameFails, Rename, Present
  <2> QED
    BY <2>2, <2>3
    DEF Next, Rotate, RotateNow, ScanFound, ScanRestart, ScanEnd, Reopen, ReopenNested, ResumeLogging,
        ExcessUnlink, ExcessEnd, Reconfigure, Crash, Restart, RemoveFile
<1> QED
  BY <1>1, RotationInvariant, PTL DEF Spec, ShiftKeepsLogs

\* rotate_logs(0, 0) loses the oldest of all logs, as long as its renames succeed
\* and no earlier rotation has used higher suffixes.
THEOREM RotateLosesOne == Spec => RotateLosesOldest
<1>1. RotationInv /\ [Next]_vars =>
        [pc = "chain" /\ op = "rotate" /\ ~failed /\ widest <= top =>
           \A g \in lost' \ lost : \A k \in Index : Present(k) => g <= files[k]]_vars
  <2> SUFFICES ASSUME RotationInv, Next, pc = "chain", op = "rotate", ~failed, widest <= top,
                      NEW g \in lost' \ lost, NEW k \in Index, Present(k)
               PROVE  g <= files[k]
    BY DEF vars
  <2>1. ~Present(i) \/ i = top
    BY DEF RotationInv, TargetFree
  <2>2. g = files[i] /\ Present(i)
    <3>1. CASE RenameOlder
      BY <3>1 DEF RenameOlder, Renamed, RenameFails, Rename, Present
    <3>2. CASE RenameCurrent
      <4>1. i = 1
        BY <3>2 DEF RenameCurrent, RotationInv, TypeOK, LoopRange, LoopTypes
      <4> QED
        BY <3>2, <4>1 DEF RenameCurrent, Renamed, RenameFails, Rename, Present
    <3> QED
      BY <3>1, <3>2
      DEF Next, Rotate, RotateNow, ScanFound, ScanRestart, ScanEnd, Reopen, ReopenNested,
          ResumeLogging, ExcessUnlink, ExcessEnd, Reconfigure, Crash, Restart, RemoveFile
  <2>3. i = top /\ i \in Index /\ k \in Nat /\ i \in Nat /\ k <= i
    <3>1. k <= widest /\ widest \in Nat /\ top \in 1 .. MaxIndex /\ MaxIndex \in Nat
      BY BoundsAssumption DEF RotationInv, TypeOK, LoopTypes, WithinWidest
    <3> QED
      BY <2>1, <2>2, <3>1 DEF Index
  <2>4. files[i] \in Nat /\ files[k] \in Nat
    BY <2>3 DEF RotationInv, TypeOK, FileTypes
  <2> QED
    BY <2>2, <2>3, <2>4 DEF RotationInv, AgeOrder
<1> QED
  BY <1>1, RotationInvariant, PTL DEF Spec, RotateLosesOldest

\* check_excess_logs removes only logs older than all those a rotation keeps.
THEOREM ExcessRemovesOldest == Spec => ExcessIsOldest
<1>1. RotationInv /\ [Next]_vars =>
        [pc = "excess" => \A g \in lost' \ lost : \A k \in 0 .. conf.num_logs - 1 :
                            Present(k) => g < files[k]]_vars
  <2> SUFFICES ASSUME RotationInv, Next, pc = "excess", NEW g \in lost' \ lost,
                      NEW k \in 0 .. conf.num_logs - 1, Present(k)
               PROVE  g < files[k]
    BY DEF vars
  <2>1. ExcessUnlink
    BY DEF Next, Rotate, RotateNow, ScanFound, ScanRestart, ScanEnd, RenameOlder,
           RenameCurrent, Reopen, ReopenNested, ResumeLogging, ExcessEnd, Reconfigure, Crash, Restart,
           RemoveFile
  <2>2. g = files[i] /\ Present(i)
    BY <2>1 DEF ExcessUnlink
  <2>3. i \in Index /\ k \in Index /\ k < i
    <3>1. conf.num_logs \in Nat /\ conf.num_logs <= MaxIndex /\ MaxIndex \in Nat
      BY ConfValue, BoundsAssumption DEF RotationInv, TypeOK, ControlTypes
    <3>2. i \in 0 .. MaxIndex + 1 /\ i <= MaxIndex /\ i >= conf.num_logs
      BY <2>1 DEF ExcessUnlink, RotationInv, TypeOK, LoopTypes, LoopRange
    <3> QED
      BY <3>1, <3>2 DEF Index
  <2> QED
    BY <2>2, <2>3 DEF RotationInv, AgeOrder
<1> QED
  BY <1>1, RotationInvariant, PTL DEF Spec, ExcessIsOldest
=============================================================================
