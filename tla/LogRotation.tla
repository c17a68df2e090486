---------------------------- MODULE LogRotation ----------------------------
(***************************************************************************)
(* The audit log files on disk and the code of auditd-event.c that renames *)
(* and removes them: rotate_logs, shift_logs, check_excess_logs and the    *)
(* reopening of the current log.  Every rename and unlink is a step of its *)
(* own, so an archive script may remove files between two of them, any     *)
(* rename may fail, and the daemon may be killed in the middle and started *)
(* again.  A rename that fails because the disk is full may start a second *)
(* rotation inside the first (disk_full_action = rotate): outer is the     *)
(* frame of the first one meanwhile.  Which action is set for low space    *)
(* and for a full disk is left open.                                       *)
(*                                                                         *)
(* A log is known by its generation, the order in which it was created.    *)
(* What the log holds, permissions, messages and known_logs (a number that *)
(* is only printed) are left out.                                          *)
(***************************************************************************)
EXTENDS Integers

CONSTANTS
  Configs,      \* the settings [num_logs, action] an administrator may choose
  MaxIndex,     \* bound: highest suffix of a log file
  MaxLogs,      \* bound: number of log files ever created
  MaxCrashes,   \* bound: number of times the daemon is killed
  RenamesFail   \* may a rename fail with an error other than ENOENT?

\* max_log_file_action, as far as the code here tells its values apart
Actions == {"rotate", "keep_logs", "other"}

ASSUME ConfigsAssumption == Configs \subseteq [num_logs : Nat, action : Actions]
ASSUME BoundsAssumption ==
  /\ MaxIndex \in Nat \ {0} /\ MaxLogs \in Nat \ {0} /\ MaxCrashes \in Nat
  /\ RenamesFail \in BOOLEAN
  /\ \A c \in Configs : c.num_logs <= MaxIndex

VARIABLES
  files,      \* files[k]: generation of log_file.k (k = 0: log_file); 0 if absent
  created,    \* generations created so far
  conf,       \* the configuration in force
  last_log,   \* the static variable of shift_logs
  pc,         \* where the daemon is
  op,         \* "rotate" or "shift": who called rotate_logs
  i,          \* loop variable of the scan, of the rename chain, of the excess check
  top,        \* highest suffix the running rotate_logs uses
  then,       \* what the caller does after the rotation: "idle" (nothing), "excess"
              \* (the excess check of init_event), "space" (that of reconfigure)
  fs_space_left,  \* the disk has not been found full yet
  outer,      \* frame of the rotate_logs in which this one was called, a record
              \* [pc, op, i, top]; pc is "none" if there is no such frame
  crashes,    \* number of crashes so far
  failed,     \* history: a rename of this rotation failed
  lost,       \* history: generations overwritten or removed by the daemon
  widest      \* history: highest suffix a rotation has used so far

vars == <<files, created, conf, last_log, pc, op, i, top, then, fs_space_left, outer,
          crashes, failed, lost, widest>>

None == 0
Index == 0 .. MaxIndex
Present(k) == files[k] # None
NoFrame == [pc |-> "none", op |-> "rotate", i |-> 0, top |-> 1]

Init ==
  /\ files = [k \in Index |-> IF k = 0 THEN 1 ELSE None]
  /\ created = 1
  /\ conf \in Configs
  /\ last_log = 1
  /\ pc = "idle" /\ op = "rotate" /\ i = 0 /\ top = 1 /\ then = "idle"
  /\ fs_space_left = TRUE /\ outer = NoFrame
  /\ crashes = 0
  /\ failed = FALSE /\ lost = {} /\ widest = 1

-----------------------------------------------------------------------------
(* Starting a rotation                                                     *)

\* Bound: a rotation starts only if it can create one more log.
RoomToRotate == created < MaxLogs

Wider(k) == widest' = IF k > widest THEN k ELSE widest

\* mutant: the loop starts one turn late
StartRotateLate(c) ==
  /\ c.num_logs >= 2
  /\ op' = "rotate" /\ pc' = "chain" /\ Wider(c.num_logs - 1)
  /\ top' = c.num_logs - 1 /\ i' = c.num_logs - 2

\* rotate_logs(0, 0): the suffixes run up to num_logs - 1
StartRotate(c) ==
  /\ c.num_logs >= 2
  /\ op' = "rotate" /\ pc' = "chain" /\ Wider(c.num_logs - 1)
  /\ top' = c.num_logs - 1 /\ i' = c.num_logs - 1

\* shift_logs: look for the last log, starting at the last one known
\* (bound: the highest suffix is still free).
StartShift(lastLog) ==
  /\ ~Present(MaxIndex)
  /\ op' = "shift" /\ pc' = "scan" /\ i' = lastLog /\ top' = 1
  /\ UNCHANGED widest

\* check_log_file_size found the log over its limit
SizeCheck(c, lastLog) ==
  \/ c.action = "rotate" /\ StartRotate(c)
  \/ c.action = "keep_logs" /\ StartShift(lastLog)

\* The disk is found full, or it is not
DiskMayBeFull == fs_space_left' = FALSE \/ UNCHANGED fs_space_left

\* write_to_log met the size limit, or the actions on low space or on a full
\* disk ask for a rotation (rotate_logs(0, 0), whatever max_log_file_action
\* says); on a full disk fs_space_left becomes 0 first.
Rotate ==
  /\ pc = "idle" /\ RoomToRotate
  /\ \/ SizeCheck(conf, last_log) /\ UNCHANGED fs_space_left
     \/ StartRotate(conf) /\ DiskMayBeFull
  /\ then' = "idle" /\ failed' = FALSE
  /\ UNCHANGED <<files, created, conf, last_log, outer, crashes, lost>>

\* rotate_logs_now: SIGUSR1
RotateNow ==
  /\ pc = "idle" /\ RoomToRotate
  /\ IF conf.action = "keep_logs" THEN StartShift(last_log) ELSE StartRotate(conf)
  /\ then' = "idle" /\ failed' = FALSE
  /\ UNCHANGED <<files, created, conf, last_log, fs_space_left, outer, crashes, lost>>

-----------------------------------------------------------------------------
(* shift_logs: find the first suffix that is free                          *)

ScanFound ==
  /\ pc = "scan" /\ i <= MaxIndex /\ Present(i)
  /\ i' = i + 1
  /\ UNCHANGED <<files, created, conf, last_log, pc, op, top, then, fs_space_left, outer,
                 crashes, failed, lost, widest>>

\* Our last known file disappeared, start over...
ScanRestart ==
  /\ pc = "scan" /\ i <= MaxIndex /\ ~Present(i)
  /\ i <= last_log /\ last_log > 1
  /\ i' = 1 /\ last_log' = 1
  /\ UNCHANGED <<files, created, conf, pc, op, top, then, fs_space_left, outer, crashes,
                 failed, lost, widest>>

\* mutant: rotate_logs(num_logs, 1)
ScanEndOneShort ==
  /\ pc = "scan" /\ i <= MaxIndex /\ ~Present(i)
  /\ ~(i <= last_log /\ last_log > 1)
  /\ last_log' = i /\ top' = i - 1 /\ i' = i - 1
  /\ pc' = "chain" /\ Wider(i - 1)
  /\ UNCHANGED <<files, created, conf, op, then, fs_space_left, outer, crashes, failed, lost>>

\* rotate_logs(num_logs + 1, 1)
ScanEnd ==
  /\ pc = "scan" /\ i <= MaxIndex /\ ~Present(i)
  /\ ~(i <= last_log /\ last_log > 1)
  /\ last_log' = i /\ top' = i
  /\ pc' = "chain" /\ Wider(i)
  /\ UNCHANGED <<files, created, conf, op, i, then, fs_space_left, outer, crashes, failed,
                 lost>>

-----------------------------------------------------------------------------
(* rotate_logs                                                             *)

\* rename(2): the source, which exists, replaces the target
Rename(from, to) ==
  /\ files' = [files EXCEPT ![to] = files[from], ![from] = None]
  /\ lost' = lost \cup ({files[to]} \ {None})

\* A rename is done, or not needed since the source is not there (ENOENT), and
\* the loop goes on.
Renamed(from, to) ==
  /\ \/ Present(from) /\ Rename(from, to)
     \/ ~Present(from) /\ UNCHANGED <<files, lost>>
  /\ UNCHANGED <<op, top, failed, fs_space_left, outer, widest>>

\* The rename of a file that is there fails.  The loop goes on at nextPc and
\* nextI, but with ENOSPC the disk is noted to be full, and the first time that
\* happens do_disk_full_action may rotate before it does.
RenameFails(from, nextPc, nextI) ==
  /\ RenamesFail /\ Present(from)
  /\ \/ /\ pc' = nextPc /\ i' = nextI /\ failed' = TRUE
        /\ DiskMayBeFull
        /\ UNCHANGED <<op, top, outer, widest>>
     \/ /\ fs_space_left /\ fs_space_left' = FALSE
        /\ outer' = [pc |-> nextPc, op |-> op, i |-> nextI, top |-> top]
        /\ StartRotate(conf) /\ failed' = FALSE
  /\ UNCHANGED <<files, lost>>

\* One turn of the loop: .(i-1) becomes .i
RenameOlder ==
  /\ pc = "chain" /\ i > 1
  /\ \/ Renamed(i - 1, i) /\ i' = i - 1 /\ UNCHANGED pc
     \/ RenameFails(i - 1, "chain", i - 1)
  /\ UNCHANGED <<created, conf, last_log, then, crashes>>

\* mutant: the name of the loop's last target, not of its last source
RenameCurrentToTop ==
  /\ pc = "chain" /\ i <= 1
  /\ \/ Renamed(0, top) /\ pc' = "open" /\ UNCHANGED i
     \/ RenameFails(0, "open", i)
  /\ UNCHANGED <<created, conf, last_log, then, crashes>>

\* The log itself becomes the lowest number
RenameCurrent ==
  /\ pc = "chain" /\ i <= 1
  /\ \/ Renamed(0, 1) /\ pc' = "open" /\ UNCHANGED i
     \/ RenameFails(0, "open", i)
  /\ UNCHANGED <<created, conf, last_log, then, crashes>>

\* open_audit_log, which creates the file if there is none
OpenCurrent ==
  IF Present(0)
  THEN UNCHANGED <<files, created>>
  ELSE /\ created < MaxLogs
       /\ created' = created + 1
       /\ files' = [files EXCEPT ![0] = created + 1]

\* mutant: the check starts one log too early
AfterCheckTooEarly(c, wanted) ==
  IF wanted # "idle" /\ c.action = "rotate" /\ c.num_logs >= 2
  THEN pc' = "excess" /\ i' = c.num_logs - 1
  ELSE pc' = "idle" /\ i' = 0

\* check_excess_logs does something only for rotate with a limit
AfterCheck(c, wanted) ==
  IF wanted # "idle" /\ c.action = "rotate" /\ c.num_logs >= 2
  THEN pc' = "excess" /\ i' = c.num_logs
  ELSE pc' = "idle" /\ i' = 0

\* The end of rotate_logs: open a new log, or fail to (logging is suspended).
\* A reconfigure about to check the space forgets that the disk was full.
Reopen ==
  /\ pc = "open" /\ outer.pc = "none"
  /\ OpenCurrent \/ UNCHANGED <<files, created>>
  /\ AfterCheck(conf, then)
  /\ fs_space_left' = (fs_space_left \/ then = "space")
  /\ UNCHANGED <<conf, last_log, op, top, then, outer, crashes, failed, lost, widest>>

\* The end of the rotation of do_disk_full_action: back to the one that called it
ReopenNested ==
  /\ pc = "open" /\ outer.pc # "none"
  /\ OpenCurrent \/ UNCHANGED <<files, created>>
  /\ pc' = outer.pc /\ op' = outer.op /\ i' = outer.i /\ top' = outer.top
  /\ outer' = NoFrame /\ failed' = TRUE
  /\ UNCHANGED <<conf, last_log, then, fs_space_left, crashes, lost, widest>>

\* resume_logging: the log is opened if it was closed, and then its size checked
ResumeLogging ==
  /\ pc = "idle" /\ fs_space_left' = TRUE
  /\ \/ UNCHANGED <<files, created, pc, op, i, top, then, failed, widest>>
     \/ OpenCurrent /\ UNCHANGED <<pc, op, i, top, then, failed, widest>>
     \/ /\ OpenCurrent /\ created' < MaxLogs
        /\ SizeCheck(conf, last_log) /\ then' = "idle" /\ failed' = FALSE
  /\ UNCHANGED <<conf, last_log, outer, crashes, lost>>

-----------------------------------------------------------------------------
(* check_excess_logs: unlink from .num_logs up to the first hole           *)

ExcessUnlink ==
  /\ pc = "excess" /\ i <= MaxIndex /\ Present(i)
  /\ files' = [files EXCEPT ![i] = None]
  /\ lost' = lost \cup {files[i]}
  /\ i' = i + 1
  /\ UNCHANGED <<created, conf, last_log, pc, op, top, then, fs_space_left, outer, crashes,
                 failed, widest>>

ExcessEnd ==
  /\ pc = "excess" /\ (i \in Index => ~Present(i))
  /\ pc' = "idle" /\ i' = 0
  /\ UNCHANGED <<files, created, conf, last_log, op, top, then, fs_space_left, outer,
                 crashes, failed, lost, widest>>

-----------------------------------------------------------------------------
(* Reconfiguration, restart and the outside world                          *)

\* reconfigure: a size check if a size setting changed (and the log is over
\* its limit), then the excess check if a setting about space changed.
Reconfigure ==
  /\ pc = "idle"
  /\ \E c \in Configs, wanted \in {"idle", "space"} :
       /\ conf' = c /\ then' = wanted
       /\ \/ /\ RoomToRotate /\ SizeCheck(c, last_log) /\ failed' = FALSE
             /\ UNCHANGED fs_space_left
          \/ /\ AfterCheck(c, wanted)
             /\ fs_space_left' = (fs_space_left \/ wanted = "space")
             /\ UNCHANGED <<op, top, failed, widest>>
  /\ UNCHANGED <<files, created, last_log, outer, crashes, lost>>

\* The daemon dies, possibly in the middle of a rotation
Crash ==
  /\ pc # "down" /\ crashes < MaxCrashes
  /\ crashes' = crashes + 1 /\ pc' = "down" /\ outer' = NoFrame
  /\ UNCHANGED <<files, created, conf, last_log, op, i, top, then, fs_space_left, failed,
                 lost, widest>>

\* init_event: open the log, check its size, then check for excess logs
Restart ==
  /\ pc = "down"
  /\ OpenCurrent
  /\ last_log' = 1 /\ then' = "excess" /\ fs_space_left' = TRUE /\ failed' = FALSE
  /\ conf' \in Configs
  /\ \/ created' < MaxLogs /\ SizeCheck(conf', 1)
     \/ AfterCheck(conf', "excess") /\ UNCHANGED <<op, top, widest>>
  /\ UNCHANGED <<outer, crashes, lost>>

\* Someone archives or deletes a log file
RemoveFile ==
  /\ \E k \in Index : Present(k) /\ files' = [files EXCEPT ![k] = None]
  /\ UNCHANGED <<created, conf, last_log, pc, op, i, top, then, fs_space_left, outer,
                 crashes, failed, lost, widest>>

Next ==
  \/ Rotate
  \/ RotateNow
  \/ ScanFound
  \/ ScanRestart
  \/ ScanEnd
  \/ RenameOlder
  \/ RenameCurrent
  \/ Reopen
  \/ ReopenNested
  \/ ResumeLogging
  \/ ExcessUnlink
  \/ ExcessEnd
  \/ Reconfigure
  \/ Crash
  \/ Restart
  \/ RemoveFile

Spec == Init /\ [][Next]_vars

-----------------------------------------------------------------------------
(* Properties                                                              *)

FileTypes ==
  /\ files \in [Index -> 0 .. created]
  /\ created \in 1 .. MaxLogs
  /\ lost \subseteq 1 .. created

LoopTypes ==
  /\ last_log \in 1 .. MaxIndex
  /\ i \in 0 .. MaxIndex + 1
  /\ top \in 1 .. MaxIndex
  /\ widest \in 1 .. MaxIndex

ControlTypes ==
  /\ conf \in Configs
  /\ pc \in {"idle", "scan", "chain", "open", "excess", "down"}
  /\ op \in {"rotate", "shift"}
  /\ then \in {"idle", "excess", "space"}
  /\ fs_space_left \in BOOLEAN
  /\ outer \in [pc : {"none", "chain", "open"}, op : {"rotate", "shift"},
                i : 0 .. MaxIndex, top : 1 .. MaxIndex]
  /\ crashes \in 0 .. MaxCrashes
  /\ failed \in BOOLEAN

\* Type correctness: the indices of every loop stay inside the range of
\* suffixes, and no file carries a generation that was never created.
TypeOK == FileTypes /\ LoopTypes /\ ControlTypes

\* At every moment, in the middle of a rotation, after a failed rename, a
\* crash or a change of scheme, a log with a higher number is older than one
\* with a lower number (what ausearch and aureport rely on when they read the
\* files from the highest number down).
AgeOrder ==
  \A j, k \in Index : j < k /\ Present(j) /\ Present(k) => files[j] > files[k]

\* keep_logs never overwrites a log unless a rename failed: shift_logs finds a
\* free suffix and every rename of the chain moves into the hole left by the
\* one before, whatever was removed meanwhile and wherever holes were left by
\* an earlier crash.
ShiftKeepsLogs ==
  [][pc = "chain" /\ op = "shift" /\ ~failed => lost' = lost]_vars

\* rotate_logs(0, 0) loses the oldest of all logs there are, as auditd.conf(5)
\* says of "rotate", unless a rename failed or an earlier rotation has used
\* higher suffixes than this one does (keep_logs, or a larger num_logs): logs
\* beyond num_logs - 1 are left alone, and a younger one is overwritten.
RotateLosesOldest ==
  [][pc = "chain" /\ op = "rotate" /\ ~failed /\ widest <= top =>
       \A g \in lost' \ lost : \A k \in Index : Present(k) => g <= files[k]]_vars

\* check_excess_logs removes only logs older than every log the rotation keeps.
ExcessIsOldest ==
  [][pc = "excess" => \A g \in lost' \ lost : \A k \in 0 .. conf.num_logs - 1 :
                        Present(k) => g < files[k]]_vars
=============================================================================
