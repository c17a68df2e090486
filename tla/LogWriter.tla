----------------------------- MODULE LogWriter -----------------------------
(***************************************************************************)
(* What auditd-event.c does with an event: write it, check the size of the *)
(* log and the space on its partition, carry out the configured action on  *)
(* a full log, a full disk or a disk error, suspend and resume logging,    *)
(* reopen the log, and answer a remote sender.                             *)
(*                                                                         *)
(* A handler runs to its end before the next event: todo holds the parts   *)
(* of it still ahead, and no other handler starts while there are any.     *)
(* What it meets on the way (a rename or open that fails, the space that   *)
(* is left) is chosen anew at each call.  An operator here maps the state  *)
(* of the daemon before a C function to the set of states after it.  The   *)
(* chain of renames is LogRotation's subject: only its outcome matters     *)
(* here.  "exec" behaves as "suspend" and "single" as "halt" for everything *)
(* below; fix_disk_permissions, mail and syslog change nothing.            *)
(***************************************************************************)
EXTENDS Integers, Sequences

CONSTANTS
  Configs,       \* the configurations an administrator may choose
  FdopenFails    \* may fdopen fail?

SizeActions == {"ignore", "suspend", "rotate", "keep_logs"}
SpaceActions == {"ignore", "syslog", "rotate", "suspend", "halt"}
ErrorActions == {"ignore", "syslog", "suspend", "halt"}

Config ==
  [write_logs : BOOLEAN, num_logs : 0 .. 3, size_action : SizeActions,
   space_action : SpaceActions, admin_action : SpaceActions,
   full_action : SpaceActions \ {"syslog"}, error_action : ErrorActions]

ASSUME ConfigsAssumption == Configs \subseteq Config
ASSUME SwitchesAssumption == FdopenFails \in BOOLEAN

VARIABLES
  d,        \* the daemon's state and the file at log_file, a record:
            \*   conf       config
            \*   stream     log_file: "null", open on the file at the path
            \*              ("path") or on one moved or deleted ("elsewhere")
            \*   fd         log_fd: "none" (-1), the stream's descriptor
            \*              ("stream") or a descriptor already closed ("closed")
            \*   suspended  logging_suspended
            \*   space_left fs_space_left
            \*   space_warning, admin_warning   fs_space_warning, fs_admin_...
            \*   err        disk_err_warning
            \*   stop       the event loop is to end
            \*   big        log_size has reached max_log_size
            \*   path       there is a file at the path of the log
            \*   pathBig    and it has reached max_log_size
  todo,     \* what the running handler still has to do: "reopen" the log and
            \* check the "space" of a reconfigure, "record" the event
  nconf,    \* the configuration of the last reconfigure request (at first, conf)
  event,    \* what was handled last, one of Events
  written,  \* where its record went: "nowhere" or the stream's value
  acks,     \* the acknowledgements sent for it
  crashed,  \* fprintf was called with log_file == NULL
  resized   \* history: a change of the size settings met a suspended daemon

Events == {"none", "local", "network", "rotate", "resume", "reconfigure"}

vars == <<d, todo, nconf, event, written, acks, crashed, resized>>

Close(s) == [s EXCEPT !.stream = "null", !.fd = "none"]
Suspend(s) == [Close(s) EXCEPT !.suspended = TRUE]
Halt(s) == [s EXCEPT !.stop = TRUE]

-----------------------------------------------------------------------------
(* Opening the log                                                         *)

\* mutant: log_fd is not set
OpenedForgetsFd(s) ==
  [s EXCEPT !.stream = "path", !.path = TRUE, !.big = s.pathBig]

\* The log is open and log_size is the size of what was found
Opened(s) ==
  [s EXCEPT !.stream = "path", !.fd = "stream", !.path = TRUE, !.big = s.pathBig]

\* open_audit_log: result and state
OpenAuditLog(s) ==
  IF ~s.conf.write_logs
  THEN {[ok |-> TRUE, st |-> s]}
  ELSE {[ok |-> TRUE, st |-> Opened(s)], [ok |-> FALSE, st |-> s]}
       \cup IF FdopenFails
            THEN {[ok |-> FALSE, st |-> [Opened(s) EXCEPT !.stream = "null", !.fd = "closed"]]}
            ELSE {}

-----------------------------------------------------------------------------
(* Actions on trouble, and rotation                                        *)

DoDiskErrorAction(s) ==
  CASE s.conf.error_action = "ignore" -> s
    [] s.conf.error_action = "syslog" -> [s EXCEPT !.err = IF @ < 5 THEN @ + 1 ELSE @]
    [] s.conf.error_action = "suspend" -> Suspend(s)
    [] s.conf.error_action = "halt" -> Halt(s)

\* log_file is renamed; a stream a nested rotation left open on it goes along
MovedAway(s) ==
  [s EXCEPT !.path = FALSE, !.pathBig = FALSE,
            !.stream = IF @ = "path" THEN "elsewhere" ELSE @]

\* rotate_logs begins by closing the log
ClosedLog(s) == IF s.stream # "null" THEN Close(s) ELSE s

\* mutant: a log that cannot be reopened does not suspend logging
NewLogNoSuspend(states) ==
  {IF o.ok THEN o.st ELSE DoDiskErrorAction(o.st) : o \in UNION {OpenAuditLog(t) : t \in states}}

\* ... and ends by opening a new one
NewLog(states) ==
  {IF o.ok THEN o.st ELSE DoDiskErrorAction([o.st EXCEPT !.suspended = TRUE])
     : o \in UNION {OpenAuditLog(t) : t \in states}}

\* ... unless it gives up for lack of memory
NoMemory(s) == [ClosedLog(s) EXCEPT !.suspended = TRUE]

\* rotate_logs within do_disk_full_action, where fs_space_left is 0: a rename of
\* an older log (if olders) and the rename of the log may fail, and ENOSPC is an
\* error like any other.
RotateWhenFull(s, olders) ==
  LET chain == {ClosedLog(s)} \cup IF olders THEN {DoDiskErrorAction(ClosedLog(s))} ELSE {}
      renamed == UNION {IF t.path THEN {MovedAway(t), DoDiskErrorAction(t)} ELSE {t} : t \in chain}
  IN  {NoMemory(s)} \cup NewLog(renamed)

DoDiskFullAction(s) ==
  CASE s.conf.full_action = "ignore" -> {s}
    [] s.conf.full_action = "rotate" ->
         IF s.conf.num_logs > 1 THEN RotateWhenFull(s, s.conf.num_logs > 2) ELSE {s}
    [] s.conf.full_action = "suspend" -> {Suspend(s)}
    [] s.conf.full_action = "halt" -> {Halt(s)}

\* A call failed: with ENOSPC for the first time, or otherwise
Failing(s) ==
  {DoDiskErrorAction(s)}
  \cup IF s.space_left THEN DoDiskFullAction([s EXCEPT !.space_left = FALSE]) ELSE {}

\* rotate_logs as the other callers meet it: a full disk has its own action
RotateLogs(s, olders) ==
  LET chain == {ClosedLog(s)} \cup IF olders THEN Failing(ClosedLog(s)) ELSE {}
      renamed == UNION {IF t.path THEN {MovedAway(t)} \cup Failing(t) ELSE {t} : t \in chain}
  IN  {NoMemory(s)} \cup NewLog(renamed)

\* rotate_logs(0, 0), disabled below two logs
Rotate(s) ==
  IF s.conf.num_logs > 1 THEN RotateLogs(s, s.conf.num_logs > 2) ELSE {s}

\* shift_logs: how many logs there are is up to the disk; no memory, no shift
ShiftLogs(s) ==
  {s} \cup UNION {RotateLogs(s, olders) : olders \in BOOLEAN}

RotateLogsNow(s) == IF s.conf.size_action = "keep_logs" THEN ShiftLogs(s) ELSE Rotate(s)

DoSpaceLeftAction(s, action) ==
  CASE action \in {"ignore", "syslog"} -> {s}
    [] action = "rotate" -> Rotate(s)
    [] action = "suspend" -> {Suspend(s)}
    [] action = "halt" -> {Halt(s)}

CheckLogFileSize(s) ==
  IF s.conf.write_logs /\ s.big
  THEN CASE s.conf.size_action = "ignore" -> {s}
         [] s.conf.size_action = "suspend" -> {Suspend(s)}
         [] s.conf.size_action = "rotate" -> Rotate(s)
         [] s.conf.size_action = "keep_logs" -> ShiftLogs(s)
  ELSE {s}

\* The two halves of check_space_left; low: less is left than the setting
SpaceCheck(s, low) ==
  LET action == s.conf.space_action IN
  CASE low /\ ~s.space_warning ->
         {[t EXCEPT !.space_warning = @ \/ action # "rotate"] : t \in DoSpaceLeftAction(s, action)}
    [] ~low /\ action = "syslog" -> {[s EXCEPT !.space_warning = FALSE]}
    [] OTHER -> {s}

AdminCheck(s, low) ==
  LET action == s.conf.admin_action IN
  CASE low /\ ~s.admin_warning ->
         {[t EXCEPT !.admin_warning = @ \/ action # "rotate"] : t \in DoSpaceLeftAction(s, action)}
    [] ~low /\ action = "syslog" -> {[s EXCEPT !.admin_warning = FALSE]}
    [] OTHER -> {s}

\* check_space_left: fstatfs may fail, find the disk full, or tell how low it is
\* (admin_space_left is the lower of the two settings)
CheckSpaceLeft(s) ==
  IF s.fd = "none" THEN {s}
  ELSE {s}
       \cup DoDiskFullAction([s EXCEPT !.space_left = FALSE])
       \cup UNION {UNION {AdminCheck(t, level = "very low") : t \in SpaceCheck(s, level # "enough")}
                     : level \in {"enough", "low", "very low"}}

-----------------------------------------------------------------------------
(* Writing an event                                                        *)

Result(st, to, ackList) == [st |-> st, to |-> to, acks |-> ackList]

\* write_to_log.  The log grows, perhaps beyond its limit, and now and then the
\* space is checked; the answer is sent before the action on an error but after
\* the checks.
WriteToLog(s) ==
  LET grown == {[s EXCEPT !.big = @ \/ g, !.pathBig = @ \/ (g /\ s.stream = "path")] : g \in BOOLEAN}
      sized == UNION {CheckLogFileSize(t) : t \in grown}
      checked == sized \cup UNION {CheckSpaceLeft(t) : t \in sized}
      full == IF s.space_left THEN DoDiskFullAction([s EXCEPT !.space_left = FALSE]) ELSE {s}
  IN  {Result([t EXCEPT !.err = 0], s.stream, <<IF t.space_warning THEN "DISKLOW" ELSE "ACK">>)
         : t \in checked}
      \cup {Result(t, "nowhere", <<"DISKFULL">>) : t \in full}
      \cup {Result(DoDiskErrorAction(s), "nowhere", <<"DISKERROR">>)}

\* Every freq events the stream is flushed and synced, and both may fail
Flush(s) ==
  LET flushed == {s} \cup Failing(s)
  IN  flushed \cup {DoDiskErrorAction(t) : t \in {u \in flushed : u.fd # "none"}}

\* mutant: a suspended daemon answers as one that keeps no logs
LogRecordAcksSuspended(s) ==
  CASE ~s.suspended /\ s.conf.write_logs ->
         UNION {{[r EXCEPT !.st = t] : t \in Flush(r.st)} : r \in WriteToLog(s)}
    [] OTHER -> {Result(s, "nowhere", <<"ACK">>)}

\* The second half of handle_event
LogRecord(s) ==
  CASE ~s.suspended /\ s.conf.write_logs ->
         UNION {{[r EXCEPT !.st = t] : t \in Flush(r.st)} : r \in WriteToLog(s)}
    [] ~s.conf.write_logs -> {Result(s, "nowhere", <<"ACK">>)}
    [] OTHER -> {Result(s, "nowhere", <<"DISKERROR">>)}

\* handle_event writes through a null log_file
NullWrite(s) == ~s.suspended /\ s.conf.write_logs /\ s.stream = "null"

Running == ~crashed

\* The last part of every handle_event; only an event from the network is
\* answered.
Record ==
  /\ Running /\ todo = {"record"}
  /\ todo' = {}
  /\ \/ /\ NullWrite(d)
        /\ crashed' = TRUE
        /\ UNCHANGED <<d, written, acks>>
     \/ /\ ~NullWrite(d)
        /\ \E r \in LogRecord(d) :
             d' = r.st /\ written' = r.to /\ acks' = IF event = "network" THEN r.acks ELSE <<>>
        /\ UNCHANGED crashed
  /\ UNCHANGED <<nconf, event, resized>>

-----------------------------------------------------------------------------
(* The handlers                                                            *)

\* init_event
InitEvent(c) ==
  LET fresh == [conf |-> c, stream |-> "null", fd |-> "none", suspended |-> FALSE,
                space_left |-> TRUE, space_warning |-> FALSE, admin_warning |-> FALSE,
                err |-> 0, stop |-> FALSE, big |-> FALSE, path |-> FALSE, pathBig |-> FALSE]
      found == {fresh, [fresh EXCEPT !.path = TRUE], [fresh EXCEPT !.path = TRUE, !.pathBig = TRUE]}
      opened == {o \in UNION {OpenAuditLog(s) : s \in found} : o.ok}
      sized == UNION {CheckLogFileSize(o.st) : o \in opened}
  IN  UNION {CheckSpaceLeft(s) : s \in sized}

Init ==
  /\ nconf \in Configs /\ d \in InitEvent(nconf)
  /\ todo = {} /\ event = "none" /\ written = "nowhere" /\ acks = <<>>
  /\ crashed = FALSE /\ resized = FALSE

\* The event loop takes the next thing to do, unless it has been told to stop
Begin(kind, work) ==
  /\ Running /\ todo = {} /\ ~d.stop
  /\ event' = kind /\ todo' = work
  /\ written' = "nowhere" /\ acks' = <<>>
  /\ UNCHANGED crashed

\* handle_event of a record from the kernel or from a remote sender
HandleEvent ==
  /\ \E kind \in {"local", "network"} : Begin(kind, {"record"})
  /\ UNCHANGED <<d, nconf, resized>>

\* mutant: a rotation also lifts a suspension
HandleRotateResumes ==
  /\ Begin("rotate", {"record"})
  /\ d' \in {[s EXCEPT !.suspended = FALSE] : s \in RotateLogsNow(d)}
  /\ UNCHANGED <<nconf, resized>>

\* handle_event of the rotate request of SIGUSR1
HandleRotate ==
  /\ Begin("rotate", {"record"})
  /\ d' \in RotateLogsNow(d)
  /\ UNCHANGED <<nconf, resized>>

\* resume_logging, the answer to SIGUSR2
ResumeLogging ==
  LET s == [d EXCEPT !.suspended = FALSE, !.space_left = TRUE]
      failed(st) == DoDiskErrorAction([st EXCEPT !.suspended = TRUE])
      tried == IF s.stream # "null" THEN {s}
               ELSE UNION {IF o.ok THEN CheckLogFileSize(o.st) ELSE {failed(o.st)}
                             : o \in OpenAuditLog(s)}
  IN  /\ Begin("resume", {})
      /\ d' \in {[t EXCEPT !.err = 0, !.space_warning = FALSE, !.admin_warning = FALSE] : t \in tried}
      /\ UNCHANGED <<nconf, resized>>

\* max_log_file changed: the log is over its limit or not, whatever it was before
Resized(s) ==
  UNION {{[s EXCEPT !.big = b, !.pathBig = p] : p \in IF s.path THEN BOOLEAN ELSE {FALSE}}
           : b \in BOOLEAN}

\* handle_event of a reconfigure request: the new configuration c, and whether
\* max_log_file, some setting that needs a reopen (log_group, flush) or some
\* setting about space changed.  Its first part ends with the size check, which
\* still uses the old actions on low space and on a full disk.
HandleReconfigure ==
  \E c \in Configs, maxChanged \in BOOLEAN, reopen \in BOOLEAN, space \in BOOLEAN :
    LET sizeChanged == maxChanged \/ c.size_action # d.conf.size_action
        needReopen == reopen \/ c.write_logs # d.conf.write_logs
        needSpace == \/ space
                     \/ c.space_action # d.conf.space_action
                     \/ c.admin_action # d.conf.admin_action
                     \/ c.full_action # d.conf.full_action
        conf == [c EXCEPT !.space_action = d.conf.space_action,
                          !.admin_action = d.conf.admin_action,
                          !.full_action = d.conf.full_action]
        s == [d EXCEPT !.conf = conf, !.err = 0]
        sizes == IF maxChanged THEN Resized(s) ELSE {s}
    IN  /\ nconf' = c
        /\ resized' = (resized \/ (sizeChanged /\ d.suspended))
        /\ Begin("reconfigure", {"record"} \cup (IF needReopen THEN {"reopen"} ELSE {})
                                          \cup (IF needSpace THEN {"space"} ELSE {}))
        /\ IF sizeChanged
           THEN d' \in UNION {CheckLogFileSize([t EXCEPT !.suspended = FALSE]) : t \in sizes}
           ELSE d' = s

\* reconfigure, second part: close and open the log; log_fd is not reset
ReconfigureReopen ==
  LET closed == IF d.stream # "null" THEN [d EXCEPT !.stream = "null", !.fd = "closed"] ELSE d
  IN  /\ "reopen" \in todo
      /\ todo' = todo \ {"reopen"}
      /\ d' \in UNION {IF o.ok THEN CheckLogFileSize([o.st EXCEPT !.suspended = FALSE])
                       ELSE {DoDiskErrorAction([o.st EXCEPT !.suspended = TRUE])}
                         : o \in OpenAuditLog(closed)}
      /\ UNCHANGED <<nconf, event, written, acks, crashed, resized>>

\* reconfigure, third part: the settings about space, and a check; a suspension
\* for another reason stays
ReconfigureSpace ==
  /\ "reopen" \notin todo /\ "space" \in todo
  /\ todo' = todo \ {"space"}
  /\ d' \in {[t EXCEPT !.suspended = @ \/ d.suspended]
             : t \in CheckSpaceLeft([d EXCEPT !.conf = nconf, !.space_warning = FALSE,
                                     !.admin_warning = FALSE, !.space_left = TRUE, !.suspended = FALSE])}
  /\ UNCHANGED <<nconf, event, written, acks, crashed, resized>>

\* The administrator, or the script of exec, moves or deletes the log, which is
\* what a suspended daemon is waiting for.
MoveLog ==
  /\ Running /\ todo = {} /\ d.suspended /\ d.path
  /\ d' = MovedAway(d)
  /\ UNCHANGED <<todo, nconf, event, written, acks, crashed, resized>>

Next ==
  \/ HandleEvent
  \/ HandleRotate
  \/ ResumeLogging
  \/ HandleReconfigure
  \/ ReconfigureReopen
  \/ ReconfigureSpace
  \/ Record
  \/ MoveLog

Spec == Init /\ [][Next]_vars

-----------------------------------------------------------------------------
(* Properties                                                              *)

State ==
  [conf : Config, stream : {"null", "path", "elsewhere"}, fd : {"none", "stream", "closed"},
   suspended : BOOLEAN, space_left : BOOLEAN, space_warning : BOOLEAN,
   admin_warning : BOOLEAN, err : 0 .. 5, stop : BOOLEAN, big : BOOLEAN,
   path : BOOLEAN, pathBig : BOOLEAN]

\* Type correctness; the warnings about disk errors stop at five, and only a file
\* that exists has a size.
TypeOK ==
  /\ d \in State
  /\ d.pathBig => d.path
  /\ nconf \in Configs
  /\ todo \subseteq {"reopen", "space", "record"}
  /\ event \in Events
  /\ written \in {"nowhere", "path", "elsewhere"}
  /\ acks \in {<<>>, <<"ACK">>, <<"DISKLOW">>, <<"DISKFULL">>, <<"DISKERROR">>}
  /\ crashed \in BOOLEAN /\ resized \in BOOLEAN

\* As long as no reconfigure touches the size settings of a suspended daemon,
\* handle_event never writes through a null log_file: whatever renames and opens
\* fail, and however the actions nest, logging is on only with an open log.
ReadyToWrite ==
  "reopen" \notin todo /\ ~resized => ~NullWrite(d)

\* While a log is open log_fd is its descriptor, so check_space_left watches the
\* partition the records go to and the flush syncs them.
OpenLogIsWatched == d.stream # "null" => d.fd = "stream"

\* A remote sender gets exactly one answer for its event, and a positive one only
\* if the record was written or the administrator wants no logs.
AnsweredOnce ==
  event = "network" /\ todo = {} /\ ~crashed =>
    /\ Len(acks) = 1
    /\ acks[1] \in {"ACK", "DISKLOW"} => written # "nowhere" \/ ~d.conf.write_logs

\* Neither an event nor a rotation that finds room again lifts a suspension: only
\* SIGUSR2 and a reconfigure do.
SuspensionHolds ==
  [][d.suspended /\ ~d'.suspended => event' \in {"resume", "reconfigure"}]_vars
=============================================================================
