------------------------------ MODULE MainLoop ------------------------------
(***************************************************************************)
(* The event loop of auditd and its two helper threads: the thread that    *)
(* reads auditd.conf after a SIGHUP (auditd.c, auditd-reconfig.c) and the  *)
(* one that syncs the log (auditd-event.c).  A signal is answered in two   *)
(* steps: its handler asks the kernel who sent it, and the reply, which    *)
(* does not say for which signal it is, starts the work.                   *)
(*                                                                         *)
(* What happens to a record and to the files of the log is the subject of  *)
(* LogWriter and LogRotation; here the log is closed and opened, and may   *)
(* fail to open.  flush is incremental_async.  The record a handler writes *)
(* about its own work is one more HandleEvent.                             *)
(***************************************************************************)
EXTENDS Integers, FiniteSets

CONSTANTS
  Bad,           \* versions of auditd.conf that load_config refuses
  Patient,       \* is SIGHUP sent only when the one before has been dealt with?
  Fds,           \* descriptor numbers the log may get
  Freq,          \* freq: records between two flushes
  MaxHups,       \* bound: SIGHUPs
  MaxEdits,      \* bound: edits of auditd.conf
  MaxUsers,      \* bound: SIGUSR1 and SIGUSR2
  MaxRecords,    \* bound: records
  MaxFailures    \* bound: failing requests, threads and opens

ASSUME LoopAssumption ==
  /\ Bad \subseteq Nat /\ 1 \notin Bad /\ Patient \in BOOLEAN
  /\ Fds \subseteq Nat \ {0} /\ Freq \in Nat \ {0}
  /\ MaxHups \in Nat /\ MaxEdits \in Nat /\ MaxUsers \in Nat
  /\ MaxRecords \in Nat /\ MaxFailures \in Nat

VARIABLES
  file,       \* the version of auditd.conf
  conf,       \* the version in force
  requested,  \* hup_info_requested, usr1_info_requested, usr2_info_requested: the set
              \* of those that are set
  infos,      \* replies to audit_request_signal_info on their way
  event,      \* per HUP event: "none", "info", "config" (filled in), "freed"
  version,    \* what a filled in event holds
  reconfig_ev, config_lock,
  thread,     \* the configuration thread: its event and step, or NoThread
  pipe,       \* "ready" messages in the pipe
  misuse,     \* how pipe_handler used an event it must not: "no", "null", "freed", "unfinished"
  main,       \* the main thread: "idle", or "reopen" with the log closed
  log_fd,     \* 0: -1
  open,       \* the number the log really has, 0 when it is closed
  flush, flusher,  \* the flag; the flush thread: "wait", "test", "sync", "syncing"
  owed,       \* history: the records that are to be synced and are not yet on the disk
  covers,     \* history: those of them that the running fsync syncs
  wanted,     \* history: the version the last HUP was sent for
  hups, users, records, failures

confVars == <<conf, requested, infos, event, version, reconfig_ev, config_lock, thread, pipe, misuse, wanted>>
logVars == <<main, log_fd, open, flush, flusher, owed, covers>>
bounds == <<hups, users, records, failures>>
vars == <<file, confVars, logVars, bounds>>

HupEvents == 1 .. MaxHups
NoThread == [ev |-> 0, step |-> "none"]

Init ==
  /\ file = 1 /\ conf = 1 /\ wanted = 1
  /\ requested = {} /\ infos = 0
  /\ event = [e \in HupEvents |-> "none"] /\ version = [e \in HupEvents |-> 0]
  /\ reconfig_ev = 0 /\ config_lock = FALSE /\ thread = NoThread
  /\ pipe = 0 /\ misuse = "no"
  /\ main = "idle" /\ log_fd \in Fds /\ open = log_fd
  /\ flush = FALSE /\ flusher = "wait" /\ owed = {} /\ covers = {}
  /\ hups = 0 /\ users = 0 /\ records = 0 /\ failures = 0

\* The main thread is in its loop
InLoop == main = "idle" /\ misuse = "no"

-----------------------------------------------------------------------------
(* Signals                                                                 *)

\* The SIGHUP before has been dealt with, except that its thread may still have to end
Quiet == "hup" \notin requested /\ thread.step \in {"none", "unlock"} /\ pipe = 0

\* mutant: the flag is set even if the request failed
RequestInfoUnchecked(sig) ==
  /\ requested' = requested \cup {sig}
  /\ \/ infos' = infos + 1 /\ UNCHANGED failures
     \/ failures < MaxFailures /\ failures' = failures + 1 /\ UNCHANGED infos

\* audit_request_signal_info, and the flag if that works
RequestInfo(sig) ==
  \/ requested' = requested \cup {sig} /\ infos' = infos + 1 /\ UNCHANGED failures
  \/ failures < MaxFailures /\ failures' = failures + 1 /\ UNCHANGED <<requested, infos>>

hup_handler ==
  /\ InLoop /\ hups < MaxHups /\ hups' = hups + 1
  /\ Patient => Quiet
  /\ RequestInfo("hup")
  /\ wanted' = IF infos' > infos THEN file ELSE wanted
  /\ UNCHANGED <<file, conf, event, version, reconfig_ev, config_lock, thread, pipe, misuse,
                 logVars, users, records>>

\* rotate_logs_now closes the log, to open a new one; with num_logs < 2 it does nothing.
\* log_fd is reset only if there is a log to close.
rotate_logs_now ==
  \/ /\ log_fd' = (IF open = 0 THEN log_fd ELSE 0) /\ open' = 0
     /\ owed' = {} /\ main' = "reopen"
  \/ UNCHANGED <<log_fd, open, owed, main>>

\* if the request fails the record about that rotates the log all the same
user1_handler ==
  /\ InLoop /\ users < MaxUsers /\ users' = users + 1
  /\ RequestInfo("usr1")
  /\ \/ infos' > infos /\ UNCHANGED <<log_fd, open, owed, main>>
     \/ infos' = infos /\ rotate_logs_now
  /\ UNCHANGED <<file, conf, event, version, reconfig_ev, config_lock, thread, pipe, misuse, wanted,
                 flush, flusher, covers, hups, records>>

\* if the request fails logging is resumed all the same
user2_handler ==
  /\ InLoop /\ users < MaxUsers /\ users' = users + 1
  /\ RequestInfo("usr2")
  /\ main' = IF infos' = infos /\ open = 0 THEN "reopen" ELSE main
  /\ UNCHANGED <<file, conf, event, version, reconfig_ev, config_lock, thread, pipe, misuse, wanted,
                 log_fd, open, flush, flusher, owed, covers, hups, records>>

\* The thread is started, cannot be made, or another one has the lock: then the event
\* is freed.
start_config_manager(e) ==
  \/ /\ ~config_lock /\ config_lock' = TRUE
     /\ thread' = [ev |-> e, step |-> "load"]
     /\ event' = [event EXCEPT ![e] = "info"]
     /\ UNCHANGED <<failures, wanted>>
  \/ /\ ~config_lock /\ failures < MaxFailures /\ failures' = failures + 1
     /\ event' = [event EXCEPT ![e] = "freed"]
     /\ wanted' = conf
     /\ UNCHANGED <<config_lock, thread>>
  \/ /\ config_lock
     /\ event' = [event EXCEPT ![e] = "freed"]
     /\ wanted' = conf
     /\ UNCHANGED <<config_lock, thread, failures>>

\* netlink_handler: the reply is taken for the HUP first; reconfig_ev is set before the
\* thread is started.
InfoForHup ==
  /\ InLoop /\ infos > 0 /\ "hup" \in requested
  /\ infos' = infos - 1 /\ requested' = requested \ {"hup"}
  /\ LET e == Cardinality({x \in HupEvents : event[x] # "none"}) + 1
     IN  /\ reconfig_ev' = e
         /\ start_config_manager(e)
  /\ UNCHANGED <<file, conf, version, pipe, misuse, logVars, hups, users, records>>

\* ... then for SIGUSR1
InfoForUser1 ==
  /\ InLoop /\ infos > 0 /\ "hup" \notin requested /\ "usr1" \in requested
  /\ infos' = infos - 1 /\ requested' = requested \ {"usr1"}
  /\ rotate_logs_now
  /\ UNCHANGED <<file, conf, event, version, reconfig_ev, config_lock, thread, pipe, misuse, wanted,
                 flush, flusher, covers, bounds>>

\* ... then for SIGUSR2: resume_logging opens a closed log
InfoForUser2 ==
  /\ InLoop /\ infos > 0 /\ requested = {"usr2"}
  /\ infos' = infos - 1 /\ requested' = {}
  /\ main' = IF open = 0 THEN "reopen" ELSE main
  /\ UNCHANGED <<file, conf, event, version, reconfig_ev, config_lock, thread, pipe, misuse, wanted,
                 log_fd, open, flush, flusher, owed, covers, bounds>>

\* ... and is ignored when nothing is requested
InfoIgnored ==
  /\ InLoop /\ infos > 0 /\ requested = {}
  /\ infos' = infos - 1
  /\ UNCHANGED <<file, conf, requested, event, version, reconfig_ev, config_lock, thread, pipe,
                 misuse, wanted, logVars, bounds>>

-----------------------------------------------------------------------------
(* The configuration thread                                                *)

\* load_config succeeds, and the event becomes a reconfigure request
ThreadLoads ==
  /\ thread.step = "load" /\ file \notin Bad
  /\ event' = [event EXCEPT ![thread.ev] = IF @ = "info" THEN "config" ELSE @]
  /\ version' = [version EXCEPT ![thread.ev] = file]
  /\ thread' = [thread EXCEPT !.step = "ready"]
  /\ UNCHANGED <<file, conf, requested, infos, reconfig_ev, config_lock, pipe, misuse, wanted,
                 logVars, bounds>>

\* mutant: the loop is told all the same
ThreadFailsReady ==
  /\ thread.step = "load" /\ file \in Bad
  /\ event' = [event EXCEPT ![thread.ev] = "freed"]
  /\ wanted' = conf
  /\ thread' = [thread EXCEPT !.step = "ready"]
  /\ UNCHANGED <<file, conf, requested, infos, version, reconfig_ev, config_lock, pipe, misuse,
                 logVars, bounds>>

\* load_config fails: the event is freed
ThreadFails ==
  /\ thread.step = "load" /\ file \in Bad
  /\ event' = [event EXCEPT ![thread.ev] = "freed"]
  /\ wanted' = conf
  /\ thread' = [thread EXCEPT !.step = "unlock"]
  /\ UNCHANGED <<file, conf, requested, infos, version, reconfig_ev, config_lock, pipe, misuse,
                 logVars, bounds>>

\* mutant: the loop is not told
ThreadReadySilent ==
  /\ thread.step = "ready"
  /\ thread' = [thread EXCEPT !.step = "unlock"]
  /\ UNCHANGED <<file, conf, requested, infos, event, version, reconfig_ev, config_lock, pipe, misuse,
                 wanted, logVars, bounds>>

\* reconfig_ready
ThreadReady ==
  /\ thread.step = "ready"
  /\ pipe' = pipe + 1
  /\ thread' = [thread EXCEPT !.step = "unlock"]
  /\ UNCHANGED <<file, conf, requested, infos, event, version, reconfig_ev, config_lock, misuse,
                 wanted, logVars, bounds>>

ThreadUnlocks ==
  /\ thread.step = "unlock"
  /\ config_lock' = FALSE /\ thread' = NoThread
  /\ UNCHANGED <<file, conf, requested, infos, event, version, reconfig_ev, pipe, misuse, wanted,
                 logVars, bounds>>

\* what enqueue_event finds at reconfig_ev
Found ==
  CASE reconfig_ev = 0 -> "null"
    [] reconfig_ev # 0 /\ event[reconfig_ev] = "freed" -> "freed"
    [] reconfig_ev # 0 /\ event[reconfig_ev] = "info" -> "unfinished"
    [] OTHER -> "no"

\* pipe_handler: one read takes up to two messages and part of a third; one event is
\* handed to reconfigure, which may close and reopen the log without resetting log_fd
pipe_handler ==
  /\ InLoop /\ pipe > 0
  /\ pipe' = IF pipe <= 2 THEN 0 ELSE pipe - 2
  /\ misuse' = Found
  /\ reconfig_ev' = 0
  /\ IF Found = "no"
     THEN /\ conf' = version[reconfig_ev]
          /\ event' = [event EXCEPT ![reconfig_ev] = "freed"]
          /\ \/ UNCHANGED <<main, open, owed>>
             \/ main' = "reopen" /\ open' = 0 /\ owed' = {}
     ELSE UNCHANGED <<conf, event, main, open, owed>>
  /\ UNCHANGED <<file, requested, infos, version, config_lock, thread, wanted, log_fd, flush, flusher, covers,
                 bounds>>

-----------------------------------------------------------------------------
(* The log and the flush thread                                            *)

\* open_audit_log, or its failure, which suspends logging
OpenLog ==
  /\ main = "reopen" /\ main' = "idle"
  /\ \/ /\ \E n \in Fds : log_fd' = n /\ open' = n
        /\ UNCHANGED failures
     \/ /\ failures < MaxFailures /\ failures' = failures + 1
        /\ UNCHANGED <<log_fd, open>>
  /\ UNCHANGED <<file, confVars, flush, flusher, owed, covers, hups, users, records>>

\* mutant: a thread that is busy is not asked again
HandleEventIfWaiting ==
  /\ InLoop /\ records < MaxRecords /\ records' = records + 1
  /\ LET due == open # 0 /\ records' % Freq = 0
     IN  /\ flush' = (flush \/ (due /\ flusher = "wait"))
         /\ owed' = IF due THEN owed \cup {records'} ELSE owed
  /\ UNCHANGED <<file, confVars, main, log_fd, open, flusher, covers, hups, users, failures>>

\* handle_event of a record: every Freq records the flush thread is woken
HandleEvent ==
  /\ InLoop /\ records < MaxRecords /\ records' = records + 1
  /\ LET due == open # 0 /\ records' % Freq = 0
     IN  flush' = (flush \/ due) /\ owed' = IF due THEN owed \cup {records'} ELSE owed
  /\ UNCHANGED <<file, confVars, main, log_fd, open, flusher, covers, hups, users, failures>>

\* flush_thread_main: a request is waiting
TakeFlush ==
  /\ flusher = "wait" /\ flush
  /\ flush' = FALSE /\ flusher' = "test"
  /\ UNCHANGED <<file, confVars, main, log_fd, open, owed, covers, bounds>>

\* ... if (log_fd >= 0)
TestLogFd ==
  /\ flusher = "test"
  /\ flusher' = IF log_fd = 0 THEN "wait" ELSE "sync"
  /\ UNCHANGED <<file, confVars, main, log_fd, open, flush, owed, covers, bounds>>

\* fsync(log_fd): log_fd is read again, and may have been closed or replaced
Sync ==
  /\ flusher = "sync" /\ flusher' = "syncing"
  /\ covers' = IF log_fd # 0 /\ log_fd = open THEN owed ELSE {}
  /\ UNCHANGED <<file, confVars, main, log_fd, open, flush, owed, bounds>>

\* ... and its return
Synced ==
  /\ flusher = "syncing" /\ flusher' = "wait"
  /\ owed' = owed \ covers /\ covers' = {}
  /\ UNCHANGED <<file, confVars, main, log_fd, open, flush, bounds>>

Edit ==
  /\ file <= MaxEdits
  /\ file' = file + 1
  /\ UNCHANGED <<confVars, logVars, bounds>>

-----------------------------------------------------------------------------
MainSteps ==
  InfoForHup \/ InfoForUser1 \/ InfoForUser2 \/ InfoIgnored \/ pipe_handler \/ OpenLog
ThreadSteps == ThreadLoads \/ ThreadFails \/ ThreadReady \/ ThreadUnlocks
FlushSteps == TakeFlush \/ TestLogFd \/ Sync \/ Synced

Next ==
  \/ hup_handler \/ user1_handler \/ user2_handler
  \/ InfoForHup \/ InfoForUser1 \/ InfoForUser2 \/ InfoIgnored
  \/ ThreadLoads \/ ThreadFails \/ ThreadReady \/ ThreadUnlocks
  \/ pipe_handler \/ OpenLog \/ HandleEvent
  \/ TakeFlush \/ TestLogFd \/ Sync \/ Synced
  \/ Edit

\* The loop handles what has arrived, and both threads run.
Fairness == WF_vars(MainSteps) /\ WF_vars(ThreadSteps) /\ WF_vars(FlushSteps)

Spec == Init /\ [][Next]_vars /\ Fairness

-----------------------------------------------------------------------------
(* Properties                                                              *)

\* Type correctness; the configuration in force is one that auditd.conf held, never an
\* event that load_config left empty.
TypeOK ==
  /\ file \in 1 .. MaxEdits + 1 /\ conf \in 1 .. file /\ wanted \in 1 .. file
  /\ requested \subseteq {"hup", "usr1", "usr2"} /\ infos \in 0 .. (hups + users)
  /\ event \in [HupEvents -> {"none", "info", "config", "freed"}]
  /\ version \in [HupEvents -> 0 .. MaxEdits + 1]
  /\ reconfig_ev \in 0 .. MaxHups /\ config_lock \in BOOLEAN
  /\ thread.ev \in 0 .. MaxHups /\ thread.step \in {"none", "load", "ready", "unlock"}
  /\ pipe \in 0 .. MaxHups /\ misuse \in {"no", "null", "freed", "unfinished"}
  /\ main \in {"idle", "reopen"} /\ log_fd \in Fds \cup {0} /\ open \in Fds \cup {0}
  /\ flusher \in {"wait", "test", "sync", "syncing"} /\ flush \in BOOLEAN
  /\ owed \subseteq 1 .. MaxRecords /\ covers \subseteq 1 .. MaxRecords
  /\ hups \in 0 .. MaxHups /\ users \in 0 .. MaxUsers
  /\ records \in 0 .. MaxRecords /\ failures \in 0 .. MaxFailures

\* The replies do not say which signal they are for; there is always one on its way
\* for every signal that waits for one.
RepliesSuffice == Cardinality(requested) <= infos

\* pipe_handler hands over an event that the configuration thread has finished.
EventIsReady == misuse = "no"

\* The version of auditd.conf for which a SIGHUP was sent comes into force, or a later
\* one, unless it cannot be read or the daemon has logged that it refused the request.
HupApplies == []<>(conf >= wanted)

\* Every request to flush is followed by an fsync of the records it was for, as long
\* as the log is not closed before.
FlushReachesDisk == []<>(owed = {})
=============================================================================
