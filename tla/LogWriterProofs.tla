-------------------------- MODULE LogWriterProofs --------------------------
(***************************************************************************)
(* Proofs about LogWriter for every set of configurations.  The operators  *)
(* of LogWriter map a state of the daemon to the states a C function may   *)
(* leave; the lemmas below say of each, from the bottom of the call graph  *)
(* upwards, what it preserves, and the theorems follow action by action.   *)
(***************************************************************************)
EXTENDS LogWriter, TLAPS

(* What every function preserves of the daemon's state, nested calls and   *)
(* early returns included.                                                 *)
Watched(s) == s.stream # "null" => s.fd = "stream"
Sized(s) == (s.pathBig => s.path) /\ (s.stream = "path" => s.path)
Sane(s) == s \in State /\ Watched(s) /\ Sized(s)

(* t may follow s within a handler: the configuration is the same and a    *)
(* suspension is not lifted.                                               *)
After(s, t) ==
  /\ Sane(t)
  /\ t.conf = s.conf
  /\ s.suspended => t.suspended

(* After is transitive. *)
LEMMA AfterTransitive ==
  ASSUME NEW s, NEW t, NEW u, After(s, t), After(t, u)
  PROVE  After(s, u)
  BY DEF After

(* A function that changes nothing. *)
LEMMA AfterReflexive ==
  ASSUME NEW s, Sane(s)
  PROVE  After(s, s)
  BY DEF After

(* The elementary changes. *)
LEMMA SuspendAfter ==
  ASSUME NEW s, Sane(s)
  PROVE  /\ After(s, Close(s)) /\ After(s, ClosedLog(s))
         /\ After(s, Suspend(s)) /\ ~NullWrite(Suspend(s))
         /\ After(s, NoMemory(s)) /\ ~NullWrite(NoMemory(s))
         /\ After(s, Halt(s)) /\ (~NullWrite(s) => ~NullWrite(Halt(s)))
         /\ After(s, [s EXCEPT !.suspended = TRUE]) /\ ~NullWrite([s EXCEPT !.suspended = TRUE])
<1> USE DEF Sane, Watched, Sized, After, State
<1>1. After(s, Close(s))
  BY DEF Close
<1>2. After(s, ClosedLog(s))
  BY <1>1 DEF ClosedLog
<1>3. After(s, Suspend(s)) /\ ~NullWrite(Suspend(s))
  BY DEF Suspend, Close, NullWrite
<1>4. After(s, NoMemory(s)) /\ ~NullWrite(NoMemory(s))
  BY DEF NoMemory, ClosedLog, Close, NullWrite
<1>5. After(s, Halt(s)) /\ (~NullWrite(s) => ~NullWrite(Halt(s)))
  BY DEF Halt, NullWrite
<1>6. After(s, [s EXCEPT !.suspended = TRUE]) /\ ~NullWrite([s EXCEPT !.suspended = TRUE])
  BY DEF NullWrite
<1> QED
  BY <1>1, <1>2, <1>3, <1>4, <1>5, <1>6

(* do_disk_error_action keeps a log that is open, or suspends logging. *)
LEMMA DiskErrorAfter ==
  ASSUME NEW s, Sane(s)
  PROVE  /\ After(s, DoDiskErrorAction(s))
         /\ ~NullWrite(s) => ~NullWrite(DoDiskErrorAction(s))
<1>1. s.conf.error_action \in ErrorActions
  BY DEF Sane, State, Config
<1>2. CASE s.conf.error_action = "syslog"
  BY <1>2 DEF DoDiskErrorAction, Sane, Watched, Sized, After, State, NullWrite
<1>3. CASE s.conf.error_action # "syslog"
  BY <1>1, <1>3, SuspendAfter, AfterReflexive DEF DoDiskErrorAction, ErrorActions
<1> QED
  BY <1>2, <1>3

(* open_audit_log: when it succeeds the log is open, or none is wanted. *)
LEMMA OpenAfter ==
  ASSUME NEW s, Sane(s), NEW o \in OpenAuditLog(s)
  PROVE  /\ After(s, o.st) /\ o.ok \in BOOLEAN
         /\ o.ok => ~NullWrite(o.st)
<1> USE DEF Sane, Watched, Sized, After, State
<1>1. After(s, Opened(s)) /\ ~NullWrite(Opened(s))
  BY DEF Opened, NullWrite
<1>2. After(s, [Opened(s) EXCEPT !.stream = "null", !.fd = "closed"])
  BY DEF Opened
<1>3. o.ok = TRUE \/ o.ok = FALSE
  BY DEF OpenAuditLog
<1>4. CASE ~s.conf.write_logs
  <2>1. o = [ok |-> TRUE, st |-> s]
    BY <1>4 DEF OpenAuditLog
  <2> QED
    BY <1>4, <2>1 DEF NullWrite
<1>5. CASE s.conf.write_logs
  <2>1. \/ o = [ok |-> TRUE, st |-> Opened(s)]
        \/ o = [ok |-> FALSE, st |-> s]
        \/ o = [ok |-> FALSE, st |-> [Opened(s) EXCEPT !.stream = "null", !.fd = "closed"]]
    BY <1>5 DEF OpenAuditLog
  <2>2. CASE o = [ok |-> TRUE, st |-> Opened(s)]
    BY <1>1, <2>2
  <2>3. CASE o = [ok |-> FALSE, st |-> s]
    BY <2>3
  <2>4. CASE o = [ok |-> FALSE, st |-> [Opened(s) EXCEPT !.stream = "null", !.fd = "closed"]]
    <3> DEFINE u == [Opened(s) EXCEPT !.stream = "null", !.fd = "closed"]
    <3>1. After(s, u)
      BY <1>2
    <3> HIDE DEF u
    <3> HIDE DEF After
    <3>2. o = [ok |-> FALSE, st |-> u]
      BY Zenon, <2>4 DEF u
    <3>3. o.ok = FALSE /\ o.st = u
      BY <3>2
    <3> QED
      BY Zenon, <3>1, <3>3
  <2> QED
    BY <2>1, <2>2, <2>3, <2>4
<1> QED
  BY <1>4, <1>5

(* A log that could not be opened suspends logging. *)
LEMMA OpenFailedAfter ==
  ASSUME NEW s, Sane(s)
  PROVE  LET u == DoDiskErrorAction([s EXCEPT !.suspended = TRUE])
         IN  After(s, u) /\ ~NullWrite(u)
<1> DEFINE t == [s EXCEPT !.suspended = TRUE]
<1>1. After(s, t) /\ ~NullWrite(t)
  BY SuspendAfter
<1>2. Sane(t)
  BY <1>1 DEF After
<1>3. After(t, DoDiskErrorAction(t)) /\ ~NullWrite(DoDiskErrorAction(t))
  BY <1>1, <1>2, DiskErrorAfter
<1> QED
  BY <1>1, <1>3, AfterTransitive

(* The end of rotate_logs: whatever came before, logging is on only with an open log. *)
LEMMA NewLogAfter ==
  ASSUME NEW s, NEW S, \A t \in S : After(s, t), NEW u \in NewLog(S)
  PROVE  After(s, u) /\ ~NullWrite(u)
<1>1. PICK o \in UNION {OpenAuditLog(t) : t \in S} :
        u = IF o.ok THEN o.st ELSE DoDiskErrorAction([o.st EXCEPT !.suspended = TRUE])
  BY DEF NewLog
<1>2. PICK t \in S : o \in OpenAuditLog(t)
  BY <1>1
<1>3. After(s, t) /\ Sane(t)
  BY <1>2 DEF After
<1>4. After(t, o.st) /\ o.ok \in BOOLEAN /\ (o.ok => ~NullWrite(o.st))
  BY <1>2, <1>3, OpenAfter
<1>5. CASE o.ok
  BY <1>1, <1>3, <1>4, <1>5, AfterTransitive
<1>6. CASE ~o.ok
  <2>1. Sane(o.st)
    BY <1>4 DEF After
  <2>2. After(o.st, u) /\ ~NullWrite(u)
    BY <1>1, <1>6, <2>1, OpenFailedAfter
  <2> QED
    BY <1>3, <1>4, <2>2, AfterTransitive
<1> QED
  BY <1>5, <1>6

(* The rename of the log. *)
LEMMA MovedAwayAfter ==
  ASSUME NEW s, Sane(s)
  PROVE  After(s, MovedAway(s))
  BY DEF Sane, Watched, Sized, After, State, MovedAway

(* rotate_logs within do_disk_full_action. *)
LEMMA RotateWhenFullAfter ==
  ASSUME NEW s, Sane(s), NEW olders \in BOOLEAN, NEW u \in RotateWhenFull(s, olders)
  PROVE  After(s, u) /\ ~NullWrite(u)
<1> DEFINE chain == {ClosedLog(s)} \cup IF olders THEN {DoDiskErrorAction(ClosedLog(s))} ELSE {}
<1> DEFINE renamed ==
      UNION {IF t.path THEN {MovedAway(t), DoDiskErrorAction(t)} ELSE {t} : t \in chain}
<1>1. After(s, ClosedLog(s)) /\ Sane(ClosedLog(s))
  BY SuspendAfter DEF After
<1>2. After(s, DoDiskErrorAction(ClosedLog(s)))
  BY <1>1, DiskErrorAfter, AfterTransitive
<1>3. \A t \in chain : After(s, t)
  BY <1>1, <1>2
<1>4. ASSUME NEW v \in renamed PROVE After(s, v)
  <2>1. PICK t \in chain : v \in IF t.path THEN {MovedAway(t), DoDiskErrorAction(t)} ELSE {t}
    BY <1>4
  <2>2. After(s, t) /\ Sane(t)
    BY <1>3, <2>1 DEF After
  <2>3. v = MovedAway(t) \/ v = DoDiskErrorAction(t) \/ v = t
    BY <2>1
  <2>4. After(t, v)
    BY <2>2, <2>3, MovedAwayAfter, DiskErrorAfter, AfterReflexive
  <2> QED
    BY <2>2, <2>4, AfterTransitive
<1>5. u = NoMemory(s) \/ u \in NewLog(renamed)
  BY DEF RotateWhenFull
<1>6. CASE u = NoMemory(s)
  BY <1>6, SuspendAfter
<1>7. CASE u \in NewLog(renamed)
  <2> HIDE DEF renamed
  <2> QED
    BY <1>4, <1>7, NewLogAfter
<1> QED
  BY <1>5, <1>6, <1>7

(* t follows s, and a daemon that was ready to write still is. *)
Keeps(s, t) == After(s, t) /\ (~NullWrite(s) => ~NullWrite(t))

(* Keeps composes, too. *)
LEMMA KeepsTransitive ==
  ASSUME NEW s, NEW t, NEW u, Keeps(s, t), Keeps(t, u)
  PROVE  Keeps(s, u)
  BY AfterTransitive DEF Keeps

(* A function that changes nothing, again. *)
LEMMA KeepsReflexive ==
  ASSUME NEW s, Sane(s)
  PROVE  Keeps(s, s)
  BY AfterReflexive DEF Keeps

(* What Keeps says of the state after. *)
LEMMA KeepsSane ==
  ASSUME NEW s, NEW t, Keeps(s, t)
  PROVE  Sane(t)
  BY DEF Keeps, After

(* The flags and counters that neither the log nor its suspension depend on. *)
LEMMA FlagsKept ==
  ASSUME NEW s, Sane(s), NEW b \in BOOLEAN
  PROVE  /\ Keeps(s, [s EXCEPT !.space_left = b])
         /\ \A n \in 0 .. 5 : Keeps(s, [s EXCEPT !.err = n])
         /\ Keeps(s, [s EXCEPT !.space_warning = b]) /\ Keeps(s, [s EXCEPT !.admin_warning = b])
<1> USE DEF Sane, Watched, Sized, After, State, Keeps, NullWrite
<1>1. Keeps(s, [s EXCEPT !.space_left = b])
  OBVIOUS
<1>2. \A n \in 0 .. 5 : Keeps(s, [s EXCEPT !.err = n])
  OBVIOUS
<1>3. Keeps(s, [s EXCEPT !.space_warning = b])
  OBVIOUS
<1>4. Keeps(s, [s EXCEPT !.admin_warning = b])
  OBVIOUS
<1> QED
  BY <1>1, <1>2, <1>3, <1>4

(* do_disk_full_action *)
LEMMA DiskFullKept ==
  ASSUME NEW s, Sane(s), NEW u \in DoDiskFullAction(s)
  PROVE  Keeps(s, u)
<1>1. s.conf.full_action \in SpaceActions \ {"syslog"} /\ s.conf.num_logs \in Int
  BY DEF Sane, State, Config
<1>2. CASE s.conf.full_action = "rotate"
  <2>1. u = s \/ u \in RotateWhenFull(s, s.conf.num_logs > 2)
    BY <1>2 DEF DoDiskFullAction
  <2>2. (s.conf.num_logs > 2) \in BOOLEAN
    BY <1>1
  <2> QED
    BY <2>1, <2>2, KeepsReflexive, RotateWhenFullAfter DEF Keeps
<1>3. CASE s.conf.full_action # "rotate"
  <2>1. u = s \/ u = Suspend(s) \/ u = Halt(s)
    BY <1>1, <1>3 DEF DoDiskFullAction, SpaceActions
  <2> QED
    BY <2>1, KeepsReflexive, SuspendAfter DEF Keeps
<1> QED
  BY <1>2, <1>3

(* A full disk found for the first time. *)
LEMMA FullFoundKept ==
  ASSUME NEW s, Sane(s), NEW u \in DoDiskFullAction([s EXCEPT !.space_left = FALSE])
  PROVE  Keeps(s, u)
<1>1. Keeps(s, [s EXCEPT !.space_left = FALSE])
  BY FlagsKept
<1>2. Keeps([s EXCEPT !.space_left = FALSE], u)
  BY <1>1, KeepsSane, DiskFullKept
<1> QED
  BY <1>1, <1>2, KeepsTransitive

(* A call that fails, whatever the reason. *)
LEMMA FailingKept ==
  ASSUME NEW s, Sane(s), NEW u \in Failing(s)
  PROVE  Keeps(s, u)
<1>1. u = DoDiskErrorAction(s) \/ u \in DoDiskFullAction([s EXCEPT !.space_left = FALSE])
  BY DEF Failing
<1>2. CASE u = DoDiskErrorAction(s)
  BY <1>2, DiskErrorAfter DEF Keeps
<1> QED
  BY <1>1, <1>2, FullFoundKept

(* rotate_logs: it may close the log first, and ends with an open one or suspended. *)
LEMMA RotateLogsAfter ==
  ASSUME NEW s, Sane(s), NEW olders \in BOOLEAN, NEW u \in RotateLogs(s, olders)
  PROVE  After(s, u) /\ ~NullWrite(u)
<1> DEFINE chain == {ClosedLog(s)} \cup IF olders THEN Failing(ClosedLog(s)) ELSE {}
<1> DEFINE renamed ==
      UNION {IF t.path THEN {MovedAway(t)} \cup Failing(t) ELSE {t} : t \in chain}
<1>1. After(s, ClosedLog(s)) /\ Sane(ClosedLog(s))
  BY SuspendAfter DEF After
<1>2. \A t \in Failing(ClosedLog(s)) : After(ClosedLog(s), t)
  BY <1>1, FailingKept DEF Keeps
<1>3. ASSUME NEW t \in chain PROVE After(s, t)
  <2>1. t = ClosedLog(s) \/ t \in Failing(ClosedLog(s))
    OBVIOUS
  <2> QED
    BY <1>1, <1>2, <2>1, AfterTransitive
<1>4. ASSUME NEW v \in renamed PROVE After(s, v)
  <2>1. PICK t \in chain : v \in IF t.path THEN {MovedAway(t)} \cup Failing(t) ELSE {t}
    BY <1>4
  <2>2. After(s, t) /\ Sane(t)
    BY <1>3, <2>1 DEF After
  <2>3. v = MovedAway(t) \/ v \in Failing(t) \/ v = t
    BY <2>1
  <2>4. After(t, v)
    BY <2>2, <2>3, MovedAwayAfter, FailingKept, AfterReflexive DEF Keeps
  <2> QED
    BY <2>2, <2>4, AfterTransitive
<1>5. u = NoMemory(s) \/ u \in NewLog(renamed)
  BY DEF RotateLogs
<1>6. CASE u = NoMemory(s)
  BY <1>6, SuspendAfter
<1>7. CASE u \in NewLog(renamed)
  <2> HIDE DEF renamed
  <2> QED
    BY <1>4, <1>7, NewLogAfter
<1> QED
  BY <1>5, <1>6, <1>7

(* The callers of rotate_logs. *)
LEMMA RotationKept ==
  ASSUME NEW s, Sane(s)
  PROVE  /\ \A u \in Rotate(s) : Keeps(s, u)
         /\ \A u \in ShiftLogs(s) : Keeps(s, u)
         /\ \A u \in RotateLogsNow(s) : Keeps(s, u)
<1>1. ASSUME NEW u \in Rotate(s) PROVE Keeps(s, u)
  <2>1. s.conf.num_logs \in Int
    BY DEF Sane, State, Config
  <2>2. (s.conf.num_logs > 2) \in BOOLEAN
    BY <2>1
  <2>3. u = s \/ u \in RotateLogs(s, s.conf.num_logs > 2)
    BY <1>1 DEF Rotate
  <2> QED
    BY <2>2, <2>3, KeepsReflexive, RotateLogsAfter DEF Keeps
<1>2. ASSUME NEW u \in ShiftLogs(s) PROVE Keeps(s, u)
  <2>1. u = s \/ \E olders \in BOOLEAN : u \in RotateLogs(s, olders)
    BY <1>2 DEF ShiftLogs
  <2> QED
    BY <2>1, KeepsReflexive, RotateLogsAfter DEF Keeps
<1> QED
  BY <1>1, <1>2 DEF RotateLogsNow

(* check_log_file_size *)
LEMMA SizeCheckKept ==
  ASSUME NEW s, Sane(s), NEW u \in CheckLogFileSize(s)
  PROVE  Keeps(s, u)
<1>1. s.conf.size_action \in SizeActions
  BY DEF Sane, State, Config
<1>2. u = s \/ u = Suspend(s) \/ u \in Rotate(s) \/ u \in ShiftLogs(s)
  BY <1>1 DEF CheckLogFileSize, SizeActions
<1> QED
  BY <1>2, KeepsReflexive, SuspendAfter, RotationKept DEF Keeps

(* do_space_left_action *)
LEMMA SpaceActionKept ==
  ASSUME NEW s, Sane(s), NEW action \in SpaceActions, NEW u \in DoSpaceLeftAction(s, action)
  PROVE  Keeps(s, u)
<1>1. u = s \/ u = Suspend(s) \/ u = Halt(s) \/ u \in Rotate(s)
  BY DEF DoSpaceLeftAction, SpaceActions
<1> QED
  BY <1>1, KeepsReflexive, SuspendAfter, RotationKept DEF Keeps

(* The two halves of check_space_left. *)
LEMMA SpaceHalfKept ==
  ASSUME NEW s, Sane(s), NEW low \in BOOLEAN, NEW u \in SpaceCheck(s, low)
  PROVE  Keeps(s, u)
<1> DEFINE action == s.conf.space_action
<1>1. action \in SpaceActions /\ s.space_warning \in BOOLEAN
  BY DEF Sane, State, Config
<1>2. \/ u = s \/ u = [s EXCEPT !.space_warning = FALSE]
      \/ \E t \in DoSpaceLeftAction(s, action) :
           u = [t EXCEPT !.space_warning = @ \/ action # "rotate"]
  BY <1>1 DEF SpaceCheck
<1>3. CASE u = s \/ u = [s EXCEPT !.space_warning = FALSE]
  BY <1>3, KeepsReflexive, FlagsKept
<1>4. ASSUME NEW t \in DoSpaceLeftAction(s, action),
             u = [t EXCEPT !.space_warning = @ \/ action # "rotate"]
      PROVE  Keeps(s, u)
  <2>1. Keeps(s, t) /\ Sane(t)
    BY <1>1, <1>4, SpaceActionKept, KeepsSane
  <2>2. PICK b \in BOOLEAN : u = [t EXCEPT !.space_warning = b]
    BY <1>4
  <2>3. Keeps(t, u)
    BY <2>1, <2>2, FlagsKept
  <2> QED
    BY <2>1, <2>3, KeepsTransitive
<1> QED
  BY <1>2, <1>3, <1>4

(* ... and the second half. *)
LEMMA AdminHalfKept ==
  ASSUME NEW s, Sane(s), NEW low \in BOOLEAN, NEW u \in AdminCheck(s, low)
  PROVE  Keeps(s, u)
<1> DEFINE action == s.conf.admin_action
<1>1. action \in SpaceActions /\ s.admin_warning \in BOOLEAN
  BY DEF Sane, State, Config
<1>2. \/ u = s \/ u = [s EXCEPT !.admin_warning = FALSE]
      \/ \E t \in DoSpaceLeftAction(s, action) :
           u = [t EXCEPT !.admin_warning = @ \/ action # "rotate"]
  BY <1>1 DEF AdminCheck
<1>3. CASE u = s \/ u = [s EXCEPT !.admin_warning = FALSE]
  BY <1>3, KeepsReflexive, FlagsKept
<1>4. ASSUME NEW t \in DoSpaceLeftAction(s, action),
             u = [t EXCEPT !.admin_warning = @ \/ action # "rotate"]
      PROVE  Keeps(s, u)
  <2>1. Keeps(s, t) /\ Sane(t)
    BY <1>1, <1>4, SpaceActionKept, KeepsSane
  <2>2. PICK b \in BOOLEAN : u = [t EXCEPT !.admin_warning = b]
    BY <1>4
  <2>3. Keeps(t, u)
    BY <2>1, <2>2, FlagsKept
  <2> QED
    BY <2>1, <2>3, KeepsTransitive
<1> QED
  BY <1>2, <1>3, <1>4

(* check_space_left *)
LEMMA SpaceCheckKept ==
  ASSUME NEW s, Sane(s), NEW u \in CheckSpaceLeft(s)
  PROVE  Keeps(s, u)
<1>1. \/ u = s
      \/ u \in DoDiskFullAction([s EXCEPT !.space_left = FALSE])
      \/ \E level \in {"enough", "low", "very low"} :
           \E t \in SpaceCheck(s, level # "enough") : u \in AdminCheck(t, level = "very low")
  BY DEF CheckSpaceLeft
<1>2. ASSUME NEW level \in {"enough", "low", "very low"},
             NEW t \in SpaceCheck(s, level # "enough"), u \in AdminCheck(t, level = "very low")
      PROVE  Keeps(s, u)
  <2>1. (level # "enough") \in BOOLEAN /\ (level = "very low") \in BOOLEAN
    OBVIOUS
  <2>2. Keeps(s, t) /\ Sane(t)
    BY <1>2, <2>1, SpaceHalfKept, KeepsSane
  <2>3. Keeps(t, u)
    BY <1>2, <2>1, <2>2, AdminHalfKept
  <2> QED
    BY <2>2, <2>3, KeepsTransitive
<1> QED
  BY <1>1, <1>2, KeepsReflexive, FullFoundKept

(* The flush, and the sync after it. *)
LEMMA FlushKept ==
  ASSUME NEW s, Sane(s), NEW u \in Flush(s)
  PROVE  Keeps(s, u)
<1>1. \/ u = s \/ u \in Failing(s)
      \/ \E t \in {s} \cup Failing(s) : u = DoDiskErrorAction(t)
  BY DEF Flush
<1>2. \A t \in {s} \cup Failing(s) : Keeps(s, t)
  BY KeepsReflexive, FailingKept
<1>3. ASSUME NEW t \in {s} \cup Failing(s), u = DoDiskErrorAction(t) PROVE Keeps(s, u)
  <2>1. Keeps(s, t) /\ Sane(t)
    BY <1>2, KeepsSane
  <2>2. Keeps(t, u)
    BY <1>3, <2>1, DiskErrorAfter DEF Keeps
  <2> QED
    BY <2>1, <2>2, KeepsTransitive
<1> QED
  BY <1>1, <1>2, <1>3

(* The answers a sender may get, and the ones that promise a record. *)
Answers == {<<"ACK">>, <<"DISKLOW">>, <<"DISKFULL">>, <<"DISKERROR">>}
Promises == {<<"ACK">>, <<"DISKLOW">>}

(* An outcome of writing a record in state s. *)
Outcome(s, r) ==
  /\ Keeps(s, r.st)
  /\ r = Result(r.st, r.to, r.acks)
  /\ r.acks \in Answers
  /\ r.to \in {"nowhere", s.stream}
  /\ r.acks \in Promises => r.to = s.stream

(* The log grows. *)
LEMMA GrownKept ==
  ASSUME NEW s, Sane(s), NEW g \in BOOLEAN
  PROVE  Keeps(s, [s EXCEPT !.big = @ \/ g, !.pathBig = @ \/ (g /\ s.stream = "path")])
<1> DEFINE t == [s EXCEPT !.big = @ \/ g, !.pathBig = @ \/ (g /\ s.stream = "path")]
<1>1. t \in State
  BY DEF Sane, State
<1>2. /\ t.stream = s.stream /\ t.fd = s.fd /\ t.path = s.path /\ t.conf = s.conf
      /\ t.suspended = s.suspended
      /\ t.pathBig = (s.pathBig \/ (g /\ s.stream = "path"))
  BY DEF Sane, State
<1> HIDE DEF t
<1>3. Sane(t)
  BY <1>1, <1>2 DEF Sane, Watched, Sized
<1>4. Keeps(s, t)
  BY <1>2, <1>3 DEF Keeps, After, NullWrite
<1> QED
  BY <1>4 DEF t

(* write_to_log answers once, and positively only for what it wrote. *)
LEMMA WriteOutcome ==
  ASSUME NEW s, Sane(s), NEW r \in WriteToLog(s)
  PROVE  Outcome(s, r)
<1> DEFINE grown == {[s EXCEPT !.big = @ \/ g, !.pathBig = @ \/ (g /\ s.stream = "path")] : g \in BOOLEAN}
<1> DEFINE sized == UNION {CheckLogFileSize(t) : t \in grown}
<1> DEFINE checked == sized \cup UNION {CheckSpaceLeft(t) : t \in sized}
<1> DEFINE full == IF s.space_left THEN DoDiskFullAction([s EXCEPT !.space_left = FALSE]) ELSE {s}
<1>1. \A t \in grown : Keeps(s, t)
  BY GrownKept
<1>2. ASSUME NEW u \in sized PROVE Keeps(s, u)
  <2>1. PICK t \in grown : u \in CheckLogFileSize(t)
    BY <1>2
  <2>2. Keeps(s, t) /\ Sane(t)
    BY <1>1, <2>1, KeepsSane
  <2> QED
    BY <2>1, <2>2, SizeCheckKept, KeepsTransitive
<1> HIDE DEF sized
<1>3. ASSUME NEW u \in checked PROVE Keeps(s, u)
  <2>1. u \in sized \/ \E t \in sized : u \in CheckSpaceLeft(t)
    BY <1>3
  <2>2. ASSUME NEW t \in sized, u \in CheckSpaceLeft(t) PROVE Keeps(s, u)
    BY <1>2, <2>2, KeepsSane, SpaceCheckKept, KeepsTransitive
  <2> QED
    BY <1>2, <2>1, <2>2
<1>4. \A u \in full : Keeps(s, u)
  BY KeepsReflexive, FullFoundKept
<1> USE DEF sized
<1>5. \/ \E t \in checked : r = Result([t EXCEPT !.err = 0], s.stream,
                                       <<IF t.space_warning THEN "DISKLOW" ELSE "ACK">>)
      \/ \E t \in full : r = Result(t, "nowhere", <<"DISKFULL">>)
      \/ r = Result(DoDiskErrorAction(s), "nowhere", <<"DISKERROR">>)
  BY Zenon DEF WriteToLog
<1> HIDE DEF checked, full
<1>6. ASSUME NEW t \in checked,
             r = Result([t EXCEPT !.err = 0], s.stream, <<IF t.space_warning THEN "DISKLOW" ELSE "ACK">>)
      PROVE  Outcome(s, r)
  <2>1. Keeps(s, t) /\ Sane(t)
    BY <1>3, KeepsSane
  <2>2. Keeps(t, [t EXCEPT !.err = 0])
    <3>1. TRUE \in BOOLEAN /\ 0 \in 0 .. 5
      OBVIOUS
    <3> QED
      BY <2>1, <3>1, FlagsKept
  <2>3. Keeps(s, r.st)
    BY <1>6, <2>1, <2>2, KeepsTransitive DEF Result
  <2>4. r.acks \in Promises /\ r.to = s.stream /\ r = Result(r.st, r.to, r.acks)
    BY <1>6 DEF Result, Promises
  <2> QED
    BY <2>3, <2>4 DEF Outcome, Answers, Promises
<1>7. ASSUME NEW t \in full, r = Result(t, "nowhere", <<"DISKFULL">>)
      PROVE  Outcome(s, r)
  <2>1. Keeps(s, t)
    BY <1>4
  <2>2. r.st = t /\ r.to = "nowhere" /\ r.acks = <<"DISKFULL">>
    BY <1>7 DEF Result
  <2> QED
    BY <1>7, <2>1, <2>2 DEF Outcome, Answers, Promises
<1>8. CASE r = Result(DoDiskErrorAction(s), "nowhere", <<"DISKERROR">>)
  <2>1. Keeps(s, DoDiskErrorAction(s))
    BY DiskErrorAfter DEF Keeps
  <2>2. r.st = DoDiskErrorAction(s) /\ r.to = "nowhere" /\ r.acks = <<"DISKERROR">>
    BY <1>8 DEF Result
  <2> QED
    BY <1>8, <2>1, <2>2 DEF Outcome, Answers, Promises
<1> QED
  BY <1>5, <1>6, <1>7, <1>8

(* The second half of handle_event, in the three cases it tells apart. *)
LEMMA RecordOutcome ==
  ASSUME NEW s, Sane(s), NEW r \in LogRecord(s)
  PROVE  /\ Keeps(s, r.st) /\ r.acks \in Answers
         /\ r.to = "nowhere" \/ (~s.suspended /\ s.conf.write_logs /\ r.to = s.stream)
         /\ r.acks \in Promises => r.to = s.stream \/ ~s.conf.write_logs
<1>0. s.suspended \in BOOLEAN /\ s.conf.write_logs \in BOOLEAN
  BY DEF Sane, State, Config
<1>1. CASE ~s.suspended /\ s.conf.write_logs
  <2>1. PICK w \in WriteToLog(s) : \E t \in Flush(w.st) : r = [w EXCEPT !.st = t]
    BY <1>1 DEF LogRecord
  <2>2. PICK t \in Flush(w.st) : r = [w EXCEPT !.st = t]
    BY <2>1
  <2>3. Outcome(s, w) /\ Sane(w.st)
    BY WriteOutcome, KeepsSane DEF Outcome
  <2>4. Keeps(w.st, t)
    BY <2>3, FlushKept
  <2>5. Keeps(s, t)
    BY <2>3, <2>4, KeepsTransitive DEF Outcome
  <2>6. w = [st |-> w.st, to |-> w.to, acks |-> w.acks]
    BY <2>3 DEF Outcome, Result
  <2>7. r.st = t /\ r.to = w.to /\ r.acks = w.acks
    BY <2>2, <2>6
  <2> QED
    BY <1>1, <2>3, <2>5, <2>7 DEF Outcome
<1>2. CASE ~s.conf.write_logs
  <2>1. r = Result(s, "nowhere", <<"ACK">>)
    BY <1>2 DEF LogRecord
  <2>2. r.st = s /\ r.to = "nowhere" /\ r.acks = <<"ACK">>
    BY <2>1 DEF Result
  <2> QED
    BY <1>2, <2>2, KeepsReflexive DEF Answers
<1>3. CASE s.suspended /\ s.conf.write_logs
  <2>1. r = Result(s, "nowhere", <<"DISKERROR">>)
    BY <1>3 DEF LogRecord
  <2>2. r.st = s /\ r.to = "nowhere" /\ r.acks = <<"DISKERROR">>
    BY <2>1 DEF Result
  <2> QED
    BY <2>2, KeepsReflexive DEF Answers, Promises
<1> QED
  BY <1>0, <1>1, <1>2, <1>3

-----------------------------------------------------------------------------
(* The handlers                                                            *)

(* The configuration in force follows the last request at once as to       *)
(* write_logs; only a reconfigure reopens the log or checks the space; and *)
(* what a handler has to do ends with the record.                          *)
HandlerInv ==
  /\ d.conf.write_logs = nconf.write_logs
  /\ todo \in SUBSET {"reopen", "space", "record"}
  /\ todo \cap {"reopen", "space"} # {} => event = "reconfigure"

Inv ==
  /\ Sane(d) /\ nconf \in Config
  /\ event \in Events
  /\ HandlerInv
  /\ ReadyToWrite
  /\ AnsweredOnce

(* init_event starts sane and ready to write. *)
LEMMA InitEventSane ==
  ASSUME NEW c \in Config, NEW u \in InitEvent(c)
  PROVE  Sane(u) /\ u.conf = c /\ ~NullWrite(u)
<1> DEFINE fresh == [conf |-> c, stream |-> "null", fd |-> "none", suspended |-> FALSE,
                     space_left |-> TRUE, space_warning |-> FALSE, admin_warning |-> FALSE,
                     err |-> 0, stop |-> FALSE, big |-> FALSE, path |-> FALSE, pathBig |-> FALSE]
<1> DEFINE found == {fresh, [fresh EXCEPT !.path = TRUE], [fresh EXCEPT !.path = TRUE, !.pathBig = TRUE]}
<1> DEFINE opened == {o \in UNION {OpenAuditLog(s) : s \in found} : o.ok}
<1> DEFINE sized == UNION {CheckLogFileSize(o.st) : o \in opened}
<1>0. fresh \in State /\ fresh.conf = c /\ fresh.stream = "null" /\ fresh.pathBig = FALSE
  BY DEF State
<1>1. ASSUME NEW s \in found PROVE Sane(s) /\ s.conf = c
  <2>1. s = fresh \/ s = [fresh EXCEPT !.path = TRUE] \/ s = [fresh EXCEPT !.path = TRUE, !.pathBig = TRUE]
    OBVIOUS
  <2> HIDE DEF fresh
  <2>2. s \in State /\ s.conf = c /\ s.stream = "null" /\ (s.pathBig => s.path)
    <3>1. CASE s = fresh
      BY <1>0, <3>1
    <3>2. CASE s = [fresh EXCEPT !.path = TRUE]
      BY <1>0, <3>2 DEF State
    <3>3. CASE s = [fresh EXCEPT !.path = TRUE, !.pathBig = TRUE]
      BY <1>0, <3>3 DEF State
    <3> QED
      BY <2>1, <3>1, <3>2, <3>3
  <2> QED
    BY <2>2 DEF Sane, Watched, Sized
<1> HIDE DEF found
<1>2. ASSUME NEW o \in opened PROVE Sane(o.st) /\ o.st.conf = c /\ ~NullWrite(o.st)
  <2>1. PICK s \in found : o \in OpenAuditLog(s) /\ o.ok
    BY <1>2
  <2> QED
    BY <1>1, <2>1, OpenAfter DEF After
<1> HIDE DEF opened
<1>3. ASSUME NEW s \in sized PROVE Sane(s) /\ s.conf = c /\ ~NullWrite(s)
  <2>1. PICK o \in opened : s \in CheckLogFileSize(o.st)
    BY <1>3
  <2> QED
    BY <1>2, <2>1, SizeCheckKept DEF Keeps, After
<1> USE DEF opened, found
<1>4. u \in UNION {CheckSpaceLeft(s) : s \in sized}
  BY Zenon DEF InitEvent
<1> HIDE DEF sized
<1>5. PICK s \in sized : u \in CheckSpaceLeft(s)
  BY <1>4
<1> QED
  BY <1>3, <1>5, SpaceCheckKept DEF Keeps, After

(* The daemon starts in the invariant. *)
LEMMA InitInv == Init => Inv
<1> SUFFICES ASSUME Init PROVE Inv
  OBVIOUS
<1>1. nconf \in Config /\ d \in InitEvent(nconf)
  BY ConfigsAssumption DEF Init
<1>2. Sane(d) /\ d.conf = nconf /\ ~NullWrite(d)
  BY <1>1, InitEventSane
<1> QED
  BY <1>1, <1>2 DEF Init, Inv, Events, HandlerInv, ReadyToWrite, AnsweredOnce

(* The start of a handler: nothing is answered or written yet. *)
LEMMA BeginHandler ==
  ASSUME NEW kind, NEW work, Begin(kind, work)
  PROVE  /\ todo = {} /\ event' = kind /\ todo' = work /\ acks' = <<>> /\ written' = "nowhere"
         /\ UNCHANGED crashed
  BY DEF Begin

(* handle_event of a record *)
LEMMA EventInv ==
  ASSUME Inv, HandleEvent
  PROVE  Inv'
<1>1. PICK kind \in {"local", "network"} : Begin(kind, {"record"})
  BY DEF HandleEvent
<1>2. event' = kind /\ todo = {} /\ todo' = {"record"} /\ UNCHANGED <<d, nconf, resized>>
  BY <1>1 DEF HandleEvent, Begin
<1> QED
  BY <1>2 DEF Inv, HandlerInv, ReadyToWrite, AnsweredOnce, Events

(* The rotation of SIGUSR1 *)
LEMMA RotateInv ==
  ASSUME Inv, HandleRotate
  PROVE  Inv'
<1>1. /\ event' = "rotate" /\ todo = {} /\ todo' = {"record"} /\ UNCHANGED <<nconf, resized>>
      /\ d' \in RotateLogsNow(d)
  BY DEF HandleRotate, Begin
<1>2. Keeps(d, d') /\ Sane(d')
  BY <1>1, RotationKept, KeepsSane DEF Inv
<1>3. d'.conf = d.conf /\ (~NullWrite(d) => ~NullWrite(d'))
  BY <1>2 DEF Keeps, After
<1>4. (~NullWrite(d) => ~NullWrite(d)')
  BY <1>3 DEF NullWrite
<1> QED
  BY <1>1, <1>2, <1>3, <1>4 DEF Inv, HandlerInv, ReadyToWrite, AnsweredOnce, Events

(* Lifting a suspension keeps a state sane, and ready if a log is open. *)
LEMMA LiftedSane ==
  ASSUME NEW s, Sane(s), NEW b \in BOOLEAN
  PROVE  LET t == [s EXCEPT !.suspended = b]
         IN  /\ Sane(t) /\ t.conf = s.conf /\ t.suspended = b /\ t.stream = s.stream
             /\ b \/ s.stream # "null" \/ ~s.conf.write_logs \/ (~s.suspended /\ ~NullWrite(s))
                  => ~NullWrite(t)
<1> DEFINE t == [s EXCEPT !.suspended = b]
<1>1. t \in State
  BY DEF Sane, State
<1>2. /\ t.stream = s.stream /\ t.fd = s.fd /\ t.path = s.path /\ t.conf = s.conf
      /\ t.suspended = b /\ t.pathBig = s.pathBig
  BY DEF Sane, State
<1> HIDE DEF t
<1>3. Sane(t)
  BY <1>1, <1>2 DEF Sane, Watched, Sized
<1>4. b \/ s.stream # "null" \/ ~s.conf.write_logs \/ (~s.suspended /\ ~NullWrite(s)) => ~NullWrite(t)
  BY <1>2 DEF NullWrite
<1> QED
  BY <1>2, <1>3, <1>4 DEF t

(* resume_logging *)
LEMMA ResumeInv ==
  ASSUME Inv, ResumeLogging
  PROVE  Inv'
<1> DEFINE s0 == [d EXCEPT !.suspended = FALSE, !.space_left = TRUE]
<1> DEFINE failed(st) == DoDiskErrorAction([st EXCEPT !.suspended = TRUE])
<1> DEFINE tried == IF s0.stream # "null" THEN {s0}
                    ELSE UNION {IF o.ok THEN CheckLogFileSize(o.st) ELSE {failed(o.st)}
                                  : o \in OpenAuditLog(s0)}
<1>1. Begin("resume", {}) /\ UNCHANGED <<nconf, resized>>
  BY Zenon DEF ResumeLogging
<1>2. d' \in {[t EXCEPT !.err = 0, !.space_warning = FALSE, !.admin_warning = FALSE] : t \in tried}
  BY Zenon DEF ResumeLogging
<1>3. Sane(s0) /\ s0.conf = d.conf /\ (s0.stream # "null" => ~NullWrite(s0))
  <2>1. s0 \in State
    BY DEF Inv, Sane, State
  <2>2. /\ s0.stream = d.stream /\ s0.fd = d.fd /\ s0.path = d.path /\ s0.conf = d.conf
        /\ s0.pathBig = d.pathBig
    BY DEF Inv, Sane, State
  <2> HIDE DEF s0
  <2> QED
    BY <2>1, <2>2 DEF Inv, Sane, Watched, Sized, NullWrite
<1> HIDE DEF s0
<1>4. ASSUME NEW t \in tried PROVE Sane(t) /\ t.conf = d.conf /\ ~NullWrite(t)
  <2>1. CASE s0.stream # "null"
    BY <1>3, <1>4, <2>1
  <2>2. CASE s0.stream = "null"
    <3>1. PICK o \in OpenAuditLog(s0) : t \in IF o.ok THEN CheckLogFileSize(o.st) ELSE {failed(o.st)}
      BY <1>4, <2>2
    <3>2. After(s0, o.st) /\ o.ok \in BOOLEAN /\ (o.ok => ~NullWrite(o.st)) /\ Sane(o.st)
      BY <1>3, <3>1, OpenAfter DEF After
    <3>3. CASE o.ok
      BY <1>3, <3>1, <3>2, <3>3, SizeCheckKept DEF Keeps, After
    <3>4. CASE ~o.ok
      BY <1>3, <3>1, <3>2, <3>4, OpenFailedAfter DEF After
    <3> QED
      BY <3>3, <3>4
  <2> QED
    BY <2>1, <2>2
<1> HIDE DEF tried
<1>5. PICK t \in tried : d' = [t EXCEPT !.err = 0, !.space_warning = FALSE, !.admin_warning = FALSE]
  BY <1>2
<1>6. Sane(t) /\ t.conf = d.conf /\ ~NullWrite(t)
  BY <1>4
<1>7. Keeps(t, d')
  <2> DEFINE t1 == [t EXCEPT !.err = 0]
  <2> DEFINE t2 == [t1 EXCEPT !.space_warning = FALSE]
  <2> DEFINE t3 == [t2 EXCEPT !.admin_warning = FALSE]
  <2>0. 0 \in 0 .. 5 /\ FALSE \in BOOLEAN
    OBVIOUS
  <2>1. Keeps(t, t1)
    BY <1>6, <2>0, FlagsKept
  <2> HIDE DEF t1
  <2>2. Keeps(t1, t2)
    BY <2>1, KeepsSane, FlagsKept
  <2> HIDE DEF t2
  <2>3. Keeps(t2, t3)
    BY <2>2, KeepsSane, FlagsKept
  <2>4. d' = t3
    BY <1>5 DEF t1, t2
  <2> QED
    BY <2>1, <2>2, <2>3, <2>4, KeepsTransitive
<1>8. Sane(d') /\ d'.conf = d.conf /\ ~NullWrite(d')
  BY <1>6, <1>7 DEF Keeps, After
<1>9. event' = "resume" /\ todo' = {}
  BY <1>1 DEF Begin
<1> QED
  BY <1>1, <1>8, <1>9 DEF Inv, HandlerInv, ReadyToWrite, AnsweredOnce, Events, NullWrite

(* reconfigure, second part: the log is open again, or logging is suspended. *)
LEMMA ReopenInv ==
  ASSUME Inv, ReconfigureReopen
  PROVE  Inv'
<1> DEFINE closed == IF d.stream # "null" THEN [d EXCEPT !.stream = "null", !.fd = "closed"] ELSE d
<1>1. /\ "reopen" \in todo /\ todo' = todo \ {"reopen"}
      /\ UNCHANGED <<nconf, event, written, acks, crashed, resized>>
  BY Zenon DEF ReconfigureReopen
<1>2. d' \in UNION {IF o.ok THEN CheckLogFileSize([o.st EXCEPT !.suspended = FALSE])
                    ELSE {DoDiskErrorAction([o.st EXCEPT !.suspended = TRUE])}
                      : o \in OpenAuditLog(closed)}
  BY Zenon DEF ReconfigureReopen
<1>3. Sane(closed) /\ closed.conf = d.conf
  BY DEF Inv, Sane, Watched, Sized, State
<1> HIDE DEF closed
<1>4. PICK o \in OpenAuditLog(closed) :
        d' \in IF o.ok THEN CheckLogFileSize([o.st EXCEPT !.suspended = FALSE])
              ELSE {DoDiskErrorAction([o.st EXCEPT !.suspended = TRUE])}
  BY <1>2
<1>5. After(closed, o.st) /\ o.ok \in BOOLEAN /\ Sane(o.st)
  BY <1>3, <1>4, OpenAfter DEF After
<1>6. o.ok => o.st.stream # "null" \/ ~o.st.conf.write_logs
  <2>1. \/ ~closed.conf.write_logs /\ o.st = closed
        \/ o.st = Opened(closed)
        \/ o.ok = FALSE
    BY <1>4 DEF OpenAuditLog
  <2>2. Opened(closed).stream = "path"
    BY <1>3 DEF Sane, State, Opened
  <2> QED
    BY <2>1, <2>2
<1>7. CASE o.ok
  <2> DEFINE s == [o.st EXCEPT !.suspended = FALSE]
  <2>1. Sane(s) /\ s.conf = d.conf /\ ~NullWrite(s)
    BY <1>3, <1>5, <1>6, <1>7, LiftedSane DEF After
  <2>2. d' \in CheckLogFileSize(s)
    BY <1>4, <1>7
  <2> HIDE DEF s
  <2> QED
    BY <1>1, <2>1, <2>2, SizeCheckKept
    DEF Keeps, After, Inv, HandlerInv, ReadyToWrite, AnsweredOnce, NullWrite
<1>8. CASE ~o.ok
  <2>1. d' = DoDiskErrorAction([o.st EXCEPT !.suspended = TRUE])
    BY <1>4, <1>8
  <2>2. After(o.st, d') /\ ~NullWrite(d')
    BY <1>5, <2>1, OpenFailedAfter
  <2> QED
    BY <1>1, <1>3, <1>5, <2>2 DEF After, Inv, HandlerInv, ReadyToWrite, AnsweredOnce, NullWrite
<1> QED
  BY <1>5, <1>7, <1>8

(* reconfigure, third part: a suspension for another reason stays. *)
LEMMA SpaceInv ==
  ASSUME Inv, ReconfigureSpace
  PROVE  Inv'
<1> DEFINE s0 == [d EXCEPT !.conf = nconf, !.space_warning = FALSE, !.admin_warning = FALSE,
                           !.space_left = TRUE, !.suspended = FALSE]
<1>1. /\ "reopen" \notin todo /\ "space" \in todo /\ todo' = todo \ {"space"}
      /\ UNCHANGED <<nconf, event, written, acks, crashed, resized>>
  BY DEF ReconfigureSpace
<1>2. PICK t \in CheckSpaceLeft(s0) : d' = [t EXCEPT !.suspended = @ \/ d.suspended]
  BY DEF ReconfigureSpace
<1>3. Sane(s0) /\ s0.conf = nconf /\ (~d.suspended /\ ~NullWrite(d) => ~NullWrite(s0))
  <2>1. d \in State /\ nconf \in Config /\ d.conf.write_logs = nconf.write_logs
    BY DEF Inv, Sane, HandlerInv
  <2>2. s0 \in State
    BY <2>1 DEF State
  <2>3. s0.stream = d.stream /\ s0.fd = d.fd /\ s0.path = d.path /\ s0.pathBig = d.pathBig
    BY <2>1 DEF State
  <2>4. s0.conf = nconf
    BY <2>1 DEF State
  <2> HIDE DEF s0
  <2> QED
    BY <2>1, <2>2, <2>3, <2>4 DEF Inv, Sane, Watched, Sized, NullWrite
<1> HIDE DEF s0
<1>4. Keeps(s0, t) /\ Sane(t) /\ t.conf = nconf
  BY <1>2, <1>3, SpaceCheckKept, KeepsSane DEF Keeps, After
<1>5. d.suspended \in BOOLEAN /\ t.suspended \in BOOLEAN
  BY <1>4 DEF Inv, Sane, State
<1>6. PICK b \in BOOLEAN : b = (t.suspended \/ d.suspended) /\ d' = [t EXCEPT !.suspended = b]
  BY <1>2, <1>5
<1>7. /\ Sane(d') /\ d'.conf = nconf
      /\ b \/ t.stream # "null" \/ ~t.conf.write_logs \/ (~t.suspended /\ ~NullWrite(t)) => ~NullWrite(d')
  BY <1>4, <1>6, LiftedSane
<1>8. ~NullWrite(d) => ~NullWrite(d')
  <2>1. CASE d.suspended
    BY <1>6, <1>7, <2>1
  <2>2. CASE ~d.suspended
    BY <1>3, <1>4, <1>6, <1>7, <2>2 DEF Keeps
  <2> QED
    BY <2>1, <2>2
<1> QED
  BY <1>1, <1>7, <1>8 DEF Inv, HandlerInv, ReadyToWrite, AnsweredOnce, NullWrite

(* reconfigure, first part. *)
LEMMA ReconfigureInv ==
  ASSUME Inv, HandleReconfigure
  PROVE  Inv'
<1>1. PICK c \in Configs, maxChanged \in BOOLEAN, reopen \in BOOLEAN, space \in BOOLEAN :
        LET sizeChanged == maxChanged \/ c.size_action # d.conf.size_action
            needReopen == reopen \/ c.write_logs # d.conf.write_logs
            needSpace == \/ space
                         \/ c.space_action # d.conf.space_action
                         \/ c.admin_action # d.conf.admin_action
                         \/ c.full_action # d.conf.full_action
            conf == [c EXCEPT !.space_action = d.conf.space_action,
                              !.admin_action = d.conf.admin_action,
                              !.full_action = d.conf.full_action]
            s == [d EXCEPT !.conf = conf, !.err = 0]
            sizes == IF maxChanged THEN Resized(s) ELSE {s}
        IN  /\ nconf' = c
            /\ resized' = (resized \/ (sizeChanged /\ d.suspended))
            /\ Begin("reconfigure", {"record"} \cup (IF needReopen THEN {"reopen"} ELSE {})
                                              \cup (IF needSpace THEN {"space"} ELSE {}))
            /\ IF sizeChanged
               THEN d' \in UNION {CheckLogFileSize([t EXCEPT !.suspended = FALSE]) : t \in sizes}
               ELSE d' = s
  BY Zenon DEF HandleReconfigure
<1> DEFINE sizeChanged == maxChanged \/ c.size_action # d.conf.size_action
<1> DEFINE conf == [c EXCEPT !.space_action = d.conf.space_action,
                             !.admin_action = d.conf.admin_action,
                             !.full_action = d.conf.full_action]
<1> DEFINE s == [d EXCEPT !.conf = conf, !.err = 0]
<1> DEFINE sizes == IF maxChanged THEN Resized(s) ELSE {s}
<1>2. /\ nconf' = c /\ event' = "reconfigure" /\ todo = {} /\ UNCHANGED crashed
      /\ todo' \subseteq {"reopen", "space", "record"}
      /\ c.write_logs # d.conf.write_logs => "reopen" \in todo'
  BY <1>1 DEF Begin
<1>3. /\ resized' = (resized \/ (sizeChanged /\ d.suspended))
      /\ sizeChanged => d' \in UNION {CheckLogFileSize([t EXCEPT !.suspended = FALSE]) : t \in sizes}
      /\ ~sizeChanged => d' = s
  BY <1>1
<1>4. c \in Config /\ d \in State
  BY ConfigsAssumption DEF Inv, Sane
<1>5. conf \in Config /\ conf.write_logs = c.write_logs
  BY <1>4 DEF Config, State
<1> HIDE DEF conf
<1>6. Sane(s) /\ s.conf = conf /\ s.suspended = d.suspended /\ s.stream = d.stream
  <2>1. 0 \in 0 .. 5
    OBVIOUS
  <2>2. s \in State
    BY <1>4, <1>5, <2>1 DEF State
  <2>3. /\ s.stream = d.stream /\ s.fd = d.fd /\ s.path = d.path /\ s.pathBig = d.pathBig
        /\ s.conf = conf /\ s.suspended = d.suspended
    BY <1>4 DEF State
  <2> HIDE DEF s
  <2> QED
    BY <2>2, <2>3 DEF Inv, Sane, Watched, Sized
<1> HIDE DEF s
<1>7. ASSUME NEW t \in sizes
      PROVE  Sane(t) /\ t.conf = conf /\ t.suspended = d.suspended /\ t.stream = d.stream
  <2>1. CASE t = s
    BY <1>6, <2>1
  <2>2. CASE t \in Resized(s)
    <3> DEFINE P == IF s.path THEN BOOLEAN ELSE {FALSE}
    <3>1. \E b \in BOOLEAN : t \in {[s EXCEPT !.big = b, !.pathBig = p] : p \in P}
      BY <2>2, Zenon DEF Resized
    <3> HIDE DEF P
    <3>2. PICK b \in BOOLEAN : \E p \in P : t = [s EXCEPT !.big = b, !.pathBig = p]
      BY <3>1
    <3>3. PICK p \in P : t = [s EXCEPT !.big = b, !.pathBig = p]
      BY <3>2
    <3>4. s \in State /\ s.path \in BOOLEAN /\ p \in BOOLEAN /\ (p => s.path)
      BY <1>6, <3>3 DEF Sane, State, P
    <3>5. t \in State
      BY <3>3, <3>4 DEF State
    <3>6. /\ t.stream = s.stream /\ t.fd = s.fd /\ t.path = s.path /\ t.pathBig = p
          /\ t.conf = s.conf /\ t.suspended = s.suspended
      BY <3>3, <3>4 DEF State
    <3> QED
      BY <1>6, <3>4, <3>5, <3>6 DEF Sane, Watched, Sized
  <2> QED
    BY <1>7, <2>1, <2>2
<1> HIDE DEF sizes
<1>8. CASE sizeChanged
  <2>1. PICK t \in sizes : d' \in CheckLogFileSize([t EXCEPT !.suspended = FALSE])
    BY <1>3, <1>8
  <2>2. Sane(t) /\ t.conf = conf /\ t.suspended = d.suspended /\ t.stream = d.stream
    BY <1>7
  <2>3. /\ Sane([t EXCEPT !.suspended = FALSE]) /\ [t EXCEPT !.suspended = FALSE].conf = conf
        /\ [t EXCEPT !.suspended = FALSE].stream = d.stream
    BY <2>2, LiftedSane
  <2>4. Keeps([t EXCEPT !.suspended = FALSE], d') /\ Sane(d')
    BY <2>1, <2>3, SizeCheckKept, KeepsSane
  <2>5. d'.conf.write_logs = c.write_logs
    BY <1>5, <2>3, <2>4 DEF Keeps, After
  <2>6. ReadyToWrite'
    <3> SUFFICES ASSUME "reopen" \notin todo', ~resized' PROVE ~NullWrite(d')
      BY DEF ReadyToWrite, NullWrite
    <3>1. ~resized /\ ~d.suspended /\ c.write_logs = d.conf.write_logs
      BY <1>2, <1>3, <1>8
    <3>2. ~NullWrite(d)
      BY <1>2, <3>1 DEF Inv, ReadyToWrite
    <3>3. d.stream # "null" \/ ~conf.write_logs
      BY <1>5, <3>1, <3>2 DEF NullWrite
    <3>4. ~NullWrite([t EXCEPT !.suspended = FALSE])
      BY <2>3, <3>3 DEF NullWrite
    <3> QED
      BY <2>4, <3>4 DEF Keeps
  <2> QED
    BY <1>2, <1>4, <2>4, <2>5, <2>6 DEF Inv, HandlerInv, AnsweredOnce, Events
<1>9. CASE ~sizeChanged
  <2>1. d' = s /\ (resized' <=> resized)
    BY <1>3, <1>9
  <2>2. Sane(d') /\ d'.conf.write_logs = c.write_logs
    BY <1>5, <1>6, <2>1
  <2>3. ReadyToWrite'
    <3> SUFFICES ASSUME "reopen" \notin todo', ~resized' PROVE ~NullWrite(d')
      BY DEF ReadyToWrite, NullWrite
    <3>1. ~NullWrite(d) /\ c.write_logs = d.conf.write_logs
      BY <1>2, <2>1 DEF Inv, ReadyToWrite
    <3> QED
      BY <1>5, <1>6, <2>1, <3>1 DEF NullWrite
  <2> QED
    BY <1>2, <1>4, <2>2, <2>3 DEF Inv, HandlerInv, AnsweredOnce, Events
<1> QED
  BY <1>8, <1>9

(* The last part of handle_event *)
LEMMA RecordInv ==
  ASSUME Inv, Record
  PROVE  Inv'
<1>1. todo = {"record"} /\ todo' = {} /\ UNCHANGED <<nconf, event, resized>>
  BY DEF Record
<1>2. CASE NullWrite(d)
  <2>1. crashed' = TRUE /\ UNCHANGED <<d, written, acks>>
    BY <1>2 DEF Record
  <2> QED
    BY <1>1, <1>2, <2>1 DEF Inv, HandlerInv, ReadyToWrite, AnsweredOnce
<1>3. CASE ~NullWrite(d)
  <2>1. PICK r \in LogRecord(d) :
          d' = r.st /\ written' = r.to /\ acks' = IF event = "network" THEN r.acks ELSE <<>>
    BY <1>3 DEF Record
  <2>2. /\ Keeps(d, d') /\ r.acks \in Answers
        /\ r.to = "nowhere" \/ (~d.suspended /\ d.conf.write_logs /\ r.to = d.stream)
        /\ r.acks \in Promises => r.to = d.stream \/ ~d.conf.write_logs
    BY <2>1, RecordOutcome DEF Inv
  <2>3. Sane(d') /\ d'.conf = d.conf /\ ~NullWrite(d')
    BY <1>3, <2>2 DEF Keeps, After
  <2>4. AnsweredOnce'
    <3> SUFFICES ASSUME event = "network"
                 PROVE  /\ Len(acks') = 1
                        /\ acks'[1] \in {"ACK", "DISKLOW"} => written' # "nowhere" \/ ~d'.conf.write_logs
      BY <1>1 DEF AnsweredOnce
    <3>1. acks' \in Answers /\ acks' = r.acks
      BY <2>1, <2>2
    <3>2. Len(acks') = 1 /\ (acks'[1] \in {"ACK", "DISKLOW"} => acks' \in Promises)
      BY <3>1 DEF Answers, Promises
    <3>3. d.stream # "nowhere"
      BY DEF Inv, Sane, State
    <3> QED
      BY <2>1, <2>2, <2>3, <3>1, <3>2, <3>3
  <2> QED
    BY <1>1, <2>3, <2>4 DEF Inv, HandlerInv, ReadyToWrite, NullWrite
<1> QED
  BY <1>2, <1>3

(* The administrator moves the log of a suspended daemon. *)
LEMMA MoveLogInv ==
  ASSUME Inv, MoveLog
  PROVE  Inv'
<1>1. After(d, d') /\ d.suspended
  BY MovedAwayAfter DEF MoveLog, Inv
<1>2. Sane(d') /\ d'.conf = d.conf /\ ~NullWrite(d')
  BY <1>1 DEF After, NullWrite
<1> QED
  BY <1>2 DEF MoveLog, Inv, HandlerInv, ReadyToWrite, AnsweredOnce, NullWrite

(* The invariant is inductive. *)
LEMMA StepInv == Inv /\ [Next]_vars => Inv'
<1> SUFFICES ASSUME Inv, [Next]_vars PROVE Inv'
  OBVIOUS
<1>1. CASE UNCHANGED vars
  BY <1>1 DEF vars, Inv, HandlerInv, ReadyToWrite, AnsweredOnce
<1> QED
  BY <1>1, EventInv, RotateInv, ResumeInv, ReconfigureInv, ReopenInv, SpaceInv, RecordInv, MoveLogInv
  DEF Next

(* The invariant holds in every behaviour. *)
LEMMA InvHolds == Spec => []Inv
  BY InitInv, StepInv, PTL DEF Spec

(* What is remembered of a handler. *)
HistTypes ==
  /\ nconf \in Configs
  /\ written \in {"nowhere", "path", "elsewhere"} /\ acks \in Answers \cup {<<>>}
  /\ crashed \in {TRUE, FALSE} /\ resized \in {TRUE, FALSE}

(* Every handler leaves a history of that type. *)
LEMMA StepHistTypes == Inv /\ HistTypes /\ [Next]_vars => HistTypes'
<1> SUFFICES ASSUME Inv, HistTypes, [Next]_vars PROVE HistTypes'
  OBVIOUS
<1>1. CASE UNCHANGED <<nconf, written, acks, crashed, resized>>
  BY Zenon, <1>1 DEF HistTypes
<1>2. CASE written' = "nowhere" /\ acks' = <<>> /\ UNCHANGED <<nconf, crashed, resized>>
  BY <1>2 DEF HistTypes
<1>3. CASE HandleReconfigure
  <2>1. written' = "nowhere" /\ acks' = <<>> /\ crashed' = crashed /\ nconf' \in Configs
    BY Zenon, <1>3 DEF HandleReconfigure, Begin
  <2>2. resized' \in {TRUE, FALSE}
    BY <1>3 DEF HandleReconfigure
  <2> QED
    BY <2>1, <2>2 DEF HistTypes
<1>4. CASE Record
  <2>1. nconf' = nconf /\ resized' = resized
    BY <1>4 DEF Record
  <2>2. CASE crashed' = TRUE /\ UNCHANGED <<d, written, acks>>
    BY <2>1, <2>2 DEF HistTypes
  <2>3. ASSUME ~NullWrite(d), NEW r \in LogRecord(d), written' = r.to,
               acks' = IF event = "network" THEN r.acks ELSE <<>>, crashed' = crashed
        PROVE  HistTypes'
    <3>1. /\ r.acks \in Answers
          /\ r.to = "nowhere" \/ (~d.suspended /\ d.conf.write_logs /\ r.to = d.stream)
      BY RecordOutcome DEF Inv
    <3>2. d.stream \in {"null", "path", "elsewhere"}
      BY DEF Inv, Sane, State
    <3>3. d.stream # "null" \/ r.to = "nowhere"
      BY <2>3, <3>1 DEF NullWrite
    <3> QED
      BY <2>1, <2>3, <3>1, <3>2, <3>3 DEF HistTypes
  <2> QED
    BY <1>4, <2>2, <2>3 DEF Record
<1> QED
  BY Zenon, <1>1, <1>2, <1>3, <1>4
  DEF Next, vars, HandleEvent, HandleRotate, ResumeLogging, ReconfigureReopen, ReconfigureSpace, MoveLog, Begin

(* Every state is well-typed: warnings about disk errors stop at five, only a file that  *)
(* exists has a size, and a record goes to the file at the path or to one moved away.    *)
THEOREM TypeCorrect == Spec => []TypeOK
<1>1. Init => HistTypes
  BY DEF Init, HistTypes
<1>2. Inv /\ HistTypes => TypeOK
  BY DEF Inv, HistTypes, HandlerInv, Sane, Sized, TypeOK, Answers
<1> QED
  BY <1>1, <1>2, InvHolds, StepHistTypes, PTL DEF Spec

(* As long as no reconfigure touches the size settings of a suspended daemon, logging is *)
(* on only with an open log: handle_event never writes through a null log_file, however   *)
(* rotations, disk-full and disk-error actions nest.                                     *)
THEOREM ReadyToWriteHolds == Spec => []ReadyToWrite
<1>1. Inv => ReadyToWrite
  BY DEF Inv
<1> QED
  BY <1>1, InvHolds, PTL

(* While a log is open log_fd is its descriptor. *)
THEOREM OpenLogIsWatchedHolds == Spec => []OpenLogIsWatched
<1>1. Inv => OpenLogIsWatched
  BY DEF Inv, Sane, Watched, OpenLogIsWatched
<1> QED
  BY <1>1, InvHolds, PTL

(* A remote sender gets exactly one answer for its event, and a positive one only if the *)
(* record was written or the administrator wants no logs.                                *)
THEOREM AnsweredOnceHolds == Spec => []AnsweredOnce
<1>1. Inv => AnsweredOnce
  BY DEF Inv
<1> QED
  BY <1>1, InvHolds, PTL

(* Only SIGUSR2 and a reconfigure lift a suspension. *)
THEOREM SuspensionStays == Spec => SuspensionHolds
<1>1. Inv /\ [Next]_vars => [d.suspended /\ ~d'.suspended => event' \in {"resume", "reconfigure"}]_vars
  <2> SUFFICES ASSUME Inv, Next, d.suspended, ~d'.suspended PROVE event' \in {"resume", "reconfigure"}
    OBVIOUS
  <2>1. CASE HandleEvent
    BY <2>1 DEF HandleEvent
  <2>2. CASE HandleRotate
    <3>1. d' \in RotateLogsNow(d)
      BY <2>2 DEF HandleRotate
    <3> QED
      BY <3>1, RotationKept DEF Inv, Keeps, After
  <2>3. CASE ResumeLogging
    BY <2>3, Zenon DEF ResumeLogging, Begin
  <2>4. CASE HandleReconfigure
    BY <2>4, Zenon DEF HandleReconfigure, Begin
  <2>5. CASE ReconfigureReopen
    <3>1. "reopen" \in todo /\ event' = event
      BY <2>5, Zenon DEF ReconfigureReopen
    <3> QED
      BY <3>1 DEF Inv, HandlerInv
  <2>6. CASE ReconfigureSpace
    <3>1. "space" \in todo /\ event' = event
      BY <2>6, Zenon DEF ReconfigureSpace
    <3> QED
      BY <3>1 DEF Inv, HandlerInv
  <2>7. CASE Record
    <3>1. d' = d \/ \E r \in LogRecord(d) : d' = r.st
      BY <2>7 DEF Record
    <3> QED
      BY <3>1, RecordOutcome DEF Inv, Keeps, After
  <2>8. CASE MoveLog
    BY <2>8, MovedAwayAfter DEF MoveLog, Inv, After
  <2> QED
    BY <2>1, <2>2, <2>3, <2>4, <2>5, <2>6, <2>7, <2>8 DEF Next
<1> QED
  BY <1>1, InvHolds, PTL DEF Spec, SuspensionHolds

=============================================================================
