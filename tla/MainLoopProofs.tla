--------------------------- MODULE MainLoopProofs ---------------------------
(***************************************************************************)
(* Proofs about the event loop.  That every waiting signal has a reply on  *)
(* its way holds for any stream of signals; that pipe_handler finds a      *)
(* finished event is proved for SIGHUPs that do not overlap, and the run   *)
(* MainLoopHups shows that it fails without that.                          *)
(*                                                                         *)
(* The invariant follows a SIGHUP through its stages: its flag, the        *)
(* thread, the message in the pipe.  Each SIGHUP is in at most one of      *)
(* them, and the events are used in the order in which they are made.      *)
(***************************************************************************)
EXTENDS MainLoop, FiniteSetTheorems, TLAPS

Signals == {"hup", "usr1", "usr2"}
Steps == {"none", "load", "ready", "unlock"}

Waiting == IF "hup" \in requested THEN 1 ELSE 0
Working == IF thread.step \in {"load", "ready"} THEN 1 ELSE 0

\* The bounded counters, the flags and the replies
CountInv ==
  /\ file \in 1 .. MaxEdits + 1
  /\ hups \in 0 .. MaxHups /\ users \in 0 .. MaxUsers /\ failures \in 0 .. MaxFailures
  /\ requested \subseteq Signals /\ infos \in 0 .. (hups + users)
  /\ RepliesSuffice

\* The log and the flush thread
LogInv ==
  /\ main \in {"idle", "reopen"} /\ log_fd \in Fds \cup {0} /\ open \in Fds \cup {0}
  /\ flusher \in {"wait", "test", "sync", "syncing"} /\ flush \in BOOLEAN
  /\ records \in 0 .. MaxRecords
  /\ owed \subseteq 1 .. MaxRecords /\ covers \subseteq 1 .. MaxRecords

\* The first n events are the ones that were made
UsedTo(n) == n + Waiting <= hups /\ \A x \in HupEvents : event[x] # "none" <=> x <= n

\* The events, the thread and the pipe
ConfInv ==
  /\ event \in [HupEvents -> {"none", "info", "config", "freed"}]
  /\ version \in [HupEvents -> 0 .. MaxEdits + 1]
  /\ conf \in 1 .. file /\ wanted \in 1 .. file
  /\ reconfig_ev \in 0 .. MaxHups /\ thread \in [ev : 0 .. MaxHups, step : Steps]
  /\ misuse \in {"no", "null", "freed", "unfinished"}
  /\ pipe \in Nat /\ pipe + Working + Waiting <= hups
  /\ \E n \in 0 .. MaxHups : UsedTo(n)
  /\ reconfig_ev # 0 => event[reconfig_ev] # "none"
  /\ \A x \in HupEvents : event[x] = "config" => version[x] \in 1 .. file
  /\ thread.step # "none" => thread.ev # 0 /\ event[thread.ev] # "none"

\* One SIGHUP at a time: where it is decides what reconfig_ev points to
HandOver ==
  /\ misuse = "no" /\ (thread.step # "none" => config_lock = TRUE)
  /\ pipe > 0 =>
       /\ pipe = 1 /\ reconfig_ev # 0 /\ event[reconfig_ev] = "config"
       /\ thread.step \in {"none", "unlock"} /\ "hup" \notin requested
  /\ thread.step \in {"load", "ready"} =>
       /\ pipe = 0 /\ "hup" \notin requested /\ thread.ev = reconfig_ev
       /\ event[thread.ev] = IF thread.step = "load" THEN "info" ELSE "config"

-----------------------------------------------------------------------------
(* The bounds are natural numbers, and so are the descriptors. *)
LEMMA Bounds ==
  /\ MaxHups \in Nat /\ MaxEdits \in Nat /\ MaxUsers \in Nat
  /\ MaxRecords \in Nat /\ MaxFailures \in Nat /\ Fds \subseteq Nat \ {0} /\ Freq \in Nat \ {0}
BY Zenon, LoopAssumption DEF LoopAssumption

(* A set of signals is finite, and adding or taking one changes its size by at most one. *)
LEMMA SignalSets ==
  ASSUME NEW S \in SUBSET Signals, NEW s \in Signals
  PROVE  /\ Cardinality(S) \in Nat /\ Cardinality({}) = 0
         /\ Cardinality(S \cup {s}) <= Cardinality(S) + 1
         /\ s \in S => Cardinality(S \ {s}) = Cardinality(S) - 1
         /\ S # {} => Cardinality(S) > 0
<1>1. IsFiniteSet({}) /\ IsFiniteSet({"hup"})
  BY FS_EmptySet, FS_Singleton
<1>2. IsFiniteSet({"hup"} \cup {"usr1"})
  BY <1>1, FS_AddElement
<1>3. IsFiniteSet(({"hup"} \cup {"usr1"}) \cup {"usr2"})
  BY <1>2, FS_AddElement
<1>4. Signals = ({"hup"} \cup {"usr1"}) \cup {"usr2"}
  BY DEF Signals
<1>5. IsFiniteSet(S)
  BY <1>3, <1>4, FS_Subset
<1>6. Cardinality(S) \in Nat /\ (S # {} => Cardinality(S) # 0) /\ Cardinality({}) = 0
  BY <1>5, FS_CardinalityType, FS_EmptySet
<1>7. Cardinality(S \cup {s}) = IF s \in S THEN Cardinality(S) ELSE Cardinality(S) + 1
  BY <1>5, FS_AddElement
<1>8. Cardinality(S \ {s}) = IF s \in S THEN Cardinality(S) - 1 ELSE Cardinality(S)
  BY <1>5, FS_RemoveElement
<1> QED
  BY <1>6, <1>7, <1>8

(* The event a reply makes is the one after those that were made before. *)
LEMMA NextEvent ==
  ASSUME NEW n \in 0 .. MaxHups, \A x \in HupEvents : event[x] # "none" <=> x <= n
  PROVE  Cardinality({x \in HupEvents : event[x] # "none"}) + 1 = n + 1
<1> USE Bounds
<1>1. {x \in HupEvents : event[x] # "none"} = 1 .. n
  BY DEF HupEvents
<1>2. Cardinality(1 .. n) = n
  BY FS_Interval
<1> QED
  BY <1>1, <1>2

(* Asking for a reply: the flag comes with the reply, or neither. *)
LEMMA RequestKeeps ==
  ASSUME CountInv, NEW s \in Signals, RequestInfo(s)
  PROVE  /\ requested' \subseteq Signals /\ infos' \in 0 .. (hups + users + 1)
         /\ failures' \in 0 .. MaxFailures /\ Cardinality(requested') <= infos'
<1> USE Bounds
<1>1. requested \in SUBSET Signals /\ Cardinality(requested) <= infos
  BY DEF CountInv, RepliesSuffice
<1>2. Cardinality(requested) \in Nat /\ Cardinality(requested \cup {s}) <= Cardinality(requested) + 1
  BY <1>1, SignalSets
<1>3. infos \in Nat /\ hups \in Nat /\ users \in Nat /\ infos <= hups + users
  BY DEF CountInv
<1>4. CASE requested' = requested \cup {s} /\ infos' = infos + 1 /\ UNCHANGED failures
  <2>1. requested \cup {s} \in SUBSET Signals
    BY <1>1
  <2>2. Cardinality(requested \cup {s}) \in Nat
    BY <2>1, SignalSets
  <2>3. Cardinality(requested') <= infos'
    BY <1>1, <1>2, <1>3, <1>4, <2>2
  <2> QED
    BY <1>3, <1>4, <2>1, <2>3 DEF CountInv
<1>5. CASE failures < MaxFailures /\ failures' = failures + 1 /\ UNCHANGED <<requested, infos>>
  BY <1>1, <1>3, <1>5 DEF CountInv
<1> QED
  BY <1>4, <1>5 DEF RequestInfo

(* Taking a reply for a signal clears its flag. *)
LEMMA ReplyKeeps ==
  ASSUME CountInv, NEW s \in Signals, s \in requested, infos > 0,
         infos' = infos - 1, requested' = requested \ {s}
  PROVE  requested' \subseteq Signals /\ infos' \in 0 .. (hups + users) /\ RepliesSuffice'
<1>1. requested \in SUBSET Signals /\ Cardinality(requested) <= infos
  BY DEF CountInv, RepliesSuffice
<1>2. Cardinality(requested) \in Nat /\ Cardinality(requested \ {s}) = Cardinality(requested) - 1
  BY <1>1, SignalSets
<1>3. infos \in Nat /\ hups \in Nat /\ users \in Nat /\ infos <= hups + users
  BY Bounds DEF CountInv
<1>4. Cardinality(requested') <= infos'
  BY <1>1, <1>2, <1>3
<1> QED
  BY <1>1, <1>3, <1>4 DEF RepliesSuffice

(* Every action keeps the counters and the replies *)
LEMMA CountStep == CountInv /\ [Next]_vars => CountInv'
<1> SUFFICES ASSUME CountInv, [Next]_vars PROVE CountInv'
  OBVIOUS
<1>1. CASE hup_handler
  <2>1. RequestInfo("hup") /\ "hup" \in Signals
    BY <1>1 DEF hup_handler, Signals
  <2>2. /\ requested' \subseteq Signals /\ infos' \in 0 .. (hups + users + 1)
        /\ failures' \in 0 .. MaxFailures /\ Cardinality(requested') <= infos'
    BY <2>1, RequestKeeps
  <2>3. hups' = hups + 1 /\ hups' \in 0 .. MaxHups /\ UNCHANGED <<file, users>>
    BY <1>1, Bounds DEF hup_handler, CountInv
  <2> QED
    BY <2>2, <2>3, Bounds DEF CountInv, RepliesSuffice
<1>2. CASE user1_handler
  <2>1. RequestInfo("usr1") /\ "usr1" \in Signals
    BY <1>2 DEF user1_handler, Signals
  <2>2. /\ requested' \subseteq Signals /\ infos' \in 0 .. (hups + users + 1)
        /\ failures' \in 0 .. MaxFailures /\ Cardinality(requested') <= infos'
    BY <2>1, RequestKeeps
  <2>3. users' = users + 1 /\ users' \in 0 .. MaxUsers /\ UNCHANGED <<file, hups>>
    BY <1>2, Bounds DEF user1_handler, CountInv
  <2> QED
    BY <2>2, <2>3, Bounds DEF CountInv, RepliesSuffice
<1>3. CASE user2_handler
  <2>1. RequestInfo("usr2") /\ "usr2" \in Signals
    BY <1>3 DEF user2_handler, Signals
  <2>2. /\ requested' \subseteq Signals /\ infos' \in 0 .. (hups + users + 1)
        /\ failures' \in 0 .. MaxFailures /\ Cardinality(requested') <= infos'
    BY <2>1, RequestKeeps
  <2>3. users' = users + 1 /\ users' \in 0 .. MaxUsers /\ UNCHANGED <<file, hups>>
    BY <1>3, Bounds DEF user2_handler, CountInv
  <2> QED
    BY <2>2, <2>3, Bounds DEF CountInv, RepliesSuffice
<1>4. CASE InfoForHup
  <2>1. /\ infos > 0 /\ infos' = infos - 1 /\ "hup" \in requested
        /\ requested' = requested \ {"hup"} /\ UNCHANGED <<file, hups, users>>
    BY <1>4 DEF InfoForHup, start_config_manager, bounds
  <2>2. failures' \in 0 .. MaxFailures
    BY <1>4, Bounds DEF InfoForHup, start_config_manager, CountInv, bounds
  <2>3. requested' \subseteq Signals /\ infos' \in 0 .. (hups + users) /\ RepliesSuffice'
    BY <2>1, ReplyKeeps DEF Signals
  <2> QED
    BY <2>1, <2>2, <2>3 DEF CountInv
<1>5. CASE InfoForUser1
  <2>1. /\ infos > 0 /\ infos' = infos - 1 /\ "usr1" \in requested
        /\ requested' = requested \ {"usr1"} /\ UNCHANGED <<file, hups, users>>
    BY <1>5 DEF InfoForUser1, bounds
  <2>2. failures' \in 0 .. MaxFailures
    BY <1>5, Bounds DEF InfoForUser1, CountInv, bounds
  <2>3. requested' \subseteq Signals /\ infos' \in 0 .. (hups + users) /\ RepliesSuffice'
    BY <2>1, ReplyKeeps DEF Signals
  <2> QED
    BY <2>1, <2>2, <2>3 DEF CountInv
<1>6. CASE InfoForUser2
  <2>1. /\ infos > 0 /\ infos' = infos - 1 /\ "usr2" \in requested
        /\ requested' = requested \ {"usr2"} /\ UNCHANGED <<file, hups, users>>
    BY <1>6 DEF InfoForUser2, bounds
  <2>2. failures' \in 0 .. MaxFailures
    BY <1>6, Bounds DEF InfoForUser2, CountInv, bounds
  <2>3. requested' \subseteq Signals /\ infos' \in 0 .. (hups + users) /\ RepliesSuffice'
    BY <2>1, ReplyKeeps DEF Signals
  <2> QED
    BY <2>1, <2>2, <2>3 DEF CountInv
<1>7. CASE InfoIgnored
  <2>1. Cardinality({}) = 0
    BY FS_EmptySet
  <2> QED
    BY <1>7, <2>1, Bounds DEF InfoIgnored, CountInv, RepliesSuffice, bounds
<1>8. CASE OpenLog
  BY <1>8, Bounds DEF OpenLog, CountInv, RepliesSuffice, confVars, logVars, bounds
<1>9. CASE Edit
  BY <1>9, Bounds DEF Edit, CountInv, RepliesSuffice, confVars, logVars, bounds
<1>10. CASE UNCHANGED <<file, requested, infos, hups, users, failures>>
  BY <1>10 DEF CountInv, RepliesSuffice
<1> QED
  BY <1>1, <1>2, <1>3, <1>4, <1>5, <1>6, <1>7, <1>8, <1>9, <1>10 DEF Next, vars,
    ThreadLoads, ThreadFails, ThreadReady, ThreadUnlocks, pipe_handler, HandleEvent,
    TakeFlush, TestLogFd, Sync, Synced, confVars, logVars, bounds

(* Every action keeps the types of the log and the flush thread *)
LEMMA LogStep == LogInv /\ [Next]_vars => LogInv'
<1> SUFFICES ASSUME LogInv, [Next]_vars PROVE LogInv'
  OBVIOUS
<1>1. CASE user2_handler
  BY <1>1, Bounds DEF user2_handler, LogInv, bounds
<1>2. CASE InfoForUser1
  BY <1>2, Bounds DEF InfoForUser1, rotate_logs_now, LogInv, bounds
<1>3. CASE InfoForUser2
  BY <1>3, Bounds DEF InfoForUser2, LogInv, bounds
<1>4. CASE pipe_handler
  BY <1>4, Bounds DEF pipe_handler, LogInv, bounds
<1>5. CASE OpenLog
  BY <1>5, Bounds DEF OpenLog, LogInv, bounds
<1>6. CASE HandleEvent
  <2>1. records' = records + 1 /\ records' \in 1 .. MaxRecords
    BY <1>6, Bounds DEF HandleEvent, LogInv
  <2>2. flush' \in BOOLEAN
    BY Zenon, <1>6 DEF HandleEvent
  <2>3. owed' = owed \/ owed' = owed \cup {records'}
    BY Zenon, <1>6 DEF HandleEvent
  <2>4. UNCHANGED <<main, log_fd, open, flusher, covers>>
    BY Zenon, <1>6 DEF HandleEvent
  <2>5. owed \subseteq 1 .. MaxRecords
    BY Zenon DEF LogInv
  <2>6. owed' \subseteq 1 .. MaxRecords
    BY Zenon, <2>1, <2>3, <2>5
  <2>7. records' \in 0 .. MaxRecords
    BY <2>1, Bounds
  <2> QED
    BY Zenon, <2>2, <2>4, <2>6, <2>7 DEF LogInv
<1>7. CASE TakeFlush
  BY <1>7, Bounds DEF TakeFlush, LogInv, bounds
<1>8. CASE TestLogFd
  BY <1>8, Bounds DEF TestLogFd, LogInv, bounds
<1>9. CASE Sync
  BY <1>9, Bounds DEF Sync, LogInv, bounds
<1>10. CASE Synced
  BY <1>10, Bounds DEF Synced, LogInv, bounds
<1>11. CASE UNCHANGED <<main, log_fd, open, flush, flusher, owed, covers, records>>
  BY <1>11 DEF LogInv
<1>12. CASE user1_handler
  BY <1>12, Bounds DEF user1_handler, rotate_logs_now, LogInv, bounds
<1> QED
  BY <1>1, <1>2, <1>3, <1>4, <1>5, <1>6, <1>7, <1>8, <1>9, <1>10, <1>11, <1>12 DEF Next, vars,
    hup_handler, InfoForHup, start_config_manager, InfoIgnored, ThreadLoads, ThreadFails,
    ThreadReady, ThreadUnlocks, Edit, confVars, logVars, bounds

(* A handler that asks for a reply: the flag of SIGHUP is paid for by the SIGHUP itself. *)
LEMMA RequestStep ==
  ASSUME CountInv, ConfInv, NEW k \in 0 .. 1, hups' = hups + k,
         Waiting' <= Waiting + k, wanted' \in {wanted, file},
         UNCHANGED <<file, event, version, conf, reconfig_ev, thread, misuse, pipe>>
  PROVE  ConfInv'
<1> USE Bounds
<1>1. Waiting \in 0 .. 1 /\ Waiting' \in 0 .. 1 /\ Working \in 0 .. 1 /\ Working' = Working
  BY DEF Waiting, Working
<1>2. hups \in Nat /\ file \in Nat \ {0}
  BY DEF CountInv
<1>3. \E n \in 0 .. MaxHups : UsedTo(n)'
  <2>1. PICK n \in 0 .. MaxHups : UsedTo(n)
    BY DEF ConfInv
  <2>2. n + Waiting' <= hups'
    BY <1>2, <2>1 DEF UsedTo, Waiting
  <2>3. UsedTo(n)'
    BY <2>1, <2>2 DEF UsedTo
  <2> QED
    BY <2>3
<1>4. pipe' + Working' + Waiting' <= hups'
  <2>1. pipe \in Nat /\ pipe + Working + Waiting <= hups
    BY DEF ConfInv
  <2> QED
    BY <1>2, <2>1 DEF Waiting, Working
<1>5. wanted' \in 1 .. file'
  BY <1>2 DEF ConfInv
<1> QED
  BY <1>3, <1>4, <1>5 DEF ConfInv

(* Arithmetic of the stages a SIGHUP passes. *)
LEMMA SumBound ==
  \A p \in Nat, q \in Nat, w \in 0 .. 1, u \in 0 .. 1, v \in 0 .. 1, h \in Nat :
    p + w + v <= h /\ q + u <= p + w => q + u + v <= h
OBVIOUS

(* A step that moves no SIGHUP back keeps the count of the SIGHUPs under way. *)
LEMMA MadeEventsStay ==
  ASSUME ConfInv, Waiting' <= Waiting, hups' = hups, hups \in Nat,
         \A x \in HupEvents : event'[x] # "none" <=> event[x] # "none"
  PROVE  \E n \in 0 .. MaxHups : UsedTo(n)'
<1>1. PICK n \in 0 .. MaxHups : UsedTo(n)
  BY DEF ConfInv
<1>2. Waiting \in 0 .. 1 /\ Waiting' \in 0 .. 1
  BY DEF Waiting
<1>3. n + Waiting' <= hups'
  BY <1>1, Bounds DEF UsedTo, Waiting
<1>4. UsedTo(n)'
  BY <1>1, <1>3 DEF UsedTo
<1> QED
  BY <1>4

(* Every action keeps the events, the thread and the pipe *)
LEMMA ConfStep == CountInv /\ ConfInv /\ [Next]_vars => ConfInv'
<1> SUFFICES ASSUME CountInv /\ ConfInv, [Next]_vars PROVE ConfInv'
  OBVIOUS
<1>1. CASE hup_handler
  <2>1. hups' = hups + 1
    BY <1>1 DEF hup_handler, CountInv
  <2>2. Waiting' <= Waiting + 1
    BY <1>1 DEF hup_handler, RequestInfo, Waiting
  <2>3. wanted' \in {wanted, file} /\ UNCHANGED <<file, event, version, conf, reconfig_ev, thread, misuse, pipe>>
    BY <1>1 DEF hup_handler
  <2> QED
    BY <2>1, <2>2, <2>3, RequestStep
<1>2. CASE user1_handler
  <2>1. hups' = hups + 0
    BY <1>2, Bounds DEF user1_handler, CountInv
  <2>2. Waiting' <= Waiting + 0
    BY <1>2 DEF user1_handler, RequestInfo, Waiting
  <2>3. wanted' \in {wanted, file} /\ UNCHANGED <<file, event, version, conf, reconfig_ev, thread, misuse, pipe>>
    BY <1>2 DEF user1_handler
  <2> QED
    BY <2>1, <2>2, <2>3, RequestStep
<1>3. CASE user2_handler
  <2>1. hups' = hups + 0
    BY <1>3, Bounds DEF user2_handler, CountInv
  <2>2. Waiting' <= Waiting + 0
    BY <1>3 DEF user2_handler, RequestInfo, Waiting
  <2>3. wanted' \in {wanted, file} /\ UNCHANGED <<file, event, version, conf, reconfig_ev, thread, misuse, pipe>>
    BY <1>3 DEF user2_handler
  <2> QED
    BY <2>1, <2>2, <2>3, RequestStep
<1>4. CASE InfoForHup
  <2> USE Bounds
  <2>1. PICK n \in 0 .. MaxHups : UsedTo(n)
    BY DEF ConfInv
  <2>2. Cardinality({x \in HupEvents : event[x] # "none"}) + 1 = n + 1
    BY <2>1, NextEvent DEF UsedTo
  <2>3. hups \in 0 .. MaxHups /\ file \in Nat /\ hups' = hups
    BY <1>4 DEF CountInv, InfoForHup, start_config_manager
  <2>4. Waiting = 1 /\ Waiting' = 0
    BY <1>4 DEF InfoForHup, start_config_manager, Waiting
  <2>5. n + 1 \in HupEvents /\ n + 1 <= hups /\ n + 1 \in 0 .. MaxHups
    BY <2>1, <2>3, <2>4 DEF UsedTo, HupEvents
  <2>6. /\ reconfig_ev' = n + 1
        /\ \/ /\ config_lock = FALSE /\ thread' = [ev |-> n + 1, step |-> "load"]
              /\ event' = [event EXCEPT ![n + 1] = "info"] /\ wanted' = wanted
           \/ /\ event' = [event EXCEPT ![n + 1] = "freed"]
              /\ wanted' = conf /\ thread' = thread
        /\ UNCHANGED <<file, conf, version, pipe, misuse>>
    BY <1>4, <2>2 DEF InfoForHup, start_config_manager
  <2>7. /\ event' \in [HupEvents -> {"none", "info", "config", "freed"}]
        /\ event'[n + 1] \in {"info", "freed"}
        /\ \A x \in HupEvents : x # n + 1 => event'[x] = event[x]
    BY <2>5, <2>6 DEF ConfInv
  <2>8. UsedTo(n + 1)'
    BY <2>1, <2>3, <2>4, <2>5, <2>7 DEF UsedTo, HupEvents
  <2>9. Working \in 0 .. 1 /\ Working' \in 0 .. 1
    BY DEF Working
  <2>10. pipe' + Working' + Waiting' <= hups'
    <3>1. pipe \in Nat /\ pipe + Working + Waiting <= hups
      BY DEF ConfInv
    <3>2. pipe' = pipe
      BY <2>6
    <3>3. CASE thread' = thread
      BY <2>3, <2>4, <2>9, <3>1, <3>2, <3>3 DEF Working
    <3>4. CASE thread' # thread
      BY <2>3, <2>4, <2>9, <3>1, <3>2 DEF Waiting, Working
    <3> QED
      BY <3>3, <3>4
  <2>11. /\ thread' \in [ev : 0 .. MaxHups, step : Steps]
         /\ thread'.step # "none" => thread'.ev # 0 /\ event'[thread'.ev] # "none"
    BY <2>5, <2>6, <2>7 DEF ConfInv, Steps, HupEvents
  <2>12. conf' \in 1 .. file' /\ wanted' \in 1 .. file'
    BY <2>6 DEF ConfInv
  <2>13. \A x \in HupEvents : event'[x] = "config" => version'[x] \in 1 .. file'
    BY <2>6, <2>7 DEF ConfInv
  <2>14. reconfig_ev' \in 0 .. MaxHups /\ event'[reconfig_ev'] # "none"
    BY <2>5, <2>6, <2>7
  <2>15. pipe' \in Nat /\ misuse' \in {"no", "null", "freed", "unfinished"}
         /\ version' \in [HupEvents -> 0 .. MaxEdits + 1]
    BY <2>6 DEF ConfInv
  <2> QED
    BY <2>5, <2>7, <2>8, <2>10, <2>11, <2>12, <2>13, <2>14, <2>15 DEF ConfInv
<1>5. CASE InfoForUser1
  <2>1. hups' = hups + 0
    BY <1>5, Bounds DEF InfoForUser1, CountInv, bounds
  <2>2. Waiting' <= Waiting + 0
    BY <1>5 DEF InfoForUser1, Waiting
  <2>3. wanted' \in {wanted, file} /\ UNCHANGED <<file, event, version, conf, reconfig_ev, thread, misuse, pipe>>
    BY <1>5 DEF InfoForUser1
  <2> QED
    BY <2>1, <2>2, <2>3, RequestStep
<1>6. CASE InfoForUser2
  <2>1. hups' = hups + 0
    BY <1>6, Bounds DEF InfoForUser2, CountInv, bounds
  <2>2. Waiting' <= Waiting + 0
    BY <1>6 DEF InfoForUser2, Waiting
  <2>3. wanted' \in {wanted, file} /\ UNCHANGED <<file, event, version, conf, reconfig_ev, thread, misuse, pipe>>
    BY <1>6 DEF InfoForUser2
  <2> QED
    BY <2>1, <2>2, <2>3, RequestStep
<1>7. CASE InfoIgnored
  <2>1. hups' = hups + 0
    BY <1>7, Bounds DEF InfoIgnored, CountInv, bounds
  <2>2. Waiting' <= Waiting + 0
    BY <1>7 DEF InfoIgnored, Waiting
  <2>3. wanted' \in {wanted, file} /\ UNCHANGED <<file, event, version, conf, reconfig_ev, thread, misuse, pipe>>
    BY <1>7 DEF InfoIgnored
  <2> QED
    BY <2>1, <2>2, <2>3, RequestStep
<1>8. CASE ThreadLoads
  <2> USE Bounds
  <2>1. thread.step \in Steps /\ thread.ev \in HupEvents /\ event[thread.ev] # "none" /\ thread.step = "load"
    BY <1>8 DEF ThreadLoads, Steps, ConfInv, HupEvents
  <2>2. /\ event' = [event EXCEPT ![thread.ev] = IF @ = "info" THEN "config" ELSE @]
        /\ version' = [version EXCEPT ![thread.ev] = file]
        /\ thread' = [thread EXCEPT !.step = "ready"]
        /\ UNCHANGED <<file, conf, wanted, reconfig_ev, pipe, misuse>>
    BY <1>8 DEF ThreadLoads, bounds
  <2>3. hups \in Nat /\ hups' = hups /\ Waiting' = Waiting /\ Waiting \in 0 .. 1 /\ file \in 1 .. MaxEdits + 1
    BY <1>8, <2>2 DEF CountInv, Waiting, ThreadLoads, Steps, bounds
  <2>4. /\ event' \in [HupEvents -> {"none", "info", "config", "freed"}]
        /\ version' \in [HupEvents -> 0 .. MaxEdits + 1]
        /\ \A x \in HupEvents : event'[x] # "none" <=> event[x] # "none"
        /\ \A x \in HupEvents : event'[x] = "config" => version'[x] \in 1 .. file'
    BY <2>1, <2>2, <2>3 DEF ConfInv
  <2>5. \E m \in 0 .. MaxHups : UsedTo(m)'
    BY <2>3, <2>4, MadeEventsStay
  <2>6. thread' \in [ev : 0 .. MaxHups, step : Steps]
    BY <2>1, <2>2 DEF ConfInv, Steps, NoThread
  <2>7. pipe' \in Nat /\ pipe' + Working' <= pipe + Working
    BY <2>1, <2>2, <2>6 DEF ConfInv, Working, Steps, NoThread
  <2>8. pipe' + Working' + Waiting' <= hups'
    <3>1. Working \in 0 .. 1 /\ Working' \in 0 .. 1 /\ pipe \in Nat /\ pipe + Working + Waiting <= hups
      BY DEF Working, ConfInv
    <3>2. pipe' + Working' + Waiting <= hups
      BY Zenon, <2>3, <2>7, <3>1, SumBound
    <3> QED
      BY <2>3, <3>2
  <2>9. /\ reconfig_ev' \in 0 .. MaxHups /\ (reconfig_ev' # 0 => event'[reconfig_ev'] # "none")
        /\ thread'.step # "none" => thread'.ev # 0 /\ event'[thread'.ev] # "none"
    BY <2>1, <2>2, <2>4 DEF ConfInv, HupEvents, NoThread
  <2>10. conf' \in 1 .. file' /\ wanted' \in 1 .. file' /\ misuse' \in {"no", "null", "freed", "unfinished"}
    BY <2>1, <2>2, <2>3 DEF ConfInv
  <2> QED
    BY <2>4, <2>5, <2>6, <2>7, <2>8, <2>9, <2>10 DEF ConfInv
<1>9. CASE ThreadFails
  <2> USE Bounds
  <2>1. thread.step \in Steps /\ thread.ev \in HupEvents /\ event[thread.ev] # "none" /\ thread.step = "load"
    BY <1>9 DEF ThreadFails, Steps, ConfInv, HupEvents
  <2>2. /\ event' = [event EXCEPT ![thread.ev] = "freed"] /\ wanted' = conf
        /\ thread' = [thread EXCEPT !.step = "unlock"]
        /\ UNCHANGED <<file, version, conf, reconfig_ev, pipe, misuse>>
    BY <1>9 DEF ThreadFails, bounds
  <2>3. hups \in Nat /\ hups' = hups /\ Waiting' = Waiting /\ Waiting \in 0 .. 1 /\ file \in 1 .. MaxEdits + 1
    BY <1>9, <2>2 DEF CountInv, Waiting, ThreadFails, Steps, bounds
  <2>4. /\ event' \in [HupEvents -> {"none", "info", "config", "freed"}]
        /\ version' \in [HupEvents -> 0 .. MaxEdits + 1]
        /\ \A x \in HupEvents : event'[x] # "none" <=> event[x] # "none"
        /\ \A x \in HupEvents : event'[x] = "config" => version'[x] \in 1 .. file'
    BY <2>1, <2>2, <2>3 DEF ConfInv
  <2>5. \E m \in 0 .. MaxHups : UsedTo(m)'
    BY <2>3, <2>4, MadeEventsStay
  <2>6. thread' \in [ev : 0 .. MaxHups, step : Steps]
    BY <2>1, <2>2 DEF ConfInv, Steps, NoThread
  <2>7. pipe' \in Nat /\ pipe' + Working' <= pipe + Working
    BY <2>1, <2>2, <2>6 DEF ConfInv, Working, Steps, NoThread
  <2>8. pipe' + Working' + Waiting' <= hups'
    <3>1. Working \in 0 .. 1 /\ Working' \in 0 .. 1 /\ pipe \in Nat /\ pipe + Working + Waiting <= hups
      BY DEF Working, ConfInv
    <3>2. pipe' + Working' + Waiting <= hups
      BY Zenon, <2>3, <2>7, <3>1, SumBound
    <3> QED
      BY <2>3, <3>2
  <2>9. /\ reconfig_ev' \in 0 .. MaxHups /\ (reconfig_ev' # 0 => event'[reconfig_ev'] # "none")
        /\ thread'.step # "none" => thread'.ev # 0 /\ event'[thread'.ev] # "none"
    BY <2>1, <2>2, <2>4 DEF ConfInv, HupEvents, NoThread
  <2>10. conf' \in 1 .. file' /\ wanted' \in 1 .. file' /\ misuse' \in {"no", "null", "freed", "unfinished"}
    BY <2>1, <2>2, <2>3 DEF ConfInv
  <2> QED
    BY <2>4, <2>5, <2>6, <2>7, <2>8, <2>9, <2>10 DEF ConfInv
<1>10. CASE ThreadReady
  <2> USE Bounds
  <2>1. thread.step \in Steps /\ thread.ev \in HupEvents /\ event[thread.ev] # "none" /\ thread.step = "ready"
    BY <1>10 DEF ThreadReady, Steps, ConfInv, HupEvents
  <2>2. /\ pipe' = pipe + 1 /\ thread' = [thread EXCEPT !.step = "unlock"]
        /\ UNCHANGED <<file, event, version, conf, wanted, reconfig_ev, misuse>>
    BY <1>10 DEF ThreadReady, bounds
  <2>3. hups \in Nat /\ hups' = hups /\ Waiting' = Waiting /\ Waiting \in 0 .. 1 /\ file \in 1 .. MaxEdits + 1
    BY <1>10, <2>2 DEF CountInv, Waiting, ThreadReady, Steps, bounds
  <2>4. /\ event' \in [HupEvents -> {"none", "info", "config", "freed"}]
        /\ version' \in [HupEvents -> 0 .. MaxEdits + 1]
        /\ \A x \in HupEvents : event'[x] # "none" <=> event[x] # "none"
        /\ \A x \in HupEvents : event'[x] = "config" => version'[x] \in 1 .. file'
    BY <2>1, <2>2, <2>3 DEF ConfInv
  <2>5. \E m \in 0 .. MaxHups : UsedTo(m)'
    BY <2>3, <2>4, MadeEventsStay
  <2>6. thread' \in [ev : 0 .. MaxHups, step : Steps]
    BY <2>1, <2>2 DEF ConfInv, Steps, NoThread
  <2>7. pipe' \in Nat /\ pipe' + Working' <= pipe + Working
    BY <2>1, <2>2, <2>6 DEF ConfInv, Working, Steps, NoThread
  <2>8. pipe' + Working' + Waiting' <= hups'
    <3>1. Working \in 0 .. 1 /\ Working' \in 0 .. 1 /\ pipe \in Nat /\ pipe + Working + Waiting <= hups
      BY DEF Working, ConfInv
    <3>2. pipe' + Working' + Waiting <= hups
      BY Zenon, <2>3, <2>7, <3>1, SumBound
    <3> QED
      BY <2>3, <3>2
  <2>9. /\ reconfig_ev' \in 0 .. MaxHups /\ (reconfig_ev' # 0 => event'[reconfig_ev'] # "none")
        /\ thread'.step # "none" => thread'.ev # 0 /\ event'[thread'.ev] # "none"
    BY <2>1, <2>2, <2>4 DEF ConfInv, HupEvents, NoThread
  <2>10. conf' \in 1 .. file' /\ wanted' \in 1 .. file' /\ misuse' \in {"no", "null", "freed", "unfinished"}
    BY <2>1, <2>2, <2>3 DEF ConfInv
  <2> QED
    BY <2>4, <2>5, <2>6, <2>7, <2>8, <2>9, <2>10 DEF ConfInv
<1>11. CASE ThreadUnlocks
  <2> USE Bounds
  <2>1. thread.step \in Steps /\ thread.step = "unlock"
    BY <1>11 DEF ThreadUnlocks, Steps, ConfInv, HupEvents
  <2>2. /\ thread' = NoThread
        /\ UNCHANGED <<file, event, version, conf, wanted, reconfig_ev, pipe, misuse>>
    BY <1>11 DEF ThreadUnlocks, bounds
  <2>3. hups \in Nat /\ hups' = hups /\ Waiting' = Waiting /\ Waiting \in 0 .. 1 /\ file \in 1 .. MaxEdits + 1
    BY <1>11, <2>2 DEF CountInv, Waiting, ThreadUnlocks, Steps, bounds
  <2>4. /\ event' \in [HupEvents -> {"none", "info", "config", "freed"}]
        /\ version' \in [HupEvents -> 0 .. MaxEdits + 1]
        /\ \A x \in HupEvents : event'[x] # "none" <=> event[x] # "none"
        /\ \A x \in HupEvents : event'[x] = "config" => version'[x] \in 1 .. file'
    BY <2>1, <2>2, <2>3 DEF ConfInv
  <2>5. \E m \in 0 .. MaxHups : UsedTo(m)'
    BY <2>3, <2>4, MadeEventsStay
  <2>6. thread' \in [ev : 0 .. MaxHups, step : Steps]
    BY <2>1, <2>2 DEF ConfInv, Steps, NoThread
  <2>7. pipe' \in Nat /\ pipe' + Working' <= pipe + Working
    BY <2>1, <2>2, <2>6 DEF ConfInv, Working, Steps, NoThread
  <2>8. pipe' + Working' + Waiting' <= hups'
    <3>1. Working \in 0 .. 1 /\ Working' \in 0 .. 1 /\ pipe \in Nat /\ pipe + Working + Waiting <= hups
      BY DEF Working, ConfInv
    <3>2. pipe' + Working' + Waiting <= hups
      BY Zenon, <2>3, <2>7, <3>1, SumBound
    <3> QED
      BY <2>3, <3>2
  <2>9. /\ reconfig_ev' \in 0 .. MaxHups /\ (reconfig_ev' # 0 => event'[reconfig_ev'] # "none")
        /\ thread'.step # "none" => thread'.ev # 0 /\ event'[thread'.ev] # "none"
    BY <2>1, <2>2, <2>4 DEF ConfInv, HupEvents, NoThread
  <2>10. conf' \in 1 .. file' /\ wanted' \in 1 .. file' /\ misuse' \in {"no", "null", "freed", "unfinished"}
    BY <2>1, <2>2, <2>3 DEF ConfInv
  <2> QED
    BY <2>4, <2>5, <2>6, <2>7, <2>8, <2>9, <2>10 DEF ConfInv
<1>12. CASE pipe_handler
  <2> USE Bounds
  <2>1. pipe \in Nat /\ pipe > 0 /\ (Found = "no" => reconfig_ev \in HupEvents /\ event[reconfig_ev] = "config")
    BY <1>12 DEF pipe_handler, Found, ConfInv, HupEvents
  <2>2. /\ pipe' = (IF pipe <= 2 THEN 0 ELSE pipe - 2) /\ reconfig_ev' = 0
        /\ misuse' \in {"no", "null", "freed", "unfinished"}
        /\ \/ UNCHANGED <<conf, event>>
           \/ Found = "no" /\ conf' = version[reconfig_ev] /\ event' = [event EXCEPT ![reconfig_ev] = "freed"]
        /\ UNCHANGED <<file, version, wanted, thread>>
    BY <1>12 DEF pipe_handler, Found, bounds
  <2>3. hups \in Nat /\ hups' = hups /\ Waiting' = Waiting /\ Waiting \in 0 .. 1 /\ file \in 1 .. MaxEdits + 1
    BY <1>12, <2>2 DEF CountInv, Waiting, pipe_handler, Found, bounds
  <2>4. /\ event' \in [HupEvents -> {"none", "info", "config", "freed"}]
        /\ version' \in [HupEvents -> 0 .. MaxEdits + 1]
        /\ \A x \in HupEvents : event'[x] # "none" <=> event[x] # "none"
        /\ \A x \in HupEvents : event'[x] = "config" => version'[x] \in 1 .. file'
    BY <2>1, <2>2, <2>3 DEF ConfInv
  <2>5. \E m \in 0 .. MaxHups : UsedTo(m)'
    BY <2>3, <2>4, MadeEventsStay
  <2>6. thread' \in [ev : 0 .. MaxHups, step : Steps]
    BY <2>1, <2>2 DEF ConfInv, Steps, NoThread
  <2>7. pipe' \in Nat /\ pipe' + Working' <= pipe + Working
    BY <2>1, <2>2, <2>6 DEF ConfInv, Working, Steps, NoThread
  <2>8. pipe' + Working' + Waiting' <= hups'
    <3>1. Working \in 0 .. 1 /\ Working' \in 0 .. 1 /\ pipe \in Nat /\ pipe + Working + Waiting <= hups
      BY DEF Working, ConfInv
    <3>2. pipe' + Working' + Waiting <= hups
      BY Zenon, <2>3, <2>7, <3>1, SumBound
    <3> QED
      BY <2>3, <3>2
  <2>9. /\ reconfig_ev' \in 0 .. MaxHups /\ (reconfig_ev' # 0 => event'[reconfig_ev'] # "none")
        /\ thread'.step # "none" => thread'.ev # 0 /\ event'[thread'.ev] # "none"
    BY <2>1, <2>2, <2>4 DEF ConfInv, HupEvents, NoThread
  <2>10. conf' \in 1 .. file' /\ wanted' \in 1 .. file' /\ misuse' \in {"no", "null", "freed", "unfinished"}
    BY <2>1, <2>2, <2>3 DEF ConfInv
  <2> QED
    BY <2>4, <2>5, <2>6, <2>7, <2>8, <2>9, <2>10 DEF ConfInv
<1>13. CASE Edit
  <2> USE Bounds
  <2>1. file' = file + 1 /\ UNCHANGED <<hups, requested, event, version, conf, wanted, reconfig_ev, thread, misuse, pipe>>
    BY <1>13 DEF Edit, confVars, bounds
  <2>2. file \in Nat /\ 1 .. file \subseteq 1 .. file'
    BY <2>1 DEF CountInv
  <2>3. \E m \in 0 .. MaxHups : UsedTo(m)'
    BY <2>1 DEF ConfInv, UsedTo, Waiting
  <2> QED
    BY <2>1, <2>2, <2>3 DEF ConfInv, Waiting, Working
<1>14. CASE UNCHANGED <<file, hups, requested, event, version, conf, wanted, reconfig_ev, thread, misuse, pipe>>
  BY <1>14 DEF ConfInv, UsedTo, Waiting, Working
<1> QED
  BY <1>1, <1>2, <1>3, <1>4, <1>5, <1>6, <1>7, <1>8, <1>9, <1>10, <1>11, <1>12, <1>13, <1>14 DEF
    Next, vars, OpenLog, HandleEvent, TakeFlush, TestLogFd, Sync, Synced, confVars,
    logVars, bounds

(* With SIGHUPs that do not overlap, the one that waits for its reply, runs its thread or
   is in the pipe is the only one, and reconfig_ev is its event. *)
LEMMA HandOverStep == Patient = TRUE /\ CountInv /\ ConfInv /\ HandOver /\ [Next]_vars => HandOver'
<1> SUFFICES ASSUME Patient = TRUE /\ CountInv /\ ConfInv /\ HandOver, [Next]_vars PROVE HandOver'
  OBVIOUS
<1>1. CASE hup_handler
  <2>1. Quiet
    BY Zenon, <1>1 DEF hup_handler
  <2>2. UNCHANGED <<event, reconfig_ev, config_lock, thread, pipe, misuse>>
    BY Zenon, <1>1 DEF hup_handler
  <2> QED
    BY <2>1, <2>2 DEF HandOver, ConfInv, Quiet
<1>2. CASE user1_handler
  <2>1. "hup" \in requested' => "hup" \in requested
    BY <1>2 DEF user1_handler, RequestInfo
  <2>2. UNCHANGED <<event, reconfig_ev, config_lock, thread, pipe, misuse>>
    BY Zenon, <1>2 DEF user1_handler
  <2> QED
    BY <2>1, <2>2 DEF HandOver
<1>3. CASE user2_handler
  <2>1. "hup" \in requested' => "hup" \in requested
    BY <1>3 DEF user2_handler, RequestInfo
  <2>2. UNCHANGED <<event, reconfig_ev, config_lock, thread, pipe, misuse>>
    BY Zenon, <1>3 DEF user2_handler
  <2> QED
    BY <2>1, <2>2 DEF HandOver
<1>4. CASE InfoForHup
  <2> DEFINE e == Cardinality({x \in HupEvents : event[x] # "none"}) + 1
  <2>1. "hup" \in requested /\ thread.step \in {"none", "unlock"} /\ pipe = 0
    BY <1>4 DEF InfoForHup, start_config_manager, HandOver, ConfInv, Steps
  <2>2. "hup" \notin requested' /\ pipe' = pipe /\ misuse' = misuse /\ reconfig_ev' = e
    BY <1>4 DEF InfoForHup, start_config_manager
  <2>3. e \in HupEvents
    <3>1. PICK n \in 0 .. MaxHups : UsedTo(n)
      BY DEF ConfInv
    <3>2. e = n + 1
      BY <3>1, NextEvent DEF UsedTo
    <3>3. n + 1 <= hups /\ hups \in 0 .. MaxHups
      BY <2>1, <3>1 DEF UsedTo, Waiting, CountInv
    <3> QED
      BY <3>2, <3>3, Bounds DEF HupEvents
  <2>4. CASE ~config_lock /\ config_lock' = TRUE /\ thread' = [ev |-> e, step |-> "load"]
              /\ event' = [event EXCEPT ![e] = "info"]
    <3>1. event'[e] = "info" /\ thread'.ev = e /\ thread'.step = "load" /\ e # 0
      BY <2>3, <2>4, Bounds DEF ConfInv, HupEvents
    <3> HIDE DEF e
    <3> QED
      BY <2>1, <2>2, <2>4, <3>1 DEF HandOver
  <2>5. CASE UNCHANGED <<config_lock, thread>>
    <3> HIDE DEF e
    <3> QED
      BY <2>1, <2>2, <2>5 DEF HandOver
  <2> QED
    BY Zenon, <1>4, <2>4, <2>5 DEF InfoForHup, start_config_manager
<1>5. CASE InfoForUser1
  <2>1. "hup" \in requested' => "hup" \in requested
    BY <1>5 DEF InfoForUser1, RequestInfo
  <2>2. UNCHANGED <<event, reconfig_ev, config_lock, thread, pipe, misuse>>
    BY Zenon, <1>5 DEF InfoForUser1
  <2> QED
    BY <2>1, <2>2 DEF HandOver
<1>6. CASE InfoForUser2
  <2>1. "hup" \in requested' => "hup" \in requested
    BY <1>6 DEF InfoForUser2, RequestInfo
  <2>2. UNCHANGED <<event, reconfig_ev, config_lock, thread, pipe, misuse>>
    BY Zenon, <1>6 DEF InfoForUser2
  <2> QED
    BY <2>1, <2>2 DEF HandOver
<1>7. CASE ThreadLoads
  <2>1. thread.step = "load" /\ thread.ev \in HupEvents
    BY <1>7, Bounds DEF ThreadLoads, ConfInv, HupEvents
  <2>2. UNCHANGED <<requested, reconfig_ev, config_lock, pipe, misuse>>
    BY Zenon, <1>7 DEF ThreadLoads
  <2> QED
    BY <1>7, <2>1, <2>2 DEF ThreadLoads, HandOver, ConfInv
<1>8. CASE ThreadFails
  <2>1. thread.step = "load" /\ thread.ev \in HupEvents
    BY <1>8, Bounds DEF ThreadFails, ConfInv, HupEvents
  <2>2. UNCHANGED <<requested, reconfig_ev, config_lock, pipe, misuse>>
    BY Zenon, <1>8 DEF ThreadFails
  <2> QED
    BY <1>8, <2>1, <2>2 DEF ThreadFails, HandOver, ConfInv
<1>9. CASE ThreadReady
  <2>1. thread.step = "ready" /\ thread.ev \in HupEvents /\ thread.ev # 0
    BY <1>9, Bounds DEF ThreadReady, ConfInv, HupEvents
  <2>2. UNCHANGED <<requested, reconfig_ev, config_lock, event, misuse>>
    BY Zenon, <1>9 DEF ThreadReady
  <2>3. pipe' = pipe + 1 /\ thread' = [thread EXCEPT !.step = "unlock"] /\ thread'.step = "unlock"
    BY <1>9 DEF ThreadReady, ConfInv
  <2> QED
    BY <2>1, <2>2, <2>3 DEF HandOver, ConfInv
<1>10. CASE ThreadUnlocks
  <2>1. thread'.step = "none" /\ thread.step = "unlock"
    BY <1>10 DEF ThreadUnlocks, NoThread
  <2>2. UNCHANGED <<requested, reconfig_ev, event, pipe, misuse>>
    BY Zenon, <1>10 DEF ThreadUnlocks
  <2> QED
    BY <2>1, <2>2 DEF HandOver
<1>11. CASE pipe_handler
  <2>1. pipe = 1 /\ thread.step \in {"none", "unlock"} /\ Found = "no"
    BY <1>11, Bounds DEF pipe_handler, HandOver, ConfInv, Found
  <2>2. UNCHANGED <<requested, thread, config_lock>> /\ pipe' = 0 /\ misuse' = "no"
    BY <1>11, <2>1 DEF pipe_handler
  <2> QED
    BY <2>1, <2>2 DEF HandOver
<1>12. CASE UNCHANGED <<requested, event, reconfig_ev, config_lock, thread, misuse, pipe>>
  BY <1>12 DEF HandOver
<1> QED
  BY <1>1, <1>2, <1>3, <1>4, <1>5, <1>6, <1>7, <1>8, <1>9, <1>10, <1>11, <1>12 DEF Next,
    vars, InfoIgnored, OpenLog, HandleEvent, TakeFlush, TestLogFd, Sync, Synced, Edit,
    confVars, logVars, bounds

-----------------------------------------------------------------------------
(* Init establishes the parts of the invariant. *)
LEMMA InitParts == Init => CountInv /\ LogInv /\ ConfInv /\ HandOver
<1> SUFFICES ASSUME Init PROVE CountInv /\ LogInv /\ ConfInv /\ HandOver
  OBVIOUS
<1> USE Bounds DEF Init
<1>1. CountInv
  BY FS_EmptySet DEF CountInv, RepliesSuffice
<1>2. LogInv
  <2>1. records \in 0 .. MaxRecords /\ log_fd \in Fds /\ open \in Fds
    OBVIOUS
  <2> QED
    BY Zenon, <2>1 DEF LogInv
<1>3. ConfInv
  <2>1. UsedTo(0)
    BY DEF UsedTo, Waiting, HupEvents
  <2> QED
    BY <2>1 DEF ConfInv, Waiting, Working, NoThread, Steps, HupEvents
<1>4. HandOver
  BY DEF HandOver, NoThread
<1> QED
  BY <1>1, <1>2, <1>3, <1>4

(* config_lock stays a Boolean. *)
LEMMA LockStep == config_lock \in BOOLEAN /\ [Next]_vars => config_lock' \in BOOLEAN
BY Zenon DEF Next, vars, confVars, logVars, bounds, hup_handler, user1_handler, user2_handler,
  InfoForHup, start_config_manager, InfoForUser1, InfoForUser2, InfoIgnored, ThreadLoads, ThreadFails, ThreadReady,
  ThreadUnlocks, pipe_handler, OpenLog, HandleEvent, TakeFlush, TestLogFd, Sync, Synced, Edit

Inv == CountInv /\ LogInv /\ ConfInv /\ config_lock \in BOOLEAN

(* The invariant that needs no assumption on the signals is inductive. *)
LEMMA Invariant == Spec => []Inv
<1>1. Init => Inv
  BY Zenon, InitParts DEF Inv, Init
<1>2. Inv /\ [Next]_vars => Inv'
  BY Zenon, CountStep, LogStep, ConfStep, LockStep DEF Inv
<1> QED
  BY <1>1, <1>2, PTL DEF Spec

(* Type correctness, for any stream of signals, edits and failures.  It says that the     *)
(* configuration in force is always a version that auditd.conf has held: what             *)
(* pipe_handler takes out of an event was put there by a load_config that succeeded.      *)
THEOREM TypeCorrect == Spec => []TypeOK
<1>1. Inv => TypeOK
  <2> SUFFICES ASSUME Inv PROVE TypeOK
    OBVIOUS
  <2>1. /\ file \in 1 .. MaxEdits + 1 /\ requested \subseteq {"hup", "usr1", "usr2"}
        /\ infos \in 0 .. (hups + users) /\ hups \in 0 .. MaxHups /\ users \in 0 .. MaxUsers
        /\ failures \in 0 .. MaxFailures
    BY Zenon DEF Inv, CountInv, Signals
  <2>2. thread.ev \in 0 .. MaxHups /\ thread.step \in {"none", "load", "ready", "unlock"}
    <3>1. thread \in [ev : 0 .. MaxHups, step : Steps]
      BY Zenon DEF Inv, ConfInv
    <3> QED
      BY <3>1 DEF Steps
  <2>3. pipe \in 0 .. MaxHups
    <3>1. pipe \in Nat /\ pipe + Working + Waiting <= hups
      BY Zenon DEF Inv, ConfInv
    <3> QED
      BY <2>1, <3>1, Bounds DEF Working, Waiting
  <2> QED
    BY Zenon, <2>1, <2>2, <2>3 DEF Inv, ConfInv, LogInv, TypeOK
<1> QED
  BY <1>1, Invariant, PTL

(* netlink_handler cannot tell for which signal a reply is, but it never runs out of      *)
(* replies: one is on its way for each flag that is set, whichever signals come, are      *)
(* merged or fail to ask.                                                                 *)
THEOREM RepliesSufficeHolds == Spec => []RepliesSuffice
<1>1. Inv => RepliesSuffice
  BY Zenon DEF Inv, CountInv
<1> QED
  BY <1>1, Invariant, PTL

(* With SIGHUPs that do not overlap pipe_handler finds at reconfig_ev an event that the   *)
(* configuration thread has filled in and that nobody has freed, even though SIGUSR1,     *)
(* SIGUSR2, failing requests, failing threads and unreadable files come in between.       *)
THEOREM EventIsReadyHolds == ASSUME Patient = TRUE PROVE Spec => []EventIsReady
<1>1. Init => Inv /\ HandOver
  BY Zenon, InitParts DEF Inv, Init
<1>2. Inv /\ HandOver /\ [Next]_vars => HandOver'
  BY Zenon, HandOverStep DEF Inv
<1>3. HandOver => EventIsReady
  BY Zenon DEF HandOver, EventIsReady
<1> QED
  BY <1>1, <1>2, <1>3, Invariant, PTL DEF Spec

=============================================================================
