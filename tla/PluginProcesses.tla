-------------------------- MODULE PluginProcesses --------------------------
(***************************************************************************)
(* The plugins as processes: the list of plugins that the dispatcher       *)
(* thread of auditd keeps (audispd.c, audispd-llist.c), their start, the   *)
(* delivery of events with the restart of a plugin that has gone, and the  *)
(* reload after a HUP.  Around it the main thread, which asks for the      *)
(* reload and reaps children (auditd.c), the administrator who edits       *)
(* plugins.d, plugins that end, and the kernel that gives pids out again.  *)
(*                                                                         *)
(* The queue of events is module PluginQueue: here dequeue returns an      *)
(* event, or nothing after a HUP.  The plugins of the list are visited in  *)
(* any order.  Every plugin is of type always.  Stopping is part of        *)
(* PluginQueue: it ends in EndThread, as here without plugins.             *)
(***************************************************************************)
EXTENDS Integers, FiniteSets

CONSTANTS
  Plugins,      \* names of plugins
  Pids,         \* the pids the kernel has
  MaxRestarts,  \* max_restarts
  Versions,     \* binaries of a plugin (inodes)
  Installed,    \* the binary that plugins have when auditd starts
  MaxEvents,    \* bound: number of events
  MaxHups,      \* bound: number of HUPs
  MaxEdits,     \* bound: changes in plugins.d
  MaxCrashes,   \* bound: plugins that end unasked
  MaxForkFails  \* bound: failing forks

ASSUME PluginAssumption ==
  /\ IsFiniteSet(Pids) /\ 0 \notin Pids /\ 0 \notin Versions /\ Installed \in Versions
  /\ MaxRestarts \in Nat /\ MaxEvents \in Nat /\ MaxHups \in Nat /\ MaxEdits \in Nat
  /\ MaxCrashes \in Nat /\ MaxForkFails \in Nat

VARIABLES
  dir,      \* plugins.d: the binary of each plugin that is active there, or 0
  entry,    \* the list plugin_conf: active, pid, pipe ("open", "none": -1, "stale":
            \* closed but remembered), restart_cnt, inode (0: not in the list)
  proc,     \* the process that has each pid: state "run", "zombie" (not reaped yet),
            \* "free"; its plugin; told: SIGTERM sent
            \* or its pipe closed
  pc,       \* the dispatcher: "start", "wait", "deliver", "rewrite", then after a HUP "load",
            \* "reload", "leftover", "clear", or without plugins "end" and "dead"
  todo,     \* plugins still to be visited in the loop
  again,    \* the plugin that was just restarted and is to be given the event again
  tmp,      \* the list load_plugin_conf read
  disp_hup,
  ev,       \* the event being delivered, counted
  hups,     \* number of HUPs the main thread has passed on
  loaded,   \* history: HUPs that came before the last load_plugin_conf
  erased,   \* history: a HUP came during a reload and was erased with it
  last,     \* history: per plugin, the last event its process was given
  ended,    \* history: plugins whose process ended after they were last offered an event
  edits, crashes, forkfails

bounds == <<edits, crashes, forkfails>>
history == <<last, ended>>
vars == <<dir, entry, proc, pc, todo, tmp, disp_hup, ev, again, hups, loaded, erased, history, bounds>>

Unlisted == [active |-> FALSE, pid |-> 0, pipe |-> "none", restart_cnt |-> 0, inode |-> 0]
Free == [state |-> "free", plugin |-> "none", told |-> FALSE]

\* what load_pconfig gives for a plugin that is active
Loaded(inode) == [Unlisted EXCEPT !.active = TRUE, !.inode = inode]

Listed == {p \in Plugins : entry[p].inode # 0}
Own(p, k) == k # 0 /\ proc[k].plugin = p /\ proc[k].state \in {"run", "zombie"}

Init ==
  /\ dir \in [Plugins -> {Installed, 0}]
  /\ entry = [p \in Plugins |-> Unlisted]
  /\ proc = [k \in Pids |-> Free]
  /\ pc = "dead" /\ todo = {} /\ again = {} /\ tmp = [p \in Plugins |-> 0]
  /\ disp_hup = FALSE /\ ev = 0 /\ hups = 0 /\ loaded = 0 /\ erased = FALSE
  /\ last = [p \in Plugins |-> 0] /\ ended = {}
  /\ edits = 0 /\ crashes = 0 /\ forkfails = 0

-----------------------------------------------------------------------------
(* start_one_plugin                                                        *)

\* kill: it reaches a process, not a zombie
Kill(processes, k) ==
  IF k # 0 /\ processes[k].state = "run"
  THEN [processes EXCEPT ![k].told = TRUE] ELSE processes

\* close of the end of a pipe: its reader sees the end of file
ClosePipe(processes, p, e) ==
  [k \in Pids |-> IF e.pipe = "open" /\ k = e.pid /\ processes[k].state = "run"
                     /\ processes[k].plugin = p
                  THEN [processes[k] EXCEPT !.told = TRUE] ELSE processes[k]]

\* start_one_plugin on entry e of plugin p.  Beyond max_restarts it does nothing
\* and returns 1; if fork fails the descriptors are closed but not forgotten.
StartOnePlugin(p, e, processes) ==
  /\ \/ /\ e.restart_cnt > MaxRestarts
        /\ entry' = [entry EXCEPT ![p] = e]
        /\ proc' = processes
        /\ UNCHANGED forkfails
     \/ /\ e.restart_cnt <= MaxRestarts
        /\ \E k \in {k \in Pids : processes[k].state = "free"} :
             /\ entry' = [entry EXCEPT ![p] = [e EXCEPT !.pid = k, !.pipe = "open"]]
             /\ proc' = [processes EXCEPT ![k] = [state |-> "run", plugin |-> p, told |-> FALSE]]
        /\ UNCHANGED forkfails
     \/ /\ e.restart_cnt <= MaxRestarts /\ forkfails < MaxForkFails
        /\ entry' = [entry EXCEPT ![p] = [e EXCEPT !.pid = 0, !.pipe = "stale", !.active = FALSE]]
        /\ proc' = processes
        /\ forkfails' = forkfails + 1
  /\ ended' = ended \ {p}

\* a plugin that starts gets the events from now on
FromNowOn(p) == last' = [last EXCEPT ![p] = ev]

\* libdisp_init: load the list.  disp_hup is still set when the thread ended after
\* a reload.
LibdispInit ==
  /\ pc = "dead" /\ hups < MaxHups
  /\ hups' = hups + 1 /\ loaded' = hups + 1
  /\ tmp' = dir
  /\ todo' = {p \in Plugins : dir[p] # 0}
  /\ entry' = [p \in Plugins |-> IF dir[p] # 0 THEN Loaded(dir[p]) ELSE Unlisted]
  /\ pc' = IF todo' = {} THEN "dead" ELSE "start"
  /\ UNCHANGED <<dir, proc, disp_hup, ev, again, erased, history, bounds>>

\* start_plugins
StartPlugin(p) ==
  /\ pc = "start" /\ p \in todo
  /\ StartOnePlugin(p, entry[p], proc)
  /\ FromNowOn(p)
  /\ todo' = todo \ {p}
  /\ pc' = IF todo' = {} THEN "wait" ELSE "start"
  /\ UNCHANGED <<dir, tmp, disp_hup, ev, again, hups, loaded, erased, edits, crashes>>

-----------------------------------------------------------------------------
(* event_loop                                                              *)

\* dequeue returns an event, as long as no HUP is waiting
TakeEvent ==
  /\ pc = "wait" /\ ~disp_hup /\ ev < MaxEvents
  /\ ev' = ev + 1
  /\ todo' = Listed
  /\ pc' = "deliver"
  /\ UNCHANGED <<dir, entry, proc, tmp, disp_hup, again, hups, loaded, erased, history, bounds>>

\* mutant: the loop goes on when dequeue returns nothing
WokenForHupContinues ==
  pc = "wait" /\ disp_hup /\ UNCHANGED vars

\* dequeue returns nothing because disp_hup is set
WokenForHup ==
  /\ pc = "wait" /\ disp_hup
  /\ pc' = "load"
  /\ UNCHANGED <<dir, entry, proc, todo, tmp, disp_hup, ev, again, hups, loaded, erased, history, bounds>>

\* where the loop goes after a plugin: on, or after the last one to the reload if
\* a HUP is waiting
Visited(p) ==
  /\ todo' = todo \ {p}
  /\ pc' = IF todo' # {} THEN "deliver" ELSE IF disp_hup THEN "load" ELSE "wait"
  /\ UNCHANGED <<dir, tmp, disp_hup, ev, hups, loaded, erased, edits, crashes>>

\* the plugin is not active, or its descriptor is -1 (EBADF): nothing happens
Passed(p) ==
  /\ pc = "deliver" /\ p \in todo
  /\ ~entry[p].active \/ entry[p].pipe # "open"
  /\ Visited(p)
  /\ UNCHANGED <<entry, proc, again, history, forkfails>>

Alive(p) == entry[p].pid # 0 /\ proc[entry[p].pid].state = "run" /\ proc[entry[p].pid].plugin = p

WriteToPlugin(p) ==
  /\ pc = "deliver" /\ p \in todo
  /\ entry[p].active /\ entry[p].pipe = "open" /\ Alive(p)
  /\ last' = [last EXCEPT ![p] = ev]
  /\ Visited(p)
  /\ UNCHANGED <<entry, proc, again, ended, forkfails>>

\* mutant: the pid is not forgotten
RestartPluginKeepsPid(p) ==
  /\ pc = "deliver" /\ p \in todo
  /\ entry[p].active /\ entry[p].pipe = "open" /\ ~Alive(p)
  /\ LET e == [entry[p] EXCEPT !.pipe = "none", !.restart_cnt = @ + 1]
     IN  StartOnePlugin(p, e, proc)
  /\ todo' = todo \ {p} /\ again' = {p} /\ pc' = "rewrite"
  /\ UNCHANGED <<dir, tmp, disp_hup, ev, hups, loaded, erased, last, edits, crashes>>

\* EPIPE: the plugin is gone.  It is started again.  (active, A_NO from here to the end
\* of the second write, is looked at by no one else, and keeps its value here; after a
\* fork that failed it stays A_NO.)
RestartPlugin(p) ==
  /\ pc = "deliver" /\ p \in todo
  /\ entry[p].active /\ entry[p].pipe = "open" /\ ~Alive(p)
  /\ LET e == [entry[p] EXCEPT !.pid = 0, !.pipe = "none", !.restart_cnt = @ + 1]
     IN  StartOnePlugin(p, e, proc)
  /\ todo' = todo \ {p} /\ again' = {p} /\ pc' = "rewrite"
  /\ UNCHANGED <<dir, tmp, disp_hup, ev, hups, loaded, erased, last, edits, crashes>>

\* mutant: the event that found the plugin gone is not written again
WriteAgainNot(p) ==
  /\ pc = "rewrite" /\ p \in again /\ again' = {}
  /\ Visited(p)
  /\ UNCHANGED <<entry, proc, history, forkfails>>

\* The second write.  Nobody looks at its result: it fails if the new process has
\* ended already (its binary may not even have been executable), and beyond max_restarts,
\* where start_one_plugin returns 1 without a process and the plugin stays active
\* without a pipe.
WriteAgain(p) ==
  /\ pc = "rewrite" /\ p \in again /\ again' = {}
  /\ last' = IF entry[p].active /\ entry[p].pipe = "open" /\ Alive(p)
             THEN [last EXCEPT ![p] = ev] ELSE last
  /\ Visited(p)
  /\ UNCHANGED <<entry, proc, ended, forkfails>>

-----------------------------------------------------------------------------
(* reconfigure                                                             *)

\* the start of reconfigure: load_plugin_conf
LoadPluginConf ==
  /\ pc = "load"
  /\ tmp' = dir /\ loaded' = hups
  /\ todo' = {p \in Plugins : dir[p] # 0}
  /\ pc' = IF todo' = {} THEN "leftover" ELSE "reload"
  /\ UNCHANGED <<dir, entry, proc, disp_hup, ev, again, hups, erased, history, bounds>>

\* the loop over the new list: the next plugin, or what is left over
Checked(p) ==
  /\ pc = "reload" /\ p \in todo
  /\ todo' = todo \ {p}
  /\ pc' = IF todo' = {} THEN "leftover" ELSE "reload"
  /\ UNCHANGED <<dir, tmp, disp_hup, ev, again, hups, loaded, erased, edits, crashes>>

\* a plugin that was not in the list
ReloadNew(p) ==
  /\ entry[p].inode = 0
  /\ StartOnePlugin(p, Loaded(tmp[p]), proc)
  /\ FromNowOn(p)
  /\ Checked(p)

\* an active plugin whose binary is the same: kill(pid, SIGHUP)
ReloadSame(p) ==
  /\ entry[p].active /\ entry[p].inode = tmp[p]
  /\ Checked(p)
  /\ UNCHANGED <<entry, proc, history, forkfails>>

\* mutant: the old process is left alone
ReloadChangedNoKill(p) ==
  /\ entry[p].active /\ entry[p].inode # tmp[p] /\ entry[p].inode # 0
  /\ LET e == [entry[p] EXCEPT !.pid = 0, !.pipe = "none", !.inode = tmp[p]]
     IN  StartOnePlugin(p, e, proc)
  /\ FromNowOn(p)
  /\ Checked(p)

\* an active plugin whose binary has changed: SIGTERM, close, start
ReloadChanged(p) ==
  /\ entry[p].active /\ entry[p].inode # tmp[p]
  /\ LET e == [entry[p] EXCEPT !.pid = 0, !.pipe = "none", !.inode = tmp[p]]
     IN  StartOnePlugin(p, e, ClosePipe(Kill(proc, entry[p].pid), p, entry[p]))
  /\ FromNowOn(p)
  /\ Checked(p)

\* A plugin that was in the list and not active: its entry is replaced.  (free_pconfig
\* closes a stale descriptor a second time; descriptor numbers are not modelled.)
ReloadAgain(p) ==
  /\ entry[p].inode # 0 /\ ~entry[p].active
  /\ StartOnePlugin(p, Loaded(tmp[p]), proc)
  /\ FromNowOn(p)
  /\ Checked(p)

\* mutant: a plugin that is no longer configured is only marked
LeftoverMarkOnly ==
  /\ pc = "leftover"
  /\ entry' = [p \in Plugins |->
       IF p \in Listed /\ tmp[p] = 0
       THEN [entry[p] EXCEPT !.active = FALSE, !.pipe = "none", !.pid = 0] ELSE entry[p]]
  /\ proc' = proc
  /\ pc' = IF \E p \in Plugins : entry'[p].active THEN "clear" ELSE "end"
  /\ UNCHANGED <<dir, todo, tmp, disp_hup, ev, again, hups, loaded, erased, history, bounds>>

\* What is left over is terminated and stays in the list, not active.  Without an
\* active plugin the thread ends.
Leftover ==
  /\ pc = "leftover"
  /\ LET gone == {p \in Listed : tmp[p] = 0}
     IN  /\ entry' = [p \in Plugins |->
              IF p \in gone
              THEN [entry[p] EXCEPT !.active = FALSE, !.pipe = "none", !.pid = 0] ELSE entry[p]]
         /\ proc' = [k \in Pids |->
              IF proc[k].state = "run" /\ \E p \in gone : entry[p].pid = k
              THEN [proc[k] EXCEPT !.told = TRUE] ELSE proc[k]]
  /\ pc' = IF \E p \in Plugins : entry'[p].active THEN "clear" ELSE "end"
  /\ UNCHANGED <<dir, todo, tmp, disp_hup, ev, again, hups, loaded, erased, history, bounds>>

\* disp_hup = 0 after reconfigure
ClearHup ==
  /\ pc = "clear"
  /\ disp_hup' = FALSE /\ pc' = "wait"
  /\ UNCHANGED <<dir, entry, proc, todo, tmp, ev, again, hups, loaded, erased, history, bounds>>

\* outbound_thread_main ends: signal_plugins(SIGTERM), the list is freed and the
\* pipes with it
EndThread ==
  /\ pc = "end"
  /\ proc' = [k \in Pids |->
       IF proc[k].state = "run" /\ \E p \in Plugins : entry[p].pid = k
       THEN [proc[k] EXCEPT !.told = TRUE] ELSE proc[k]]
  /\ entry' = [p \in Plugins |-> Unlisted]
  /\ pc' = "dead"
  /\ UNCHANGED <<dir, todo, tmp, disp_hup, ev, again, hups, loaded, erased, history, bounds>>

-----------------------------------------------------------------------------
(* The main thread, plugins.d, processes                                   *)

\* libdisp_reconfigure while the dispatcher has a list
Hup ==
  /\ pc \notin {"dead", "start"} /\ hups < MaxHups
  /\ disp_hup' = TRUE /\ hups' = hups + 1
  /\ erased' = (erased \/ pc \in {"reload", "leftover", "clear", "end"})
  /\ UNCHANGED <<dir, entry, proc, pc, todo, tmp, ev, again, loaded, history, bounds>>

Edit(p) ==
  /\ edits < MaxEdits /\ edits' = edits + 1
  /\ \E v \in (Versions \cup {0}) \ {dir[p]} : dir' = [dir EXCEPT ![p] = v]
  /\ UNCHANGED <<entry, proc, pc, todo, tmp, disp_hup, ev, again, hups, loaded, erased, history,
                 crashes, forkfails>>

\* A plugin ends: because it was told to, or not
PluginEnds(k) ==
  /\ proc[k].state = "run"
  /\ proc[k].told \/ crashes < MaxCrashes
  /\ crashes' = IF proc[k].told THEN crashes ELSE crashes + 1
  /\ proc' = [proc EXCEPT ![k].state = "zombie"]
  /\ ended' = ended \cup {p \in Plugins : p = proc[k].plugin /\ entry[p].pid = k}
  /\ UNCHANGED <<dir, entry, pc, todo, tmp, disp_hup, ev, again, hups, loaded, erased, last,
                 edits, forkfails>>

\* child_handler reaps; the list is not told
Reap(k) ==
  /\ proc[k].state = "zombie"
  /\ proc' = [proc EXCEPT ![k] = Free]
  /\ UNCHANGED <<dir, entry, pc, todo, tmp, disp_hup, ev, again, hups, loaded, erased, history, bounds>>

-----------------------------------------------------------------------------
Dispatcher ==
  \/ TakeEvent \/ WokenForHup \/ LoadPluginConf \/ Leftover \/ ClearHup \/ EndThread
  \/ \E p \in Plugins :
       \/ StartPlugin(p) \/ Passed(p) \/ WriteToPlugin(p) \/ RestartPlugin(p) \/ WriteAgain(p)
       \/ ReloadNew(p) \/ ReloadSame(p) \/ ReloadChanged(p) \/ ReloadAgain(p)

Next ==
  \/ LibdispInit \/ TakeEvent \/ WokenForHup \/ LoadPluginConf \/ Leftover \/ ClearHup \/ EndThread
  \/ (\E p \in Plugins : StartPlugin(p)) \/ (\E p \in Plugins : Passed(p))
  \/ (\E p \in Plugins : WriteToPlugin(p)) \/ (\E p \in Plugins : RestartPlugin(p))
  \/ (\E p \in Plugins : WriteAgain(p))
  \/ (\E p \in Plugins : ReloadNew(p)) \/ (\E p \in Plugins : ReloadSame(p))
  \/ (\E p \in Plugins : ReloadChanged(p)) \/ (\E p \in Plugins : ReloadAgain(p))
  \/ Hup \/ (\E p \in Plugins : Edit(p)) \/ (\E k \in Pids : PluginEnds(k))
  \/ (\E k \in Pids : Reap(k))

\* The dispatcher runs, zombies are reaped, and plugins that are told to end do.
\* That dequeue returns after a HUP is the next event's doing if the wake-up of the
\* HUP itself was lost, so events have to keep arriving.
Fairness == WF_vars(Dispatcher) /\ WF_vars(\E k \in Pids : Reap(k))
                                /\ WF_vars(\E k \in Pids : proc[k].told /\ PluginEnds(k))

Spec == Init /\ [][Next]_vars /\ Fairness

-----------------------------------------------------------------------------
(* Properties                                                              *)

\* Type correctness; an entry never holds the result of a failed fork as its pid, and
\* start_one_plugin stops counting restarts one beyond the limit.
TypeOK ==
  /\ dir \in [Plugins -> Versions \cup {0}] /\ tmp \in [Plugins -> Versions \cup {0}]
  /\ entry \in [Plugins -> [active : BOOLEAN, pid : Pids \cup {0}, pipe : {"open", "none", "stale"},
                            restart_cnt : 0 .. MaxRestarts + 1, inode : Versions \cup {0}]]
  /\ proc \in [Pids -> [state : {"run", "zombie", "free"},
                        plugin : Plugins \cup {"none"}, told : BOOLEAN]]
  /\ pc \in {"start", "wait", "deliver", "rewrite", "load", "reload", "leftover", "clear",
            "end", "dead"}
  /\ todo \subseteq Plugins /\ again \subseteq Plugins /\ {disp_hup, erased} \subseteq BOOLEAN
  /\ ev \in 0 .. MaxEvents /\ hups \in 0 .. MaxHups /\ loaded \in 0 .. hups
  /\ last \in [Plugins -> 0 .. MaxEvents] /\ ended \subseteq Plugins
  /\ edits \in 0 .. MaxEdits /\ crashes \in 0 .. MaxCrashes
  /\ forkfails \in 0 .. MaxForkFails

\* Every running process of a plugin is the one its entry names, or has been told
\* to end: neither restarts nor reloads nor the end of the thread leave one behind,
\* and no plugin runs twice.
NoStrayProcess ==
  \A k \in Pids : (proc[k].state = "run" /\ ~proc[k].told) =>
    \E p \in Plugins : proc[k].plugin = p /\ entry[p].pid = k /\ entry[p].active

\* Between events and during a reload, every active plugin was given the last event, also
\* when its process had gone and was started again for it.  An event is lost to a restart
\* only if the new process ended before the second write as well, so that the next event
\* finds it gone; restart_cnt bounds how many are lost in this way.  A plugin that has lost
\* its pipe has used up its restarts.
UpToDate ==
  pc \in {"wait", "load", "reload", "leftover", "clear"} =>
    \A p \in Plugins : entry[p].active =>
      \/ entry[p].pipe = "open" /\ last[p] = ev
      \/ entry[p].pipe = "open" /\ p \in ended /\ ev - last[p] <= entry[p].restart_cnt
      \/ entry[p].pipe # "open" /\ entry[p].restart_cnt > MaxRestarts

\* The list may name a pid that is no longer the plugin's, because nobody tells it
\* that the plugin was reaped; but only until the next event is offered, which is how
\* long a HUP can go to a wrong process.
PidIsRecent ==
  \A p \in Plugins : (entry[p].pid # 0 /\ ~Own(p, entry[p].pid)) => p \in ended

\* A HUP that does not arrive during a reload makes the list be read again.
HupTakesEffect ==
  hups > loaded ~> (hups = loaded \/ erased)
=============================================================================
