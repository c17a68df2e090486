------------------------ MODULE PluginProcessesProofs ------------------------
(***************************************************************************)
(* Proofs about the processes of the plugins: none is left behind, an      *)
(* event is lost to a restart only if the new process ends as well before  *)
(* it was given the event, and the list is wrong about a pid only until    *)
(* the next event.                                                         *)
(***************************************************************************)
EXTENDS PluginProcesses, TLAPS

PCs == {"start", "wait", "deliver", "rewrite", "load", "reload", "leftover", "clear", "end", "dead"}
Entry == [active : BOOLEAN, pid : Pids \cup {0}, pipe : {"open", "none", "stale"},
          restart_cnt : 0 .. MaxRestarts + 1, inode : Versions \cup {0}]
Proc == [state : {"run", "zombie", "free"}, plugin : Plugins \cup {"none"}, told : BOOLEAN]

\* The types of the list and the processes
ListTypes ==
  /\ dir \in [Plugins -> Versions \cup {0}] /\ tmp \in [Plugins -> Versions \cup {0}]
  /\ entry \in [Plugins -> Entry] /\ proc \in [Pids -> Proc]
  /\ pc \in PCs /\ todo \subseteq Plugins /\ again \subseteq Plugins
  /\ ev \in 0 .. MaxEvents /\ last \in [Plugins -> 0 .. MaxEvents] /\ ended \subseteq Plugins

\* ... and of the rest
CountTypes ==
  /\ disp_hup \in BOOLEAN /\ erased \in BOOLEAN
  /\ hups \in 0 .. MaxHups /\ loaded \in 0 .. hups
  /\ edits \in 0 .. MaxEdits /\ crashes \in 0 .. MaxCrashes /\ forkfails \in 0 .. MaxForkFails

\* What is not in the list has no process; a plugin still to be started is active and new;
\* a plugin still to be reloaded is configured
ListInv ==
  /\ \A p \in Plugins : entry[p].inode = 0 => entry[p].pid = 0 /\ entry[p].active = FALSE
  /\ pc = "start" => \A p \in todo : entry[p].active = TRUE /\ entry[p].pid = 0 /\ entry[p].restart_cnt = 0
                                      /\ entry[p].inode # 0
  /\ pc = "reload" => \A p \in todo : tmp[p] # 0
  /\ \A p \in Plugins : entry[p].pipe = "open" => entry[p].restart_cnt <= MaxRestarts

-----------------------------------------------------------------------------
(* The bounds are natural numbers. *)
LEMMA Bounds ==
  /\ 0 \notin Pids /\ 0 \notin Versions /\ Installed \in Versions
  /\ MaxRestarts \in Nat /\ MaxEvents \in Nat /\ MaxHups \in Nat /\ MaxEdits \in Nat
  /\ MaxCrashes \in Nat /\ MaxForkFails \in Nat
BY Zenon, PluginAssumption DEF PluginAssumption

(* An entry's fields have their types. *)
LEMMA EntryFields ==
  ASSUME ListTypes, NEW p \in Plugins
  PROVE  /\ entry[p] \in Entry /\ entry[p].active \in BOOLEAN /\ entry[p].pid \in Pids \cup {0}
         /\ entry[p].pipe \in {"open", "none", "stale"}
         /\ entry[p].restart_cnt \in 0 .. MaxRestarts + 1 /\ entry[p].inode \in Versions \cup {0}
<1>1. entry[p] \in Entry
  BY Zenon DEF ListTypes
<1>2. /\ entry[p].pid \in Pids \cup {0} /\ entry[p].pipe \in {"open", "none", "stale"}
      /\ entry[p].restart_cnt \in 0 .. MaxRestarts + 1 /\ entry[p].inode \in Versions \cup {0}
  BY <1>1 DEF Entry
<1>3. entry[p].active \in BOOLEAN
  BY <1>1 DEF Entry
<1> QED
  BY Zenon, <1>1, <1>2, <1>3

(* The entry of a plugin that load_pconfig has read. *)
LEMMA LoadedEntry ==
  ASSUME NEW v \in Versions \cup {0}
  PROVE  /\ Loaded(v) \in Entry /\ Loaded(v).active = TRUE /\ Loaded(v).pid = 0
         /\ Loaded(v).pipe = "none" /\ Loaded(v).restart_cnt = 0 /\ Loaded(v).inode = v
         /\ Unlisted \in Entry /\ Unlisted.active = FALSE /\ Unlisted.pid = 0
         /\ Unlisted.pipe = "none" /\ Unlisted.inode = 0
<1>1. /\ Unlisted \in Entry /\ Unlisted.active = FALSE /\ Unlisted.pid = 0
      /\ Unlisted.pipe = "none" /\ Unlisted.inode = 0 /\ Unlisted.restart_cnt = 0
  BY Bounds DEF Unlisted, Entry
<1>2. /\ Loaded(v) \in Entry /\ Loaded(v).active = TRUE /\ Loaded(v).inode = v
      /\ Loaded(v).pid = Unlisted.pid /\ Loaded(v).pipe = Unlisted.pipe
      /\ Loaded(v).restart_cnt = Unlisted.restart_cnt
  BY <1>1 DEF Loaded, Entry
<1> QED
  BY <1>1, <1>2

(* start_one_plugin: too many restarts, a new process, or a fork that failed. *)
LEMMA Started ==
  ASSUME NEW p \in Plugins, NEW e \in Entry, e.pid = 0, NEW processes \in [Pids -> Proc],
         entry \in [Plugins -> Entry], StartOnePlugin(p, e, processes)
  PROVE  /\ entry' \in [Plugins -> Entry] /\ proc' \in [Pids -> Proc] /\ ended' = ended \ {p}
         /\ \A q \in Plugins : q # p => entry'[q] = entry[q]
         /\ entry'[p].inode = e.inode /\ entry'[p].restart_cnt = e.restart_cnt
         /\ \/ /\ e.restart_cnt > MaxRestarts /\ entry'[p] = e /\ proc' = processes
            \/ /\ e.restart_cnt <= MaxRestarts
               /\ entry'[p].active = e.active /\ entry'[p].pipe = "open"
               /\ \E k \in Pids : /\ processes[k].state = "free" /\ entry'[p].pid = k
                                  /\ proc'[k] = [state |-> "run", plugin |-> p, told |-> FALSE]
                                  /\ \A j \in Pids : j # k => proc'[j] = processes[j]
            \/ /\ entry'[p].pid = 0 /\ entry'[p].active = FALSE /\ entry'[p].pipe = "stale"
               /\ proc' = processes
<1>1. ended' = ended \ {p}
  BY Zenon DEF StartOnePlugin
<1>2. CASE e.restart_cnt > MaxRestarts /\ entry' = [entry EXCEPT ![p] = e] /\ proc' = processes
  BY <1>1, <1>2
<1>3. ASSUME NEW k \in Pids, processes[k].state = "free", e.restart_cnt <= MaxRestarts,
             entry' = [entry EXCEPT ![p] = [e EXCEPT !.pid = k, !.pipe = "open"]],
             proc' = [processes EXCEPT ![k] = [state |-> "run", plugin |-> p, told |-> FALSE]]
      PROVE  /\ entry' \in [Plugins -> Entry] /\ proc' \in [Pids -> Proc]
             /\ \A q \in Plugins : q # p => entry'[q] = entry[q]
             /\ entry'[p].inode = e.inode /\ entry'[p].restart_cnt = e.restart_cnt
             /\ entry'[p].active = e.active /\ entry'[p].pipe = "open" /\ entry'[p].pid = k
             /\ proc'[k] = [state |-> "run", plugin |-> p, told |-> FALSE]
             /\ \A j \in Pids : j # k => proc'[j] = processes[j]
  <2> DEFINE f == [e EXCEPT !.pid = k, !.pipe = "open"]
             r == [state |-> "run", plugin |-> p, told |-> FALSE]
  <2>1. /\ f \in Entry /\ f.inode = e.inode /\ f.restart_cnt = e.restart_cnt /\ f.active = e.active
        /\ f.pipe = "open" /\ f.pid = k
    BY DEF Entry
  <2>2. r \in Proc
    BY DEF Proc
  <2>3. entry' = [entry EXCEPT ![p] = f] /\ proc' = [processes EXCEPT ![k] = r]
    BY <1>3
  <2>4. entry'[p] = f /\ proc'[k] = r
    <3> HIDE DEF f, r
    <3> QED
      BY <2>3
  <2>5. entry' \in [Plugins -> Entry] /\ proc' \in [Pids -> Proc]
    <3> HIDE DEF f, r
    <3> QED
      BY <2>1, <2>2, <2>3
  <2>6. (\A q \in Plugins : q # p => entry'[q] = entry[q]) /\ (\A j \in Pids : j # k => proc'[j] = processes[j])
    <3> HIDE DEF f, r
    <3> QED
      BY <2>3
  <2> QED
    BY <2>1, <2>4, <2>5, <2>6
<1>4. CASE /\ proc' = processes
           /\ entry' = [entry EXCEPT ![p] = [e EXCEPT !.pid = 0, !.pipe = "stale", !.active = FALSE]]
  <2> DEFINE f == [e EXCEPT !.pid = 0, !.pipe = "stale", !.active = FALSE]
  <2>1. /\ f \in Entry /\ f.inode = e.inode /\ f.restart_cnt = e.restart_cnt /\ f.active = FALSE
        /\ f.pipe = "stale" /\ f.pid = 0
    BY DEF Entry
  <2>2. entry' = [entry EXCEPT ![p] = f]
    BY <1>4
  <2> HIDE DEF f
  <2>3. entry'[p] = f /\ (\A q \in Plugins : q # p => entry'[q] = entry[q]) /\ entry' \in [Plugins -> Entry]
    BY <2>1, <2>2
  <2> QED
    BY <1>1, <1>4, <2>1, <2>3
<1>5. CASE \E k \in {k \in Pids : processes[k].state = "free"} :
             /\ e.restart_cnt <= MaxRestarts
             /\ entry' = [entry EXCEPT ![p] = [e EXCEPT !.pid = k, !.pipe = "open"]]
             /\ proc' = [processes EXCEPT ![k] = [state |-> "run", plugin |-> p, told |-> FALSE]]
  <2>1. PICK k \in {k \in Pids : processes[k].state = "free"} :
             /\ e.restart_cnt <= MaxRestarts
             /\ entry' = [entry EXCEPT ![p] = [e EXCEPT !.pid = k, !.pipe = "open"]]
             /\ proc' = [processes EXCEPT ![k] = [state |-> "run", plugin |-> p, told |-> FALSE]]
    BY Zenon, <1>5
  <2>2. k \in Pids /\ processes[k].state = "free"
    BY Zenon
  <2> QED
    BY Zenon, <1>1, <1>3, <2>1, <2>2
<1> QED
  BY Zenon, <1>2, <1>4, <1>5 DEF StartOnePlugin

(* A process's fields have their types. *)
LEMMA ProcFields ==
  ASSUME ListTypes, NEW k \in Pids
  PROVE  /\ proc[k] \in Proc /\ proc[k].state \in {"run", "zombie", "free"}
         /\ proc[k].plugin \in Plugins \cup {"none"} /\ proc[k].told \in BOOLEAN
<1>1. proc[k] \in Proc
  BY Zenon DEF ListTypes
<1> QED
  BY <1>1 DEF Proc

\* A process that runs and was not told to end
Untold(k) == proc[k].state = "run" /\ proc[k].told = FALSE

\* NoStrayProcess, and when the thread has ended there is no such process at all
StrayInv ==
  /\ \A k \in Pids : Untold(k) =>
       \E p \in Plugins : proc[k].plugin = p /\ entry[p].pid = k /\ entry[p].active = TRUE
  /\ pc = "dead" => \A k \in Pids : ~Untold(k)

\* The processes after some were told to end
Told(processes) ==
  /\ processes \in [Pids -> Proc]
  /\ \A k \in Pids : /\ processes[k].state = proc[k].state /\ processes[k].plugin = proc[k].plugin
                      /\ (processes[k].told = FALSE => proc[k].told = FALSE)

\* The actions that call start_one_plugin
Launch(p) == StartPlugin(p) \/ RestartPlugin(p) \/ ReloadNew(p) \/ ReloadChanged(p) \/ ReloadAgain(p)

\* What they pass to it
Prepared(p, e, processes) ==
  /\ StartOnePlugin(p, e, processes) /\ e \in Entry /\ Told(processes)
  /\ e.pid = 0 /\ e.active = TRUE /\ e.inode # 0
  /\ e.restart_cnt > MaxRestarts => e.pipe # "open"
  /\ \A k \in Pids : processes[k].state = "run" /\ processes[k].told = FALSE => proc[k].plugin # p

(* kill and close tell processes to end, and the one with the given pid in any case. *)
LEMMA KillTells ==
  ASSUME ListTypes, NEW p \in Plugins, NEW k \in Pids \cup {0}
  PROVE  LET after == ClosePipe(Kill(proc, k), p, entry[p])
         IN  Told(after) /\ (k # 0 /\ proc[k].state = "run" => after[k].told = TRUE)
<1> DEFINE killed == Kill(proc, k)
           after == ClosePipe(killed, p, entry[p])
<1>1. proc \in [Pids -> Proc]
  BY Zenon DEF ListTypes
<1>2. Told(killed) /\ (k # 0 /\ proc[k].state = "run" => killed[k].told = TRUE)
  <2>1. CASE k # 0 /\ proc[k].state = "run"
    <3> DEFINE r == [proc[k] EXCEPT !.told = TRUE]
    <3>1. k \in Pids /\ proc[k] \in Proc
      BY <1>1, <2>1
    <3>2. r \in Proc /\ r.told = TRUE /\ r.state = proc[k].state /\ r.plugin = proc[k].plugin
      BY <3>1 DEF Proc
    <3>3. killed = [proc EXCEPT ![k] = r]
      BY <1>1, <2>1, <3>1 DEF Kill
    <3> HIDE DEF r, killed
    <3>4. killed[k] = r /\ (\A j \in Pids : j # k => killed[j] = proc[j]) /\ killed \in [Pids -> Proc]
      BY <1>1, <3>1, <3>2, <3>3
    <3>5. ASSUME NEW j \in Pids
          PROVE  /\ killed[j].state = proc[j].state /\ killed[j].plugin = proc[j].plugin
                 /\ killed[j].told = FALSE => proc[j].told = FALSE
      BY <3>2, <3>4
    <3> QED
      BY <3>2, <3>4, <3>5 DEF Told
  <2>2. CASE ~(k # 0 /\ proc[k].state = "run")
    BY <1>1, <2>2 DEF Kill, Told
  <2> QED
    BY <2>1, <2>2
<1> HIDE DEF killed
<1>3. ASSUME NEW j \in Pids
      PROVE  /\ after[j] \in Proc /\ after[j].state = killed[j].state /\ after[j].plugin = killed[j].plugin
             /\ after[j].told = killed[j].told \/ after[j].told = TRUE
  <2>1. killed[j] \in Proc
    BY <1>2 DEF Told
  <2>2. after[j] = killed[j] \/ after[j] = [killed[j] EXCEPT !.told = TRUE]
    BY DEF ClosePipe
  <2> HIDE DEF after
  <2> QED
    BY <2>1, <2>2 DEF Proc
<1>4. after \in [Pids -> Proc]
  <2>1. after = [j \in Pids |-> after[j]]
    BY DEF ClosePipe
  <2> HIDE DEF after
  <2> QED
    BY <1>3, <2>1
<1> HIDE DEF after
<1>5. Told(after)
  BY <1>2, <1>3, <1>4 DEF Told
<1>6. ASSUME k # 0, proc[k].state = "run" PROVE after[k].told = TRUE
  <2>1. k \in Pids
    BY <1>6
  <2> QED
    BY <1>2, <1>3, <1>6, <2>1
<1> QED
  BY Zenon, <1>5, <1>6 DEF after, killed

(* Every caller of start_one_plugin has seen to it that the plugin has no process left. *)
LEMMA Launches ==
  ASSUME ListTypes, ListInv, StrayInv, NEW p \in Plugins, Launch(p)
  PROVE  \E e, processes : Prepared(p, e, processes)
<1>0. Told(proc)
  BY DEF Told, ListTypes
<1>1. entry[p] \in Entry /\ entry[p].pid \in Pids \cup {0} /\ entry[p].active \in BOOLEAN
      /\ entry[p].restart_cnt \in 0 .. MaxRestarts + 1
  BY Zenon, EntryFields
<1>2. \A k \in Pids : Untold(k) /\ proc[k].plugin = p => entry[p].pid = k /\ entry[p].active = TRUE
  BY DEF StrayInv
<1>3. entry[p].pid = 0 \/ entry[p].active = FALSE => \A k \in Pids : Untold(k) => proc[k].plugin # p
  BY <1>2, Bounds
<1>4. CASE StartPlugin(p)
  <2>1. StartOnePlugin(p, entry[p], proc) /\ pc = "start" /\ p \in todo
    BY Zenon, <1>4 DEF StartPlugin
  <2>2. entry[p].active = TRUE /\ entry[p].pid = 0 /\ entry[p].restart_cnt = 0 /\ entry[p].inode # 0
    BY <2>1 DEF ListInv
  <2>3. Prepared(p, entry[p], proc)
    BY <1>0, <1>1, <1>3, <2>1, <2>2, Bounds DEF Prepared, Untold
  <2> QED
    BY Zenon, <2>3
<1>5. CASE RestartPlugin(p)
  <2> DEFINE e == [entry[p] EXCEPT !.pid = 0, !.pipe = "none", !.restart_cnt = @ + 1]
  <2>1. StartOnePlugin(p, e, proc) /\ entry[p].active /\ entry[p].pipe = "open" /\ ~Alive(p)
    BY Zenon, <1>5 DEF RestartPlugin
  <2>2. entry[p].active = TRUE /\ entry[p].restart_cnt <= MaxRestarts /\ entry[p].inode # 0
    <3>1. entry[p].active = TRUE
      BY Zenon, <1>1, <2>1
    <3> QED
      BY <2>1, <3>1 DEF ListInv
  <2>3. e \in Entry /\ e.pid = 0 /\ e.active = TRUE /\ e.inode # 0 /\ e.pipe = "none"
    <3>1. entry[p].restart_cnt + 1 \in 0 .. MaxRestarts + 1
      BY <1>1, <2>2, Bounds
    <3>2. e = [entry[p] EXCEPT !.pid = 0, !.pipe = "none", !.restart_cnt = entry[p].restart_cnt + 1]
      BY <1>1 DEF Entry
    <3> DEFINE n == entry[p].restart_cnt + 1
    <3>3. e = [entry[p] EXCEPT !.pid = 0, !.pipe = "none", !.restart_cnt = n]
      BY <3>2
    <3>4. n \in 0 .. MaxRestarts + 1
      BY <3>1
    <3> HIDE DEF n, e
    <3> QED
      BY <1>1, <2>2, <3>3, <3>4 DEF Entry
  <2>4. \A k \in Pids : Untold(k) => proc[k].plugin # p
    BY <1>2, <2>1, Bounds DEF Alive, Untold
  <2> HIDE DEF e
  <2>5. Prepared(p, e, proc)
    BY <1>0, <2>1, <2>3, <2>4 DEF Prepared, Untold
  <2> QED
    BY Zenon, <2>5
<1>6. CASE ReloadNew(p) \/ ReloadAgain(p)
  <2>1. StartOnePlugin(p, Loaded(tmp[p]), proc) /\ pc = "reload" /\ p \in todo
    BY Zenon, <1>6 DEF ReloadNew, ReloadAgain, Checked
  <2>2. entry[p].pid = 0 \/ entry[p].active = FALSE
    <3>1. entry[p].inode = 0 \/ entry[p].active = FALSE
      BY Zenon, <1>1, <1>6 DEF ReloadNew, ReloadAgain
    <3> QED
      BY <3>1 DEF ListInv
  <2>3. tmp[p] \in Versions \cup {0} /\ tmp[p] # 0
    BY <2>1 DEF ListTypes, ListInv
  <2>4. /\ Loaded(tmp[p]) \in Entry /\ Loaded(tmp[p]).active = TRUE /\ Loaded(tmp[p]).pid = 0
        /\ Loaded(tmp[p]).pipe = "none" /\ Loaded(tmp[p]).inode = tmp[p]
    BY <2>3, LoadedEntry
  <2>5. Prepared(p, Loaded(tmp[p]), proc)
    BY <1>0, <1>3, <2>1, <2>2, <2>3, <2>4 DEF Prepared, Untold
  <2> QED
    BY Zenon, <2>5
<1>7. CASE ReloadChanged(p)
  <2> DEFINE e == [entry[p] EXCEPT !.pid = 0, !.pipe = "none", !.inode = tmp[p]]
             after == ClosePipe(Kill(proc, entry[p].pid), p, entry[p])
  <2>1. StartOnePlugin(p, e, after) /\ entry[p].active /\ pc = "reload" /\ p \in todo
    BY Zenon, <1>7 DEF ReloadChanged, Checked
  <2>2. entry[p].active = TRUE
    BY Zenon, <1>1, <2>1
  <2>3. tmp[p] \in Versions \cup {0} /\ tmp[p] # 0
    BY <2>1 DEF ListTypes, ListInv
  <2>4. e \in Entry /\ e.pid = 0 /\ e.active = TRUE /\ e.inode # 0 /\ e.pipe = "none"
    BY <1>1, <2>2, <2>3 DEF Entry
  <2>5. Told(after) /\ (entry[p].pid # 0 /\ proc[entry[p].pid].state = "run" => after[entry[p].pid].told = TRUE)
    BY Zenon, <1>1, KillTells
  <2> HIDE DEF e, after
  <2>6. ASSUME NEW k \in Pids, after[k].state = "run", after[k].told = FALSE PROVE proc[k].plugin # p
    <3>0. /\ after[k].state = proc[k].state
          /\ after[k].told = FALSE => proc[k].told = FALSE
      BY Zenon, <2>5 DEF Told
    <3>1. Untold(k)
      BY <2>6, <3>0 DEF Untold
    <3>2. SUFFICES ASSUME proc[k].plugin = p PROVE FALSE
      OBVIOUS
    <3>3. entry[p].pid = k /\ k # 0
      BY <1>2, <3>1, <3>2, Bounds
    <3> QED
      BY <2>5, <2>6, <3>1, <3>3 DEF Untold
  <2>7. Prepared(p, e, after)
    BY <2>1, <2>4, <2>5, <2>6 DEF Prepared
  <2> QED
    BY Zenon, <2>7
<1> QED
  BY Zenon, <1>4, <1>5, <1>6, <1>7 DEF Launch

\* What comes of it: the plugin has a new process, or none
Launched(p) ==
  /\ entry' \in [Plugins -> Entry] /\ proc' \in [Pids -> Proc] /\ ended' = ended \ {p}
  /\ \A q \in Plugins : q # p => entry'[q] = entry[q]
  /\ entry'[p].inode # 0
  /\ entry'[p].pid = 0 => entry'[p].pipe # "open"
  /\ \/ entry'[p].pid = 0
     \/ /\ entry'[p].pid \in Pids /\ entry'[p].active = TRUE /\ proc[entry'[p].pid].state = "free"
        /\ proc'[entry'[p].pid] = [state |-> "run", plugin |-> p, told |-> FALSE]
  /\ \A k \in Pids : k # entry'[p].pid =>
       /\ proc'[k].state = proc[k].state /\ proc'[k].plugin = proc[k].plugin
       /\ proc'[k].state = "run" /\ proc'[k].told = FALSE => proc[k].told = FALSE /\ proc[k].plugin # p
  /\ entry'[p].pipe = "open" => entry'[p].restart_cnt <= MaxRestarts
  /\ entry'[p].active = TRUE /\ entry'[p].pipe # "open" => entry'[p].restart_cnt > MaxRestarts

(* The effect of every call of start_one_plugin. *)
LEMMA LaunchEffect ==
  ASSUME ListTypes, ListInv, StrayInv, NEW p \in Plugins, Launch(p)
  PROVE  Launched(p)
<1>1. PICK e, processes : Prepared(p, e, processes)
  BY Zenon, Launches
<1>2. /\ e \in Entry /\ e.pid = 0 /\ processes \in [Pids -> Proc] /\ entry \in [Plugins -> Entry]
      /\ StartOnePlugin(p, e, processes)
  BY Zenon, <1>1 DEF Prepared, Told, ListTypes
<1>3. /\ entry' \in [Plugins -> Entry] /\ proc' \in [Pids -> Proc] /\ ended' = ended \ {p}
      /\ \A q \in Plugins : q # p => entry'[q] = entry[q]
      /\ entry'[p].inode = e.inode /\ entry'[p].restart_cnt = e.restart_cnt
  BY Zenon, <1>2, Started
<1>4. /\ e.active = TRUE /\ e.inode # 0 /\ (e.restart_cnt > MaxRestarts => e.pipe # "open")
      /\ \A k \in Pids : processes[k].state = proc[k].state /\ processes[k].plugin = proc[k].plugin
                         /\ (processes[k].told = FALSE => proc[k].told = FALSE)
      /\ \A k \in Pids : processes[k].state = "run" /\ processes[k].told = FALSE => proc[k].plugin # p
  <2>1. e.active = TRUE /\ e.inode # 0 /\ (e.restart_cnt > MaxRestarts => e.pipe # "open")
    BY <1>1 DEF Prepared
  <2>2. \A k \in Pids : processes[k].state = "run" /\ processes[k].told = FALSE => proc[k].plugin # p
    BY Zenon, <1>1 DEF Prepared
  <2>3. Told(processes)
    BY Zenon, <1>1 DEF Prepared
  <2>4. \A k \in Pids : processes[k].state = proc[k].state /\ processes[k].plugin = proc[k].plugin
                         /\ (processes[k].told = FALSE => proc[k].told = FALSE)
    BY Zenon, <2>3 DEF Told
  <2> QED
    BY Zenon, <2>1, <2>2, <2>4
<1>5. e.restart_cnt \in Nat
  BY <1>2, Bounds DEF Entry
<1>6. CASE e.restart_cnt > MaxRestarts /\ entry'[p] = e /\ proc' = processes
  BY <1>2, <1>3, <1>4, <1>5, <1>6, Bounds DEF Launched
<1>7. CASE /\ e.restart_cnt <= MaxRestarts
           /\ entry'[p].active = e.active /\ entry'[p].pipe = "open"
           /\ \E k \in Pids : /\ processes[k].state = "free" /\ entry'[p].pid = k
                              /\ proc'[k] = [state |-> "run", plugin |-> p, told |-> FALSE]
                              /\ \A j \in Pids : j # k => proc'[j] = processes[j]
  BY <1>3, <1>4, <1>7, Bounds DEF Launched
<1>8. CASE entry'[p].pid = 0 /\ entry'[p].active = FALSE /\ entry'[p].pipe = "stale" /\ proc' = processes
  BY <1>3, <1>4, <1>8 DEF Launched
<1>9. \/ /\ e.restart_cnt > MaxRestarts /\ entry'[p] = e /\ proc' = processes
      \/ /\ e.restart_cnt <= MaxRestarts
         /\ entry'[p].active = e.active /\ entry'[p].pipe = "open"
         /\ \E k \in Pids : /\ processes[k].state = "free" /\ entry'[p].pid = k
                            /\ proc'[k] = [state |-> "run", plugin |-> p, told |-> FALSE]
                            /\ \A j \in Pids : j # k => proc'[j] = processes[j]
      \/ /\ entry'[p].pid = 0 /\ entry'[p].active = FALSE /\ entry'[p].pipe = "stale"
         /\ proc' = processes
  BY Zenon, <1>2, Started
<1> QED
  BY Zenon, <1>6, <1>7, <1>8, <1>9

\* The rest of what they do
LaunchFrame(p) ==
  /\ p \in todo /\ todo' = todo \ {p} /\ pc' \in PCs /\ pc' # "dead"
  /\ dir' = dir /\ tmp' = tmp /\ ev' = ev
  /\ disp_hup' = disp_hup /\ erased' = erased /\ hups' = hups /\ loaded' = loaded
  /\ edits' = edits /\ crashes' = crashes
  /\ \/ /\ pc \in {"start", "reload"} /\ again' = again
        /\ pc' # pc => todo' = {} /\ pc' \in {"wait", "leftover"}
        /\ last' = [last EXCEPT ![p] = ev]
     \/ pc = "deliver" /\ pc' = "rewrite" /\ again' = {p} /\ last' = last

(* The rest of what a caller of start_one_plugin does. *)
LEMMA LaunchFrames ==
  ASSUME NEW p \in Plugins, Launch(p)
  PROVE  LaunchFrame(p)
<1>1. CASE StartPlugin(p)
  BY <1>1 DEF StartPlugin, FromNowOn, LaunchFrame, PCs
<1>2. CASE RestartPlugin(p)
  BY <1>2 DEF RestartPlugin, LaunchFrame, PCs
<1>3. CASE ReloadNew(p) \/ ReloadChanged(p) \/ ReloadAgain(p)
  <2>1. Checked(p) /\ FromNowOn(p)
    BY Zenon, <1>3 DEF ReloadNew, ReloadChanged, ReloadAgain
  <2> QED
    BY <2>1 DEF Checked, FromNowOn, LaunchFrame, PCs
<1> QED
  BY Zenon, <1>1, <1>2, <1>3 DEF Launch

(* A step that tells some processes to end changes nothing else about them. *)
LEMMA TellsSome ==
  ASSUME ListTypes, NEW S \in SUBSET Pids,
         proc' = [k \in Pids |-> IF k \in S THEN [proc[k] EXCEPT !.told = TRUE] ELSE proc[k]]
  PROVE  /\ proc' \in [Pids -> Proc]
         /\ \A k \in Pids : /\ proc'[k].state = proc[k].state /\ proc'[k].plugin = proc[k].plugin
                            /\ (proc'[k].told = FALSE => k \notin S /\ proc[k].told = FALSE)
<1>1. ASSUME NEW k \in Pids
      PROVE  /\ proc'[k] \in Proc /\ proc'[k].state = proc[k].state /\ proc'[k].plugin = proc[k].plugin
             /\ (proc'[k].told = FALSE => k \notin S /\ proc[k].told = FALSE)
  <2> DEFINE r == [proc[k] EXCEPT !.told = TRUE]
  <2>1. proc[k] \in Proc
    BY Zenon DEF ListTypes
  <2>2. r \in Proc /\ r.told = TRUE /\ r.state = proc[k].state /\ r.plugin = proc[k].plugin
    BY <2>1 DEF Proc
  <2>3. proc'[k] = IF k \in S THEN r ELSE proc[k]
    OBVIOUS
  <2> HIDE DEF r
  <2> QED
    BY <2>1, <2>2, <2>3
<1>2. proc' \in [Pids -> Proc]
  <2>1. proc' = [k \in Pids |-> proc'[k]]
    OBVIOUS
  <2> QED
    BY <1>1, <2>1
<1> QED
  BY <1>1, <1>2

\* The plugins that are no longer configured
Gone == {p \in Listed : tmp[p] = 0}

(* What the end of a reload does to the processes. *)
LEMMA LeftoverTells ==
  ASSUME ListTypes, Leftover
  PROVE  /\ proc' \in [Pids -> Proc]
         /\ \A k \in Pids : /\ proc'[k].state = proc[k].state /\ proc'[k].plugin = proc[k].plugin
                            /\ (proc'[k].state = "run" /\ proc'[k].told = FALSE =>
                                  proc[k].told = FALSE /\ (\A p \in Gone : entry[p].pid # k))
<1> DEFINE S == {k \in Pids : proc[k].state = "run" /\ \E p \in Gone : entry[p].pid = k}
<1>1. proc' = [k \in Pids |-> IF k \in S THEN [proc[k] EXCEPT !.told = TRUE] ELSE proc[k]]
  BY DEF Leftover, Gone
<1>2. /\ proc' \in [Pids -> Proc]
      /\ \A k \in Pids : /\ proc'[k].state = proc[k].state /\ proc'[k].plugin = proc[k].plugin
                         /\ (proc'[k].told = FALSE => k \notin S /\ proc[k].told = FALSE)
  <2>1. S \in SUBSET Pids
    OBVIOUS
  <2> HIDE DEF S
  <2> QED
    BY Zenon, <1>1, <2>1, TellsSome
<1> QED
  BY <1>2

(* ... and to the list. *)
LEMMA LeftoverList ==
  ASSUME ListTypes, Leftover
  PROVE  /\ entry' \in [Plugins -> Entry]
         /\ \A p \in Plugins : p \notin Gone => entry'[p] = entry[p]
         /\ \A p \in Gone : /\ entry'[p].active = FALSE /\ entry'[p].pid = 0 /\ entry'[p].pipe = "none"
                             /\ entry'[p].inode = entry[p].inode
<1>1. entry' = [p \in Plugins |->
        IF p \in Gone THEN [entry[p] EXCEPT !.active = FALSE, !.pipe = "none", !.pid = 0] ELSE entry[p]]
  BY DEF Leftover, Gone
<1>2. ASSUME NEW p \in Plugins
      PROVE  /\ entry'[p] \in Entry
             /\ p \notin Gone => entry'[p] = entry[p]
             /\ p \in Gone => /\ entry'[p].active = FALSE /\ entry'[p].pid = 0 /\ entry'[p].pipe = "none"
                               /\ entry'[p].inode = entry[p].inode
  <2> DEFINE f == [entry[p] EXCEPT !.active = FALSE, !.pipe = "none", !.pid = 0]
  <2>1. entry[p] \in Entry
    BY Zenon DEF ListTypes
  <2>2. f \in Entry /\ f.active = FALSE /\ f.pid = 0 /\ f.pipe = "none" /\ f.inode = entry[p].inode
    BY <2>1 DEF Entry
  <2>3. entry'[p] = IF p \in Gone THEN f ELSE entry[p]
    BY <1>1
  <2> HIDE DEF f
  <2> QED
    BY <2>1, <2>2, <2>3
<1>3. Gone \subseteq Plugins
  BY DEF Gone, Listed
<1>4. entry' \in [Plugins -> Entry]
  <2>1. entry' = [p \in Plugins |-> entry'[p]]
    BY <1>1
  <2> QED
    BY <1>2, <2>1
<1> QED
  BY <1>2, <1>3, <1>4

(* Both have their types. *)
LEMMA LeftoverTypes ==
  ASSUME ListTypes, Leftover PROVE entry' \in [Plugins -> Entry] /\ proc' \in [Pids -> Proc]
BY Zenon, LeftoverTells, LeftoverList

(* The end of the thread tells every process that an entry names to end. *)
LEMMA EndTells ==
  ASSUME ListTypes, EndThread
  PROVE  /\ proc' \in [Pids -> Proc]
         /\ \A k \in Pids : /\ proc'[k].state = proc[k].state /\ proc'[k].plugin = proc[k].plugin
                            /\ (proc'[k].state = "run" /\ proc'[k].told = FALSE =>
                                  proc[k].told = FALSE /\ (\A p \in Plugins : entry[p].pid # k))
<1> DEFINE S == {k \in Pids : proc[k].state = "run" /\ \E p \in Plugins : entry[p].pid = k}
<1>1. proc' = [k \in Pids |-> IF k \in S THEN [proc[k] EXCEPT !.told = TRUE] ELSE proc[k]]
  BY DEF EndThread
<1>2. /\ proc' \in [Pids -> Proc]
      /\ \A k \in Pids : /\ proc'[k].state = proc[k].state /\ proc'[k].plugin = proc[k].plugin
                         /\ (proc'[k].told = FALSE => k \notin S /\ proc[k].told = FALSE)
  <2>1. S \in SUBSET Pids
    OBVIOUS
  <2> HIDE DEF S
  <2> QED
    BY Zenon, <1>1, <2>1, TellsSome
<1> QED
  BY <1>2

(* A process that ends is a zombie, and the others are as before. *)
LEMMA EndsEffect ==
  ASSUME ListTypes, NEW k \in Pids, PluginEnds(k)
  PROVE  /\ proc' \in [Pids -> Proc] /\ proc'[k].state = "zombie" /\ proc'[k].plugin = proc[k].plugin
         /\ \A j \in Pids : j # k => proc'[j] = proc[j]
<1> DEFINE r == [proc[k] EXCEPT !.state = "zombie"]
<1>1. proc[k] \in Proc /\ proc \in [Pids -> Proc]
  BY Zenon DEF ListTypes
<1>2. r \in Proc /\ r.state = "zombie" /\ r.plugin = proc[k].plugin
  BY <1>1 DEF Proc
<1>3. proc' = [proc EXCEPT ![k] = r]
  BY <1>1 DEF PluginEnds
<1> HIDE DEF r
<1> QED
  BY <1>1, <1>2, <1>3

(* Every step keeps the types of the list and of the processes. *)
LEMMA ListTypesStep ==
  ASSUME ListTypes, ListInv, StrayInv, [Next]_vars
  PROVE  ListTypes'
<1>1. CASE LibdispInit
  <2>1. /\ proc' = proc /\ dir' = dir /\ tmp' = dir /\ ended' = ended /\ ev' = ev /\ last' = last /\ again' = again
        /\ todo' = {p \in Plugins : dir[p] # 0}
        /\ entry' = [p \in Plugins |-> IF dir[p] # 0 THEN Loaded(dir[p]) ELSE Unlisted]
        /\ pc' \in {"dead", "start"}
    BY <1>1 DEF LibdispInit, history
  <2>2. ASSUME NEW p \in Plugins PROVE Loaded(dir[p]) \in Entry /\ Unlisted \in Entry
    <3>1. dir[p] \in Versions \cup {0}
      BY DEF ListTypes
    <3> QED
      BY Zenon, <3>1, LoadedEntry
  <2>3. entry' \in [Plugins -> Entry]
    BY <2>1, <2>2
  <2> QED
    BY <2>1, <2>3 DEF ListTypes, PCs
<1>2. CASE \E p \in Plugins : Launch(p)
  <2>1. PICK p \in Plugins : Launch(p)
    BY Zenon, <1>2
  <2>2. Launched(p) /\ LaunchFrame(p)
    BY Zenon, <2>1, LaunchEffect, LaunchFrames
  <2>3. /\ entry' \in [Plugins -> Entry] /\ proc' \in [Pids -> Proc] /\ ended' = ended \ {p}
    BY Zenon, <2>2 DEF Launched
  <2>4. /\ todo' \subseteq todo /\ pc' \in PCs /\ dir' = dir /\ tmp' = tmp /\ ev' = ev
        /\ again' = again \/ again' = {p}
        /\ last' = [last EXCEPT ![p] = ev] \/ last' = last
    BY <2>2 DEF LaunchFrame
  <2> QED
    BY <2>3, <2>4 DEF ListTypes
<1>3. CASE TakeEvent
  BY <1>3, Bounds DEF TakeEvent, ListTypes, Listed, PCs, history
<1>4. CASE WokenForHup
  BY <1>4 DEF WokenForHup, ListTypes, PCs, history
<1>5. CASE \E p \in Plugins : Passed(p)
  BY <1>5 DEF Passed, Visited, ListTypes, PCs, history
<1>6. CASE \E p \in Plugins : WriteToPlugin(p)
  BY <1>6 DEF WriteToPlugin, Visited, ListTypes, PCs
<1>7. CASE LoadPluginConf
  BY <1>7 DEF LoadPluginConf, ListTypes, PCs, history
<1>8. CASE \E p \in Plugins : ReloadSame(p)
  BY <1>8 DEF ReloadSame, Checked, ListTypes, PCs, history
<1>9. CASE Leftover
  <2>1. /\ dir' = dir /\ tmp' = tmp /\ ended' = ended /\ ev' = ev /\ last' = last /\ again' = again /\ todo' = todo
        /\ pc' \in {"clear", "end"}
    BY <1>9 DEF Leftover, history
  <2>2. entry' \in [Plugins -> Entry] /\ proc' \in [Pids -> Proc]
    BY Zenon, <1>9, LeftoverTypes
  <2> QED
    BY <2>1, <2>2 DEF ListTypes, PCs
<1>10. CASE ClearHup
  BY <1>10 DEF ClearHup, ListTypes, PCs, history
<1>11. CASE EndThread
  <2>1. /\ dir' = dir /\ tmp' = tmp /\ ended' = ended /\ ev' = ev /\ last' = last /\ again' = again /\ todo' = todo
        /\ pc' = "dead" /\ entry' = [p \in Plugins |-> Unlisted]
    BY <1>11 DEF EndThread, history
  <2>2. Unlisted \in Entry
    BY Bounds DEF Unlisted, Entry
  <2>3. proc' \in [Pids -> Proc]
    BY Zenon, <1>11, EndTells
  <2> QED
    BY <2>1, <2>2, <2>3 DEF ListTypes, PCs
<1>12. CASE Hup
  BY <1>12 DEF Hup, ListTypes, history
<1>13. CASE \E p \in Plugins : Edit(p)
  BY <1>13 DEF Edit, ListTypes, history
<1>14. CASE \E k \in Pids : PluginEnds(k)
  <2>1. PICK k \in Pids : PluginEnds(k)
    BY Zenon, <1>14
  <2>2. /\ dir' = dir /\ tmp' = tmp /\ entry' = entry /\ ev' = ev /\ last' = last /\ again' = again /\ todo' = todo /\ pc' = pc
        /\ ended' = ended \cup {p \in Plugins : p = proc[k].plugin /\ entry[p].pid = k}
    BY <2>1 DEF PluginEnds
  <2>3. proc' \in [Pids -> Proc]
    BY Zenon, <2>1, EndsEffect
  <2> QED
    BY <2>2, <2>3 DEF ListTypes
<1>15. CASE \E k \in Pids : Reap(k)
  <2>1. PICK k \in Pids : Reap(k)
    BY Zenon, <1>15
  <2>2. Free \in Proc
    BY DEF Free, Proc
  <2> QED
    BY <2>1, <2>2 DEF Reap, ListTypes, history
<1>16. CASE UNCHANGED vars
  BY <1>16 DEF vars, history, ListTypes
<1>17. CASE \E p \in Plugins : WriteAgain(p)
  <2>1. PICK p \in Plugins : WriteAgain(p)
    BY Zenon, <1>17
  <2>2. /\ todo' \subseteq todo /\ again' = {} /\ pc' \in PCs
        /\ UNCHANGED <<dir, tmp, entry, proc, ev, ended>>
    BY <2>1 DEF WriteAgain, Visited, PCs
  <2>3. last' = [last EXCEPT ![p] = ev] \/ last' = last
    BY <2>1 DEF WriteAgain
  <2> QED
    BY <2>2, <2>3 DEF ListTypes
<1> QED
  BY Zenon, <1>1, <1>2, <1>3, <1>4, <1>5, <1>6, <1>7, <1>8,
     <1>9, <1>10, <1>11, <1>12, <1>13, <1>14, <1>15, <1>16, <1>17 DEF Next, Launch

(* Every step keeps the types of the flags and the counters. *)
LEMMA CountTypesStep ==
  ASSUME ListTypes, CountTypes, [Next]_vars
  PROVE  CountTypes'
<1>1. CASE LibdispInit
  BY <1>1, Bounds DEF LibdispInit, CountTypes, bounds
<1>2. CASE \E p \in Plugins : Launch(p)
  <2>1. PICK p \in Plugins : Launch(p)
    BY Zenon, <1>2
  <2>2. LaunchFrame(p)
    BY Zenon, <2>1, LaunchFrames
  <2>3. forkfails' = forkfails \/ (forkfails < MaxForkFails /\ forkfails' = forkfails + 1)
    BY Zenon, <2>1 DEF Launch, StartPlugin, RestartPlugin, ReloadNew, ReloadChanged, ReloadAgain, StartOnePlugin
  <2>4. forkfails' \in 0 .. MaxForkFails
    BY <2>3, Bounds DEF CountTypes
  <2> QED
    BY Zenon, <2>2, <2>4 DEF LaunchFrame, CountTypes
<1>3. CASE TakeEvent
  BY Zenon, <1>3 DEF TakeEvent, Visited, Checked, CountTypes, bounds, vars
<1>4. CASE WokenForHup
  BY Zenon, <1>4 DEF WokenForHup, Visited, Checked, CountTypes, bounds, vars
<1>5. CASE \E p \in Plugins : Passed(p)
  BY Zenon, <1>5 DEF Passed, Visited, Checked, CountTypes, bounds, vars
<1>6. CASE \E p \in Plugins : WriteToPlugin(p)
  BY Zenon, <1>6 DEF WriteToPlugin, Visited, Checked, CountTypes, bounds, vars
<1>7. CASE LoadPluginConf
  BY <1>7, Bounds DEF LoadPluginConf, CountTypes, bounds
<1>8. CASE \E p \in Plugins : ReloadSame(p)
  BY Zenon, <1>8 DEF ReloadSame, Visited, Checked, CountTypes, bounds, vars
<1>9. CASE Leftover
  BY Zenon, <1>9 DEF Leftover, Visited, Checked, CountTypes, bounds, vars
<1>10. CASE ClearHup
  BY <1>10 DEF ClearHup, CountTypes, bounds
<1>11. CASE EndThread
  BY Zenon, <1>11 DEF EndThread, Visited, Checked, CountTypes, bounds, vars
<1>12. CASE Hup
  <2>1. hups' \in 0 .. MaxHups /\ loaded' \in 0 .. hups' /\ UNCHANGED bounds
    BY <1>12, Bounds DEF Hup, CountTypes
  <2>2. disp_hup' \in BOOLEAN /\ erased' \in BOOLEAN
    BY Zenon, <1>12 DEF Hup, CountTypes
  <2>3. UNCHANGED <<edits, crashes, forkfails>>
    BY Zenon, <2>1 DEF bounds
  <2> QED
    BY Zenon, <2>1, <2>2, <2>3 DEF CountTypes
<1>13. CASE \E p \in Plugins : Edit(p)
  BY <1>13, Bounds DEF Edit, CountTypes
<1>14. CASE \E k \in Pids : PluginEnds(k)
  <2>1. PICK k \in Pids : PluginEnds(k)
    BY Zenon, <1>14
  <2>2. crashes' = crashes \/ (crashes < MaxCrashes /\ crashes' = crashes + 1)
    BY Zenon, <2>1 DEF PluginEnds
  <2>3. crashes' \in 0 .. MaxCrashes
    BY <2>2, Bounds DEF CountTypes
  <2> QED
    BY Zenon, <2>1, <2>3 DEF PluginEnds, CountTypes
<1>15. CASE \E k \in Pids : Reap(k)
  BY Zenon, <1>15 DEF Reap, Visited, Checked, CountTypes, bounds, vars
<1>16. CASE UNCHANGED vars
  BY Zenon, <1>16 DEF CountTypes, bounds, vars
<1>17. CASE \E p \in Plugins : WriteAgain(p)
  BY Zenon, <1>17 DEF WriteAgain, Visited, CountTypes
<1> QED
  BY Zenon, <1>1, <1>2, <1>3, <1>4, <1>5, <1>6, <1>7, <1>8,
     <1>9, <1>10, <1>11, <1>12, <1>13, <1>14, <1>15, <1>16, <1>17 DEF Next, Launch

(* The list only names what is in it, and what is still to be done in a loop can be done. *)
LEMMA ListInvStep ==
  ASSUME ListTypes, ListInv, StrayInv, [Next]_vars
  PROVE  ListInv'
<1>1. CASE LibdispInit
  <2>1. /\ todo' = {p \in Plugins : dir[p] # 0}
        /\ entry' = [p \in Plugins |-> IF dir[p] # 0 THEN Loaded(dir[p]) ELSE Unlisted]
        /\ pc' # "reload"
    BY <1>1 DEF LibdispInit
  <2>2. ASSUME NEW p \in Plugins
        PROVE  /\ entry'[p].pid = 0 /\ entry'[p].pipe = "none" /\ entry'[p].inode = dir[p]
               /\ dir[p] = 0 => entry'[p].active = FALSE
               /\ dir[p] # 0 => entry'[p].active = TRUE /\ entry'[p].restart_cnt = 0
    <3>1. dir[p] \in Versions \cup {0} /\ entry'[p] = IF dir[p] # 0 THEN Loaded(dir[p]) ELSE Unlisted
      BY <2>1 DEF ListTypes
    <3> QED
      BY <3>1, LoadedEntry
  <2> QED
    BY <2>1, <2>2 DEF ListInv
<1>2. CASE \E p \in Plugins : Launch(p)
  <2>1. PICK p \in Plugins : Launch(p)
    BY Zenon, <1>2
  <2>2. Launched(p) /\ LaunchFrame(p)
    BY Zenon, <2>1, LaunchEffect, LaunchFrames
  <2>3. /\ \A q \in Plugins : q # p => entry'[q] = entry[q]
        /\ entry'[p].inode # 0
        /\ entry'[p].pipe = "open" => entry'[p].restart_cnt <= MaxRestarts
    BY Zenon, <2>2 DEF Launched
  <2>4. /\ \A q \in todo' : q \in todo /\ q # p /\ q \in Plugins
        /\ pc' = "start" => pc = "start"
        /\ pc' = "reload" => pc = "reload"
        /\ tmp' = tmp
    BY <2>2 DEF LaunchFrame, ListTypes
  <2> QED
    BY <2>3, <2>4 DEF ListInv
<1>3. CASE TakeEvent
  BY <1>3 DEF TakeEvent, Visited, Checked, ListInv, ListTypes
<1>4. CASE WokenForHup
  BY <1>4 DEF WokenForHup, Visited, Checked, ListInv, ListTypes
<1>5. CASE \E p \in Plugins : Passed(p)
  BY <1>5 DEF Passed, Visited, Checked, ListInv, ListTypes
<1>6. CASE \E p \in Plugins : WriteToPlugin(p)
  BY <1>6 DEF WriteToPlugin, Visited, Checked, ListInv, ListTypes
<1>7. CASE LoadPluginConf
  BY <1>7 DEF LoadPluginConf, Visited, Checked, ListInv, ListTypes
<1>8. CASE \E p \in Plugins : ReloadSame(p)
  BY <1>8 DEF ReloadSame, Visited, Checked, ListInv, ListTypes
<1>9. CASE Leftover
  <2>1. pc' # "start" /\ pc' # "reload"
    BY <1>9 DEF Leftover
  <2>2. /\ \A p \in Plugins : p \notin Gone => entry'[p] = entry[p]
        /\ \A p \in Gone : /\ entry'[p].active = FALSE /\ entry'[p].pid = 0 /\ entry'[p].pipe = "none"
                            /\ entry'[p].inode = entry[p].inode
    BY Zenon, <1>9, LeftoverList
  <2> QED
    BY <2>1, <2>2 DEF ListInv
<1>10. CASE ClearHup
  BY <1>10 DEF ClearHup, Visited, Checked, ListInv, ListTypes
<1>11. CASE EndThread
  <2>1. pc' = "dead" /\ \A p \in Plugins : entry'[p] = Unlisted
    BY <1>11 DEF EndThread
  <2>2. Unlisted.pid = 0 /\ Unlisted.active = FALSE /\ Unlisted.pipe = "none"
    BY DEF Unlisted
  <2> QED
    BY <2>1, <2>2 DEF ListInv
<1>12. CASE Hup
  BY <1>12 DEF Hup, Visited, Checked, ListInv, ListTypes
<1>13. CASE \E p \in Plugins : Edit(p)
  BY <1>13 DEF Edit, Visited, Checked, ListInv, ListTypes
<1>14. CASE \E k \in Pids : PluginEnds(k)
  BY <1>14 DEF PluginEnds, Visited, Checked, ListInv, ListTypes
<1>15. CASE \E k \in Pids : Reap(k)
  BY <1>15 DEF Reap, Visited, Checked, ListInv, ListTypes
<1>16. CASE UNCHANGED vars
  BY <1>16 DEF ListInv, vars
<1>17. CASE \E p \in Plugins : WriteAgain(p)
  BY <1>17 DEF WriteAgain, Visited, ListInv, ListTypes
<1> QED
  BY Zenon, <1>1, <1>2, <1>3, <1>4, <1>5, <1>6, <1>7, <1>8,
     <1>9, <1>10, <1>11, <1>12, <1>13, <1>14, <1>15, <1>16, <1>17 DEF Next, Launch

(* No step leaves a process behind that nobody told to end. *)
LEMMA StrayInvStep ==
  ASSUME ListTypes, ListInv, StrayInv, [Next]_vars
  PROVE  StrayInv'
<1>1. CASE LibdispInit
  BY <1>1 DEF LibdispInit, StrayInv, Untold
<1>2. CASE \E p \in Plugins : Launch(p)
  <2>1. PICK p \in Plugins : Launch(p)
    BY Zenon, <1>2
  <2>2. Launched(p) /\ LaunchFrame(p)
    BY Zenon, <2>1, LaunchEffect, LaunchFrames
  <2>3. /\ \A q \in Plugins : q # p => entry'[q] = entry[q]
        /\ \/ entry'[p].pid = 0
           \/ /\ entry'[p].pid \in Pids /\ entry'[p].active = TRUE
              /\ proc'[entry'[p].pid] = [state |-> "run", plugin |-> p, told |-> FALSE]
        /\ \A k \in Pids : k # entry'[p].pid =>
             /\ proc'[k].state = proc[k].state /\ proc'[k].plugin = proc[k].plugin
             /\ proc'[k].state = "run" /\ proc'[k].told = FALSE => proc[k].told = FALSE /\ proc[k].plugin # p
    BY Zenon, <2>2 DEF Launched
  <2>4. ASSUME NEW k \in Pids, proc'[k].state = "run", proc'[k].told = FALSE
        PROVE  \E q \in Plugins : proc'[k].plugin = q /\ entry'[q].pid = k /\ entry'[q].active = TRUE
    <3>1. CASE k = entry'[p].pid
      BY <2>3, <3>1, Bounds
    <3>2. CASE k # entry'[p].pid
      <4>1. Untold(k) /\ proc[k].plugin # p /\ proc'[k].plugin = proc[k].plugin
        BY <2>3, <2>4, <3>2 DEF Untold
      <4>2. PICK q \in Plugins : proc[k].plugin = q /\ entry[q].pid = k /\ entry[q].active = TRUE
        BY Zenon, <4>1 DEF StrayInv
      <4> QED
        BY <2>3, <4>1, <4>2
    <3> QED
      BY Zenon, <3>1, <3>2
  <2>5. pc' # "dead"
    BY <2>2 DEF LaunchFrame
  <2> QED
    BY Zenon, <2>4, <2>5 DEF StrayInv, Untold
<1>3. CASE TakeEvent
  BY <1>3 DEF TakeEvent, Visited, Checked, StrayInv, Untold
<1>4. CASE WokenForHup
  BY <1>4 DEF WokenForHup, Visited, Checked, StrayInv, Untold
<1>5. CASE \E p \in Plugins : Passed(p)
  BY <1>5 DEF Passed, Visited, Checked, StrayInv, Untold
<1>6. CASE \E p \in Plugins : WriteToPlugin(p)
  BY <1>6 DEF WriteToPlugin, Visited, Checked, StrayInv, Untold
<1>7. CASE LoadPluginConf
  BY <1>7 DEF LoadPluginConf, Visited, Checked, StrayInv, Untold
<1>8. CASE \E p \in Plugins : ReloadSame(p)
  BY <1>8 DEF ReloadSame, Visited, Checked, StrayInv, Untold
<1>9. CASE Leftover
  <2>1. pc' # "dead"
    BY <1>9 DEF Leftover
  <2>2. \A p \in Plugins : p \notin Gone => entry'[p] = entry[p]
    BY Zenon, <1>9, LeftoverList
  <2>3. \A k \in Pids : /\ proc'[k].state = proc[k].state /\ proc'[k].plugin = proc[k].plugin
                        /\ (proc'[k].state = "run" /\ proc'[k].told = FALSE =>
                              proc[k].told = FALSE /\ (\A p \in Gone : entry[p].pid # k))
    BY Zenon, <1>9, LeftoverTells
  <2>4. ASSUME NEW k \in Pids, proc'[k].state = "run", proc'[k].told = FALSE
        PROVE  \E q \in Plugins : proc'[k].plugin = q /\ entry'[q].pid = k /\ entry'[q].active = TRUE
    <3>1. Untold(k) /\ \A p \in Gone : entry[p].pid # k
      BY <2>3, <2>4 DEF Untold
    <3>2. PICK q \in Plugins : proc[k].plugin = q /\ entry[q].pid = k /\ entry[q].active = TRUE
      BY Zenon, <3>1 DEF StrayInv
    <3>3. entry'[q] = entry[q] /\ proc'[k].plugin = proc[k].plugin
      BY Zenon, <2>2, <2>3, <3>1, <3>2
    <3> QED
      BY <3>2, <3>3
  <2> QED
    BY Zenon, <2>1, <2>4 DEF StrayInv, Untold
<1>10. CASE ClearHup
  BY <1>10 DEF ClearHup, Visited, Checked, StrayInv, Untold
<1>11. CASE EndThread
  <2>1. \A k \in Pids : /\ proc'[k].state = proc[k].state /\ proc'[k].plugin = proc[k].plugin
                        /\ (proc'[k].state = "run" /\ proc'[k].told = FALSE =>
                              proc[k].told = FALSE /\ (\A p \in Plugins : entry[p].pid # k))
    BY Zenon, <1>11, EndTells
  <2>2. ASSUME NEW k \in Pids, proc'[k].state = "run", proc'[k].told = FALSE PROVE FALSE
    BY <2>1, <2>2 DEF StrayInv, Untold
  <2> QED
    BY Zenon, <2>2 DEF StrayInv, Untold
<1>12. CASE Hup
  BY <1>12 DEF Hup, Visited, Checked, StrayInv, Untold
<1>13. CASE \E p \in Plugins : Edit(p)
  BY <1>13 DEF Edit, Visited, Checked, StrayInv, Untold
<1>14. CASE \E k \in Pids : PluginEnds(k)
  <2>1. PICK k \in Pids : PluginEnds(k)
    BY Zenon, <1>14
  <2>2. entry' = entry /\ pc' = pc
    BY Zenon, <2>1 DEF PluginEnds
  <2>3. proc'[k].state = "zombie" /\ \A j \in Pids : j # k => proc'[j] = proc[j]
    BY Zenon, <2>1, EndsEffect
  <2> QED
    BY <2>2, <2>3 DEF StrayInv, Untold
<1>15. CASE \E k \in Pids : Reap(k)
  <2>1. PICK k \in Pids : Reap(k)
    BY Zenon, <1>15
  <2>2. entry' = entry /\ pc' = pc /\ proc' = [proc EXCEPT ![k] = Free]
    BY Zenon, <2>1 DEF Reap
  <2>3. proc'[k].state = "free" /\ \A j \in Pids : j # k => proc'[j] = proc[j]
    BY <2>2 DEF ListTypes, Free
  <2> QED
    BY <2>2, <2>3 DEF StrayInv, Untold
<1>16. CASE UNCHANGED vars
  BY <1>16 DEF StrayInv, Untold, vars
<1>17. CASE \E p \in Plugins : WriteAgain(p)
  BY <1>17 DEF WriteAgain, Visited, StrayInv, Untold
<1> QED
  BY Zenon, <1>1, <1>2, <1>3, <1>4, <1>5, <1>6, <1>7, <1>8,
     <1>9, <1>10, <1>11, <1>12, <1>13, <1>14, <1>15, <1>16, <1>17 DEF Next, Launch

\* An entry whose pid is not the plugin's own running process is one whose process ended
PidInv ==
  /\ \A p \in Plugins : entry[p].pid # 0 /\ p \notin ended =>
       proc[entry[p].pid].state = "run" /\ proc[entry[p].pid].plugin = p
  /\ \A p \in Plugins : entry[p].pipe = "open" => entry[p].pid # 0

(* A pid in the list is the plugin's running process until that process ends. *)
LEMMA PidInvStep ==
  ASSUME ListTypes, ListInv, StrayInv, PidInv, [Next]_vars
  PROVE  PidInv'
<1>1. CASE LibdispInit
  <2>1. ASSUME NEW p \in Plugins PROVE entry'[p].pid = 0 /\ entry'[p].pipe = "none"
    <3>1. dir[p] \in Versions \cup {0} /\ entry'[p] = IF dir[p] # 0 THEN Loaded(dir[p]) ELSE Unlisted
      BY <1>1 DEF LibdispInit, ListTypes
    <3>2. /\ Loaded(dir[p]).pid = 0 /\ Unlisted.pid = 0
          /\ Loaded(dir[p]).pipe = "none" /\ Unlisted.pipe = "none"
      BY Zenon, <3>1, LoadedEntry
    <3> QED
      BY <3>1, <3>2
  <2> QED
    BY <2>1 DEF PidInv
<1>2. CASE \E p \in Plugins : Launch(p)
  <2>1. PICK p \in Plugins : Launch(p)
    BY Zenon, <1>2
  <2>2. Launched(p) /\ LaunchFrame(p)
    BY Zenon, <2>1, LaunchEffect, LaunchFrames
  <2>3. /\ \A q \in Plugins : q # p => entry'[q] = entry[q]
        /\ ended' = ended \ {p}
        /\ \/ entry'[p].pid = 0
           \/ /\ entry'[p].pid \in Pids /\ proc[entry'[p].pid].state = "free"
              /\ proc'[entry'[p].pid] = [state |-> "run", plugin |-> p, told |-> FALSE]
        /\ \A k \in Pids : k # entry'[p].pid => proc'[k].state = proc[k].state /\ proc'[k].plugin = proc[k].plugin
    BY Zenon, <2>2 DEF Launched
  <2>4. \A q \in Plugins : entry[q].pid \in Pids \cup {0}
    BY Zenon, EntryFields
  <2>5. ASSUME NEW q \in Plugins, entry'[q].pid # 0, q \notin ended'
        PROVE  proc'[entry'[q].pid].state = "run" /\ proc'[entry'[q].pid].plugin = q
    <3>1. CASE q = p
      BY <2>3, <2>5, <3>1
    <3>2. CASE q # p
      <4>1. entry'[q] = entry[q] /\ q \notin ended /\ entry[q].pid \in Pids
        BY <2>3, <2>4, <2>5, <3>2
      <4>2. proc[entry[q].pid].state = "run" /\ proc[entry[q].pid].plugin = q
        BY <2>5, <4>1 DEF PidInv
      <4>3. entry[q].pid # entry'[p].pid
        BY <2>3, <2>5, <4>1, <4>2
      <4>4. proc'[entry[q].pid].state = proc[entry[q].pid].state /\ proc'[entry[q].pid].plugin = proc[entry[q].pid].plugin
        BY Zenon, <2>3, <4>1, <4>3
      <4> QED
        BY <4>1, <4>2, <4>4
    <3> QED
      BY Zenon, <3>1, <3>2
  <2>6. \A q \in Plugins : entry'[q].pipe = "open" => entry'[q].pid # 0
    <3>1. entry'[p].pid = 0 => entry'[p].pipe # "open"
      BY Zenon, <2>2 DEF Launched
    <3> QED
      BY <2>3, <3>1 DEF PidInv
  <2> QED
    BY Zenon, <2>5, <2>6 DEF PidInv
<1>3. CASE TakeEvent
  BY <1>3 DEF TakeEvent, Visited, Checked, PidInv, history
<1>4. CASE WokenForHup
  BY <1>4 DEF WokenForHup, Visited, Checked, PidInv, history
<1>5. CASE \E p \in Plugins : Passed(p)
  BY <1>5 DEF Passed, Visited, Checked, PidInv, history
<1>6. CASE \E p \in Plugins : WriteToPlugin(p)
  BY <1>6 DEF WriteToPlugin, Visited, Checked, PidInv, history
<1>7. CASE LoadPluginConf
  BY <1>7 DEF LoadPluginConf, Visited, Checked, PidInv, history
<1>8. CASE \E p \in Plugins : ReloadSame(p)
  BY <1>8 DEF ReloadSame, Visited, Checked, PidInv, history
<1>9. CASE Leftover
  <2>1. /\ \A p \in Plugins : p \notin Gone => entry'[p] = entry[p]
        /\ \A p \in Gone : entry'[p].pid = 0 /\ entry'[p].pipe = "none"
    BY Zenon, <1>9, LeftoverList
  <2>2. \A k \in Pids : proc'[k].state = proc[k].state /\ proc'[k].plugin = proc[k].plugin
    BY Zenon, <1>9, LeftoverTells
  <2>3. ended' = ended
    BY <1>9 DEF Leftover, history
  <2>4. \A q \in Plugins : entry[q].pid \in Pids \cup {0}
    BY Zenon, EntryFields
  <2> QED
    BY <2>1, <2>2, <2>3, <2>4 DEF PidInv
<1>10. CASE ClearHup
  BY <1>10 DEF ClearHup, Visited, Checked, PidInv, history
<1>11. CASE EndThread
  <2>1. \A p \in Plugins : entry'[p].pid = 0 /\ entry'[p].pipe = "none"
    BY <1>11 DEF EndThread, Unlisted
  <2> QED
    BY <2>1 DEF PidInv
<1>12. CASE Hup
  BY <1>12 DEF Hup, Visited, Checked, PidInv, history
<1>13. CASE \E p \in Plugins : Edit(p)
  BY <1>13 DEF Edit, Visited, Checked, PidInv, history
<1>14. CASE \E k \in Pids : PluginEnds(k)
  <2>1. PICK k \in Pids : PluginEnds(k)
    BY Zenon, <1>14
  <2>2. entry' = entry /\ ended' = ended \cup {p \in Plugins : p = proc[k].plugin /\ entry[p].pid = k}
    BY Zenon, <2>1 DEF PluginEnds
  <2>3. \A j \in Pids : j # k => proc'[j] = proc[j]
    BY Zenon, <2>1, EndsEffect
  <2>4. \A q \in Plugins : entry[q].pid \in Pids \cup {0}
    BY Zenon, EntryFields
  <2> QED
    BY <2>2, <2>3, <2>4 DEF PidInv
<1>15. CASE \E k \in Pids : Reap(k)
  <2>1. PICK k \in Pids : Reap(k)
    BY Zenon, <1>15
  <2>2. entry' = entry /\ ended' = ended /\ proc' = [proc EXCEPT ![k] = Free] /\ proc[k].state = "zombie"
    BY <2>1 DEF Reap, history
  <2>3. \A j \in Pids : j # k => proc'[j] = proc[j]
    BY <2>2 DEF ListTypes
  <2>4. \A q \in Plugins : entry[q].pid \in Pids \cup {0}
    BY Zenon, EntryFields
  <2> QED
    BY <2>2, <2>3, <2>4 DEF PidInv
<1>16. CASE UNCHANGED vars
  BY <1>16 DEF PidInv, history, vars
<1>17. CASE \E p \in Plugins : WriteAgain(p)
  BY <1>17 DEF WriteAgain, Visited, PidInv
<1> QED
  BY Zenon, <1>1, <1>2, <1>3, <1>4, <1>5, <1>6, <1>7, <1>8,
     <1>9, <1>10, <1>11, <1>12, <1>13, <1>14, <1>15, <1>16, <1>17 DEF Next, Launch

(* A restart is counted, whatever comes of it. *)
LEMMA RestartCounted ==
  ASSUME ListTypes, ListInv, NEW p \in Plugins, RestartPlugin(p)
  PROVE  entry'[p].restart_cnt = entry[p].restart_cnt + 1
<1> DEFINE n == entry[p].restart_cnt + 1
           e == [entry[p] EXCEPT !.pid = 0, !.pipe = "none", !.restart_cnt = n]
<1>1. entry[p] \in Entry /\ entry[p].restart_cnt \in 0 .. MaxRestarts + 1
  BY Zenon, EntryFields
<1>2. StartOnePlugin(p, [entry[p] EXCEPT !.pid = 0, !.pipe = "none", !.restart_cnt = @ + 1], proc)
      /\ entry[p].pipe = "open"
  BY Zenon, <1>1 DEF RestartPlugin
<1>3. [entry[p] EXCEPT !.pid = 0, !.pipe = "none", !.restart_cnt = @ + 1] = e
  BY <1>1 DEF Entry
<1>4. n \in 0 .. MaxRestarts + 1
  BY <1>1, <1>2, Bounds DEF ListInv
<1>5. StartOnePlugin(p, e, proc)
  BY Zenon, <1>2, <1>3
<1> HIDE DEF n
<1>6. e \in Entry /\ e.pid = 0 /\ e.restart_cnt = n
  BY <1>1, <1>4 DEF Entry
<1> HIDE DEF e
<1>7. entry \in [Plugins -> Entry] /\ proc \in [Pids -> Proc]
  BY Zenon DEF ListTypes
<1>8. entry'[p].restart_cnt = e.restart_cnt
  BY Zenon, <1>5, <1>6, <1>7, Started
<1> QED
  BY <1>6, <1>8 DEF n

\* The plugin lacks at most n events, or has used up its restarts
Lacks(p, n) ==
  \/ entry[p].pipe = "open" /\ ev - last[p] <= n
  \/ entry[p].pipe # "open" /\ entry[p].restart_cnt > MaxRestarts

\* The plugin has the last event, or its process has ended, or it has used up its restarts
Served(p) ==
  /\ Lacks(p, entry[p].restart_cnt)
  /\ entry[p].pipe = "open" => last[p] = ev \/ p \in ended

\* Who has the event: everyone outside the loops, in them everyone who was visited, but
\* for the one that is to be given it again
GivenInv ==
  /\ pc # "rewrite" => again = {}
  /\ \A p, q \in again : p = q
  /\ \A p \in again : p \notin todo
  /\ \A p \in Plugins : entry[p].active = TRUE =>
       /\ pc \in {"wait", "load", "reload", "leftover", "clear"} => Served(p)
       /\ pc \in {"start", "deliver", "rewrite"} /\ p \notin todo /\ p \notin again => Served(p)
       /\ pc \in {"deliver", "rewrite"} /\ p \in todo => Lacks(p, entry[p].restart_cnt + 1)
       /\ p \in again => Lacks(p, entry[p].restart_cnt)

(* The numbers that Lacks compares. *)
LEMMA Numbers ==
  ASSUME ListTypes, NEW p \in Plugins
  PROVE  ev \in Nat /\ last[p] \in Nat /\ entry[p].restart_cnt \in Nat
<1>1. entry[p].restart_cnt \in 0 .. MaxRestarts + 1
  BY Zenon, EntryFields
<1> QED
  BY <1>1, Bounds DEF ListTypes

(* An active plugin that a loop has visited has the event, also when it was started for it, *)
(* unless its process ended between its start and the second write.                         *)
LEMMA GivenInvStep ==
  ASSUME ListTypes, ListInv, StrayInv, PidInv, GivenInv, [Next]_vars
  PROVE  GivenInv'
<1>0. /\ \A p \in Plugins : ev \in Nat /\ last[p] \in Nat /\ entry[p].restart_cnt \in Nat
      /\ \A p \in Plugins : entry[p].active \in BOOLEAN /\ entry[p].pid \in Pids \cup {0}
  BY Zenon, Numbers, EntryFields
<1>1. CASE LibdispInit
  <2>1. ASSUME NEW p \in Plugins, entry'[p].active = TRUE PROVE p \in todo'
    <3>1. dir[p] \in Versions \cup {0} /\ entry'[p] = IF dir[p] # 0 THEN Loaded(dir[p]) ELSE Unlisted
      BY <1>1 DEF LibdispInit, ListTypes
    <3>2. dir[p] # 0
      BY <2>1, <3>1, LoadedEntry
    <3> QED
      BY <1>1, <3>2 DEF LibdispInit
  <2>2. pc' \in {"dead", "start"} /\ again' = again /\ pc = "dead"
    BY <1>1 DEF LibdispInit
  <2> QED
    BY <2>1, <2>2 DEF GivenInv
<1>2. CASE \E p \in Plugins : Launch(p)
  <2>1. PICK p \in Plugins : Launch(p)
    BY Zenon, <1>2
  <2>2. Launched(p) /\ LaunchFrame(p)
    BY Zenon, <2>1, LaunchEffect, LaunchFrames
  <2>3. /\ \A q \in Plugins : q # p => entry'[q] = entry[q] /\ (q \in ended => q \in ended')
        /\ entry'[p].active = TRUE /\ entry'[p].pipe # "open" => entry'[p].restart_cnt > MaxRestarts
        /\ entry' \in [Plugins -> Entry]
    BY Zenon, <2>2 DEF Launched
  <2>4. entry'[p].restart_cnt \in Nat
    BY <2>3, Bounds DEF Entry
  <2>5. p \in todo /\ todo' = todo \ {p} /\ ev' = ev
    BY Zenon, <2>2 DEF LaunchFrame
  <2>6. CASE /\ pc \in {"start", "reload"} /\ again' = again
             /\ pc' # pc => todo' = {} /\ pc' \in {"wait", "leftover"}
             /\ last' = [last EXCEPT ![p] = ev]
    <3>1. last'[p] = ev /\ \A q \in Plugins : q # p => last'[q] = last[q]
      BY <2>6 DEF ListTypes
    <3>2. again = {} /\ again' = {}
      BY <2>6 DEF GivenInv
    <3>3. entry'[p].active = TRUE => Served(p)'
      BY <1>0, <2>3, <2>4, <2>5, <3>1 DEF Served, Lacks
    <3>4. ASSUME NEW q \in Plugins, q # p, Served(q) PROVE Served(q)'
      BY <2>3, <2>5, <3>1, <3>4 DEF Served, Lacks
    <3>5. \A q \in Plugins : entry[q].active = TRUE => (pc = "reload" \/ q \notin todo => Served(q))
      BY <2>6, <3>2 DEF GivenInv
    <3>6. \A q \in Plugins : entry'[q].active = TRUE => (pc = "reload" \/ q \notin todo' => Served(q)')
      BY <2>3, <2>5, <3>3, <3>4, <3>5
    <3> QED
      BY <2>6, <3>2, <3>6 DEF GivenInv
  <2>7. CASE pc = "deliver" /\ pc' = "rewrite" /\ again' = {p} /\ last' = last
    <3>1. RestartPlugin(p)
      BY Zenon, <2>1, <2>7 DEF Launch, StartPlugin, ReloadNew, ReloadChanged, ReloadAgain, Checked
    <3>2. entry[p].active = TRUE /\ entry[p].pipe = "open" /\ again = {}
      <4>1. entry[p].active /\ entry[p].pipe = "open"
        BY Zenon, <3>1 DEF RestartPlugin
      <4> QED
        BY Zenon, <1>0, <2>7, <4>1 DEF GivenInv
    <3>3. entry'[p].restart_cnt = entry[p].restart_cnt + 1
      BY Zenon, <3>1, RestartCounted
    <3>4. ev - last[p] <= entry[p].restart_cnt + 1
      BY <2>5, <2>7, <3>2 DEF GivenInv, Lacks
    <3>5. entry'[p].active = TRUE => Lacks(p, entry[p].restart_cnt)'
      BY <2>3, <2>5, <2>7, <3>3, <3>4 DEF Lacks
    <3>6. ASSUME NEW q \in Plugins, q # p, entry'[q].active = TRUE
          PROVE  /\ q \notin todo' => Served(q)'
                 /\ q \in todo' => Lacks(q, entry[q].restart_cnt + 1)'
      <4>1. entry'[q] = entry[q] /\ (q \in ended => q \in ended') /\ entry[q].active = TRUE
            /\ (q \in todo' <=> q \in todo)
        BY <2>3, <2>5, <3>6
      <4>2. q \notin todo => Served(q)
        BY <2>7, <3>2, <4>1 DEF GivenInv
      <4>3. q \in todo => Lacks(q, entry[q].restart_cnt + 1)
        BY <2>7, <3>2, <4>1 DEF GivenInv
      <4> QED
        BY <2>5, <2>7, <4>1, <4>2, <4>3 DEF Served, Lacks
    <3> QED
      BY <2>5, <2>7, <3>5, <3>6 DEF GivenInv
  <2> QED
    BY Zenon, <2>2, <2>6, <2>7 DEF LaunchFrame
<1>3. CASE TakeEvent
  <2>1. /\ pc = "wait" /\ pc' = "deliver" /\ entry' = entry /\ todo' = Listed /\ again' = again
        /\ ev' = ev + 1 /\ last' = last
    BY <1>3 DEF TakeEvent, history
  <2>2. again = {} /\ \A p \in Plugins : entry[p].active = TRUE => p \in Listed /\ Served(p)
    BY <2>1 DEF ListInv, Listed, GivenInv
  <2>3. ASSUME NEW p \in Plugins, Served(p) PROVE Lacks(p, entry[p].restart_cnt + 1)'
    <3>1. entry[p].pipe = "open" => ev - last[p] <= entry[p].restart_cnt
      BY <2>3 DEF Served, Lacks
    <3>2. entry[p].pipe = "open" => ev' - last'[p] <= entry[p].restart_cnt + 1
      BY <1>0, <2>1, <3>1
    <3>3. entry[p].pipe # "open" => entry[p].restart_cnt > MaxRestarts
      BY <2>3 DEF Served, Lacks
    <3> QED
      BY <2>1, <3>2, <3>3 DEF Lacks
  <2> QED
    BY <2>1, <2>2, <2>3 DEF GivenInv
<1>4. CASE WokenForHup
  BY <1>4 DEF WokenForHup, GivenInv, Served, Lacks, history
<1>5. CASE \E p \in Plugins : Passed(p)
  <2>1. PICK p \in Plugins : Passed(p)
    BY Zenon, <1>5
  <2>2. entry[p].active = TRUE => entry[p].pipe # "open"
    BY Zenon, <2>1 DEF Passed
  <2>3. /\ pc = "deliver" /\ p \in todo /\ todo' = todo \ {p} /\ again' = again
        /\ ev' = ev /\ entry' = entry /\ last' = last /\ ended' = ended
        /\ pc' = "deliver" \/ (todo' = {} /\ pc' \in {"load", "wait"})
    BY <2>1 DEF Passed, Visited, history
  <2>4. entry[p].active = TRUE => Served(p)
    BY <2>2, <2>3 DEF GivenInv, Served, Lacks
  <2> QED
    BY <2>3, <2>4 DEF GivenInv, Served, Lacks
<1>6. CASE \E p \in Plugins : WriteToPlugin(p)
  <2>1. PICK p \in Plugins : WriteToPlugin(p)
    BY Zenon, <1>6
  <2>2. /\ pc = "deliver" /\ p \in todo /\ todo' = todo \ {p} /\ again' = again
        /\ ev' = ev /\ entry' = entry /\ entry[p].pipe = "open" /\ ended' = ended
        /\ last' = [last EXCEPT ![p] = ev]
        /\ pc' = "deliver" \/ (todo' = {} /\ pc' \in {"load", "wait"})
    BY <2>1 DEF WriteToPlugin, Visited
  <2>3. last'[p] = ev /\ \A q \in Plugins : q # p => last'[q] = last[q]
    BY <2>2 DEF ListTypes
  <2>4. Served(p)'
    BY <1>0, <2>2, <2>3 DEF Served, Lacks
  <2>5. \A q \in Plugins : q # p => (Served(q) => Served(q)')
                        /\ (Lacks(q, entry[q].restart_cnt + 1) => Lacks(q, entry[q].restart_cnt + 1)')
    BY <2>2, <2>3 DEF Served, Lacks
  <2>6. again = {}
    BY <2>2 DEF GivenInv
  <2> QED
    BY <2>2, <2>4, <2>5, <2>6 DEF GivenInv
<1>7. CASE LoadPluginConf
  BY <1>7 DEF LoadPluginConf, GivenInv, Served, Lacks, history
<1>8. CASE \E p \in Plugins : ReloadSame(p)
  BY <1>8 DEF ReloadSame, Checked, GivenInv, Served, Lacks, history
<1>9. CASE Leftover
  <2>1. /\ \A p \in Plugins : p \notin Gone => entry'[p] = entry[p]
        /\ \A p \in Gone : entry'[p].active = FALSE
    BY Zenon, <1>9, LeftoverList
  <2>2. /\ pc = "leftover" /\ pc' \in {"clear", "end"} /\ again' = again /\ todo' = todo
        /\ last' = last /\ ev' = ev /\ ended' = ended
    BY <1>9 DEF Leftover, history
  <2> QED
    BY <2>1, <2>2 DEF GivenInv, Served, Lacks
<1>10. CASE ClearHup
  BY <1>10 DEF ClearHup, GivenInv, Served, Lacks, history
<1>11. CASE EndThread
  BY <1>11 DEF EndThread, GivenInv
<1>12. CASE Hup
  BY <1>12 DEF Hup, GivenInv, Served, Lacks, history
<1>13. CASE \E p \in Plugins : Edit(p)
  BY <1>13 DEF Edit, GivenInv, Served, Lacks, history
<1>14. CASE \E k \in Pids : PluginEnds(k)
  <2>1. UNCHANGED <<entry, pc, todo, again, ev, last>> /\ \A p \in ended : p \in ended'
    BY <1>14 DEF PluginEnds
  <2> QED
    BY <2>1 DEF GivenInv, Served, Lacks
<1>15. CASE \E k \in Pids : Reap(k)
  BY <1>15 DEF Reap, GivenInv, Served, Lacks, history
<1>16. CASE UNCHANGED vars
  BY <1>16 DEF GivenInv, Served, Lacks, history, vars
<1>17. CASE \E p \in Plugins : WriteAgain(p)
  <2>1. PICK p \in Plugins : WriteAgain(p)
    BY Zenon, <1>17
  <2>2. /\ pc = "rewrite" /\ p \in again /\ again' = {} /\ todo' = todo \ {p}
        /\ ev' = ev /\ entry' = entry /\ ended' = ended
        /\ pc' = "deliver" \/ (todo' = {} /\ pc' \in {"load", "wait"})
    BY <2>1 DEF WriteAgain, Visited
  <2>3. \A q \in Plugins : q # p => last'[q] = last[q]
    BY <2>1 DEF WriteAgain, ListTypes
  <2>4. ASSUME entry[p].active = TRUE PROVE Served(p)'
    <3>1. Lacks(p, entry[p].restart_cnt)
      BY <2>2, <2>4 DEF GivenInv
    <3>2. CASE entry[p].pipe = "open" /\ Alive(p)
      <4>1. last' = [last EXCEPT ![p] = ev]
        BY Zenon, <2>1, <2>4, <3>2 DEF WriteAgain
      <4>2. last'[p] = ev
        BY <4>1 DEF ListTypes
      <4> QED
        BY <1>0, <2>2, <3>2, <4>2 DEF Served, Lacks
    <3>3. CASE ~(entry[p].pipe = "open" /\ Alive(p))
      <4>1. last' = last
        BY Zenon, <2>1, <3>3 DEF WriteAgain
      <4>2. entry[p].pipe = "open" => p \in ended
        BY <3>3 DEF Alive, PidInv
      <4> QED
        BY <2>2, <3>1, <4>1, <4>2 DEF Served, Lacks
    <3> QED
      BY Zenon, <3>2, <3>3
  <2>5. \A q \in Plugins : q # p => (Served(q) => Served(q)')
                        /\ (Lacks(q, entry[q].restart_cnt + 1) => Lacks(q, entry[q].restart_cnt + 1)')
    BY <2>2, <2>3 DEF Served, Lacks
  <2>6. \A q \in Plugins : q # p => q \notin again /\ (q \in todo' <=> q \in todo)
    BY <2>2 DEF GivenInv
  <2> QED
    BY <2>2, <2>4, <2>5, <2>6 DEF GivenInv
<1> QED
  BY Zenon, <1>1, <1>2, <1>3, <1>4, <1>5, <1>6, <1>7, <1>8,
     <1>9, <1>10, <1>11, <1>12, <1>13, <1>14, <1>15, <1>16, <1>17 DEF Next, Launch

-----------------------------------------------------------------------------
\* The inductive invariant
Inv == ListTypes /\ CountTypes /\ ListInv /\ StrayInv /\ PidInv /\ GivenInv

(* It holds when auditd starts. *)
LEMMA InitInv == Init => Inv
<1> SUFFICES ASSUME Init PROVE Inv
  OBVIOUS
<1>1. Unlisted \in Entry /\ Unlisted.active = FALSE /\ Unlisted.pid = 0 /\ Unlisted.pipe = "none"
  BY Bounds DEF Unlisted, Entry
<1>2. Free \in Proc /\ Free.state = "free"
  BY DEF Free, Proc
<1>3. ListTypes
  BY <1>1, <1>2, Bounds DEF Init, ListTypes, PCs
<1>4. CountTypes
  <2>1. /\ hups \in 0 .. MaxHups /\ loaded \in 0 .. hups /\ edits \in 0 .. MaxEdits
        /\ crashes \in 0 .. MaxCrashes /\ forkfails \in 0 .. MaxForkFails
    BY Bounds DEF Init
  <2> QED
    BY Zenon, <2>1 DEF Init, CountTypes
<1>5. ListInv /\ PidInv /\ GivenInv
  BY <1>1 DEF Init, ListInv, PidInv, GivenInv
<1>6. StrayInv
  BY <1>2 DEF Init, StrayInv, Untold
<1> QED
  BY Zenon, <1>3, <1>4, <1>5, <1>6 DEF Inv

(* ... and after every step. *)
LEMMA NextInv == Inv /\ [Next]_vars => Inv'
BY Zenon, ListTypesStep, CountTypesStep, ListInvStep, StrayInvStep, PidInvStep, GivenInvStep DEF Inv

(* So it always holds. *)
LEMMA Invariant == Spec => []Inv
BY InitInv, NextInv, PTL DEF Spec

(* The entries of the list, the processes, the loops and the counters of the dispatcher always *)
(* have their types: an entry never keeps the result of a failed fork as a pid, and the        *)
(* restarts are counted to one beyond max_restarts.                                            *)
THEOREM TypeCorrect == Spec => []TypeOK
<1>1. Inv => TypeOK
  BY Zenon DEF Inv, ListTypes, CountTypes, TypeOK, Entry, Proc, PCs
<1> QED
  BY <1>1, Invariant, PTL

(* Whatever the order of crashes, restarts, reloads and reaping, and however often the kernel   *)
(* gives a pid out again: a running process of a plugin is the one the list names for an active *)
(* plugin, or it has been told to end.                                                          *)
THEOREM NoStrayProcessHolds == Spec => []NoStrayProcess
<1>1. Inv => NoStrayProcess
  <2> SUFFICES ASSUME Inv, NEW k \in Pids, proc[k].state = "run", ~proc[k].told
               PROVE  \E p \in Plugins : proc[k].plugin = p /\ entry[p].pid = k /\ entry[p].active
    BY Zenon DEF NoStrayProcess
  <2>1. proc[k].told \in BOOLEAN
    BY Zenon, ProcFields DEF Inv
  <2>2. Untold(k)
    BY Zenon, <2>1 DEF Untold
  <2> QED
    BY Zenon, <2>2 DEF Inv, StrayInv
<1> QED
  BY <1>1, Invariant, PTL

(* While auditd waits for an event and during a reload, every active plugin has been given the  *)
(* last event, also when it had died and was started for that event.  It lacks events only if   *)
(* the restarted process ended before the second write as well, and then at most as many as it  *)
(* was restarted; an active plugin without a pipe has used up its restarts.                     *)
THEOREM UpToDateHolds == Spec => []UpToDate
<1>1. Inv => UpToDate
  <2> SUFFICES ASSUME Inv, pc \in {"wait", "load", "reload", "leftover", "clear"},
                      NEW p \in Plugins, entry[p].active
               PROVE  \/ entry[p].pipe = "open" /\ last[p] = ev
                      \/ entry[p].pipe = "open" /\ p \in ended /\ ev - last[p] <= entry[p].restart_cnt
                      \/ entry[p].pipe # "open" /\ entry[p].restart_cnt > MaxRestarts
    BY Zenon DEF UpToDate
  <2>1. entry[p].active \in BOOLEAN
    BY Zenon, EntryFields DEF Inv
  <2>2. entry[p].active = TRUE
    BY Zenon, <2>1
  <2> QED
    BY Zenon, <2>2 DEF Inv, GivenInv, Served, Lacks
<1> QED
  BY <1>1, Invariant, PTL

(* A pid of the list that is no longer a process of that plugin, although nobody tells the list *)
(* of a reaped child, belongs to a plugin whose process ended after it was last offered an      *)
(* event.                                                                                       *)
THEOREM PidIsRecentHolds == Spec => []PidIsRecent
<1>1. Inv => PidIsRecent
  BY Zenon DEF Inv, PidInv, PidIsRecent, Own
<1> QED
  BY <1>1, Invariant, PTL

==============================================================================
