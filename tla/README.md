# A verification of the Linux audit daemon

The repository collects defensive tools. Most are bundled products (ClamAV,
osquery, Tripwire, ...) or binaries. This project is about the one that keeps
the record of what happened on a machine: the Linux audit daemon, `src/auditd/`.
Its value lies in not losing records, and it must keep that promise over
threads, failing disks, full partitions, crashes and configuration changes at
run time, which is where tests reach least.

## 1. The system

| Component | Source | State | Operations |
|---|---|---|---|
| plugin event queue | `audisp/queue.c` | ring `q`, `q_next`, `q_last`, `q_depth`, counters, `processing_suspended` | `init_queue`, `enqueue`, `dequeue`, `increase_queue_depth`, `nudge_queue`, `resume_queue`, `destroy_queue` |
| dispatcher thread | `audisp/audispd.c`, `src/auditd-dispatch.c` | `disp_hup`, `stop`, configuration, plugin list | `libdisp_init`, `libdisp_reconfigure`, `libdisp_shutdown`, `outbound_thread_main`, `event_loop` |
| log rotation | `src/auditd-event.c` | the files `log_file`, `log_file.1`, ..., `last_log` | `rotate_logs`, `shift_logs`, `check_excess_logs`, `open_audit_log` |
| event writing and disk actions | `src/auditd-event.c` | `log_file`, `log_fd`, `logging_suspended`, `fs_space_*`, `disk_err_warning`, `log_size` | `handle_event`, `write_to_log`, `check_log_file_size`, `check_space_left`, the three actions, `resume_logging`, `reconfigure` |
| queue file of the remote plugin | `audisp/plugins/remote/queue.c`, `main` and `send_one` of `audisp-remote.c` | header and entries of the file, copies in memory | `q_open` (create, check, resize), `q_append`, `q_peek`, `q_drop_head` |
| network relay of the remote plugin | `audisp-remote.c` | socket, sequence number, `suspend`, `remote_ended`, `warned` | `relay_sock_managed`, `check_message`, the handlers and `do_action` |
| TCP listener | `src/auditd-listen.c` | clients, their buffers | accept, reassemble, acknowledge, close idle clients |
| main loop, configuration manager | `src/auditd.c`, `auditd-reconfig.c`, `auditd-config.c` | signals, `config_lock`, the configuration handed over | signal handlers, `config_thread_main`, `reconfig_ready` |
| plugin processes | `audisp/audispd.c`, `audispd-llist.c`, `audispd-pconfig.c` | list of plugins, pids, pipes, `restart_cnt` | start, restart, signal, reload |
| flush thread | `src/auditd-event.c` | `flush`, `log_fd` | `flush_thread_main` |
| event assembly | `src/ausearch-lol.c` | list of incomplete events | `lol_add_record`, `get_ready_event` |

auditd's main thread runs a libev loop. A record from the kernel, or from a
remote auditd through the listener, goes through `handle_event` to the log and
then through `dispatch_event` and `enqueue` to the plugin queue. A second,
detached thread takes events from that queue and writes them to the pipes of
the plugins. One plugin, audisp-remote, puts what it reads into a queue of its
own, in a file, and sends it to the listener of another auditd, whose answer
(`send_ack`) tells it whether the record was logged. SIGHUP reloads the
configuration of everything, SIGUSR1 rotates the logs, SIGUSR2 resumes what was
suspended.

What is hard, and the property that makes each component correct:

* *plugin queue*: two threads, one lock, and several variables outside it. It
  must be a FIFO whatever wake-ups, HUPs and retries do, strand no event, and
  account for every event over growth, destruction and restart.
* *log rotation*: a chain of renames, each of which can fail, with a crash or
  another process in between. Numbers must keep meaning age, and no log may go
  other than the one the scheme gives up.
* *disk actions*: actions that call each other (a rotation meets a full disk,
  whose action is to rotate). Whatever fails, logging is on only with an open
  log, and remote senders hear the truth.
* *queue file*: two writes per operation and a process that may end between
  them. What was accepted is not lost, nor reordered.
* *relay and listener*: lost, late and repeated answers. At least once, in order.
* *configuration, plugin processes, flush thread*: hand-over between threads
  without a lock, restarts up to a limit.

The other tools and the parts of auditd that only parse, format or print are
listed in `PROJECT.json` with the reason they are not modelled.

## 2. Modules

| Module | Models | Lines of argument |
|---|---|---|
| `FifoQueue` | what both event queues promise | abstract specification |
| `PluginQueue` | plugin event queue, dispatcher thread | runs 1 to 3 |
| `PluginQueueProofs` | | theorems about `PluginQueue` |
| `LogRotation`, `MCLogRotation` | log rotation | run 4 |
| `LogRotationProofs` | | theorems about `LogRotation` |
| `LogWriter`, `MCLogWriter` | event writing and disk actions | run 5 |
| `LogWriterProofs` | | theorems about `LogWriter` |
| `RemoteQueue` | queue file of the remote plugin | run 6 |
| `RemoteQueueProofs` | | theorems about `RemoteQueue` |
| `RemoteRelay`, `MCRemoteRelay` | network relay of the remote plugin, with the network and the server around it | runs 7 and 8 |
| `RemoteRelayProofs` | | theorems about `RemoteRelay` |
| `PluginProcesses` | plugin processes: start, restart, reload | run 9 |
| `PluginProcessesProofs` | | theorems about `PluginProcesses` |
| `TcpListener`, `MCTcpListener` | TCP listener | run 10 |
| `TcpListenerProofs` | | theorems about `TcpListener` |
| `MainLoop` | main loop, configuration manager, flush thread | runs 11 and 12 |
| `MainLoopProofs` | | theorems about `MainLoop` |

Definitions named `...NoWrap`, `...Leaks`, `...Overwrites` and the like, marked
as mutants, are plausible mistakes in the definition they precede. Each property
is known to fail when the definition is replaced by its mutant (`PROJECT.json`
lists the pairs).

### PluginQueue

Every variable of `queue.c` is a variable of the module under its own name. The
main thread is `mpc` with the event it carries (`ev`, `retry_cnt`), each outbound
thread is `opc[t]` with the event it holds (`hand[t]`). A critical section of
`queue_lock` is one action. The one place where a thread keeps the lock between
two actions is the step from `dequeue`'s test of an empty ring to
`pthread_cond_wait` (`towait`), because `nudge_queue` signals without the lock
and may fall in between. `enqueue` is four actions (the test of
`processing_suspended`, a successful put, a retry, the overflow), so that the
2 ms sleeps between retries are points where the other thread runs.
`libdisp_reconfigure` is two, since `disp_hup` is set after `copy_config`.
The end of an outbound thread takes no lock and is one action per instruction
that others can see: `ClearPlugins` empties the plugin list, `FreeSlot` frees one
slot (`fslot[t]`) and leaves its pointer, `FreeRing` frees the array (`q_alive`),
`ResetIndices` and `ResetCounters` come last, so that the main thread, or a
dispatcher thread started meanwhile, may run between any two. A use of freed
memory has two outcomes: what was there is still found, or the process ends
(`HeapFault`, `EnqueueCrash`). So does a remainder by `q_depth = 0` (`Die`).
`overlapped` records that a thread used the ring while another tore it down or
afterwards; `delivered`, `lost` and `sent` are history too.

Left out: failing allocation in `init_queue`, warnings and the state report's
text, the run level changes of `do_overflow_action`, and the work per plugin (a
component of its own).

### LogRotation

`files[k]` is the generation of `log_file.k` (the order of creation), 0 if there
is none. Each `rename` and `unlink` is a step. `RenamesFail` lets any rename fail
for a reason other than ENOENT; `RemoveFile` is an archive script, `Crash` and
`Restart` may come at any step and forget `last_log`. `pc` follows the loops:
`scan` is `shift_logs` looking for a free number, `chain` the renames of
`rotate_logs` from `top` down, `excess` the unlinks of `check_excess_logs`.
A rename that finds the disk full runs `do_disk_full_action`, which may rotate
inside the rotation: `outer` is the frame of the interrupted loop, and
`fs_space_left`, which that action clears first, is why it does not happen a third
time. `widest`, the highest suffix a rotation has used so far, is history.
Left out: `known_logs` (only printed), permissions, and a change of the
`log_file` path, which starts another set of files.

### LogWriter

The state is a record `d` and each C function an operator from the state before
it to the set of states after it, so that the nesting of the actions in the model
is the nesting of the calls in the code. What a call meets (a failing open, write,
rename or flush, the space that is left) is chosen anew each time. A handler runs
to its end before the next one starts, since the loop is single-threaded; a
reconfigure is split into its parts (`todo`) because each of them has its own
choices. `stream` tells whether `log_file` is open on the file at the path or on
one that was moved. The file names of a rotation are abstracted away here; that
is `LogRotation`'s subject. `exec` behaves as `suspend`, `email` as `ignore` and
`single` as `halt` for every property. Left out: the foreground mode, formatting,
a change of the `log_file` path, leaked descriptors.

### RemoteQueue

`file` is what is on disk: how far its creation got, the header and the entries. `num`,
`head`, `length` and `memory` are `struct queue`. Appending is two steps, the write of
the entry and the write of the header; sending is two, the relay and `q_drop_head`.
`Exit` may come between any two. A start may find another `queue_depth` and then copies
the file into a new one and renames it. Each behaviour has a disk (`healthy` or
`failing`) and a `queue_error_action` (`stop`, the default, or one that goes on), chosen
at the start in `env`. After an error that stops the plugin, lines already read are
still queued, then the queue is emptied (`stop`). What the network does is not modelled
here: an event is relayed or it stays. `queue_depth` may be raised or lowered at any
start. After it was lowered, `q_open` uses its array of copies beyond the end
(`CloseFound`, `ResizeOverrun`), which is undefined: the model goes on as if it had
found nothing there, or ends in `undefined`. Left out: the mode without a file, `Q_SYNC`
(never set; a crash is one of the process), the lock against a second process.

### RemoteRelay

The plugin is one process: `pc` is where `main` is, or `relay_sock_managed` inside
it (`try`, `send`, `recv`). A connection has the request the server has not read,
the answers the plugin has not read and the state of the server's end. A request
the plugin gave up on stays under way and may reach the server after those of a
later connection; answers may be late or never come; a connection may be reset or
closed from either side. The server is `ServerReads` (the listener, `write_to_log`
and the acknowledgement as one step) with the outcomes that `LogWriter` shows for an
answer, and it ends and starts again. `do_action` is a function of the configured
action, as in the code; `conf` fixes the action per condition. After a stop the
queue is sent once more only if stdin is a pipe, which is left open: auditd gives its
plugins a socketpair (`audispd.c:405`), so that the loop is skipped there, and
audisp-filter a pipe. With tcp,
`transport_ok` is 1 exactly when there is a socket, so only `sock` is kept.
Left out: the ascii format, Kerberos, errors of the local queue (`RemoteQueue`),
answers that this server never sends.

### PluginProcesses

`entry` is the list of plugins with the fields that decide what happens (active, pid,
pipe, `restart_cnt`, inode), `proc` the process table. The dispatcher visits the plugins
one at a time (`todo`) in the loops of `start_plugins`, `event_loop` and `reconfigure`,
and between any two visits plugins end, children are reaped, pids are given out again,
`plugins.d` is edited and HUPs arrive. When a write fails, the restart is a step that
forks and the second write, whose result the code does not look at, another
(`WriteAgain`), so that the new process may have ended in between. `told` is a process
that was sent SIGTERM or whose pipe was closed. What `dequeue` returns is
`PluginQueue`'s subject: here it returns an event, or nothing after a HUP. Left out:
descriptor numbers, formatting, the parsing of a plugin's configuration.

### TcpListener

A message is a sequence of units, so that it can be cut anywhere: in the magic
number, in the header or in the body. `wire` is what a client wrote; each `read`
takes any number of units that fit (`Room`). The handler of a connection is a loop of
`ReadMore` and the `More...` steps, as `auditd_tcp_client_handler` is, and other
handlers run only between two of its calls. Connections are accepted and counted per
address, closed by the timer, by the client or by the network, and told at the end
(`Uninit`). A message cut within its header is answered all the same, with the type and
number that an earlier one left behind it in the buffer; that answer is `STALE`. Left
out: Kerberos, the set-up of the sockets, libwrap, a client that
does not read its answers.

### MainLoop

Three threads: the event loop, the configuration thread and the flush thread. A
signal sets its flag and asks the kernel for its sender; the reply, which carries no
hint of the signal, starts the work; when the request for SIGUSR1 fails, the logs are
rotated all the same, as without a sender, and with fewer than two logs nothing is
(`rotate_logs_now`). Each HUP event has a state (`info`, `config`,
`freed`) so that `pipe_handler` can be seen to use one that it must not. The flush
thread reads `log_fd` in `TestLogFd` and again in `Sync`, while the loop closes the
log and opens it under a number that may be the old one. `owed` are the records for
which a flush was asked. Left out: start-up and shutdown, the contents of
`auditd.conf`, of which only the version counts and whether it can be read.

## 3. Runs

| # | Run | Checks | Shows |
|---|---|---|---|
| 1 | `plugin_queue_ring` | `TypeOK`, `RingWindow`, `DeliveryOrder`, `ImplementsFifo`, `DeliveredEventually`, `HupAfterEvent` | at a fixed depth the ring implements `FifoQueue`, plugins get events in order, none is stranded, and a HUP that meets an event is carried out |
| 2 | `plugin_queue_lifecycle` | `EventAccounting` | with a growing ring, an ending thread and a second one, no event leaks or is freed twice, unless a thread used the ring while another tore it down or afterwards |
| 3 | `plugin_queue_grow` | `DeliveredEventually` (violated) | deepening a ring whose contents wrap strands events |
| 4 | `log_files` | `TypeOK`, `AgeOrder`, `ShiftKeepsLogs`, `RotateLosesOldest`, `ExcessIsOldest` | numbers mean age at every moment; keep_logs loses none, rotate only the oldest, unless a rename failed or, for rotate, an earlier rotation used higher numbers |
| 5 | `log_actions` | `ReadyToWrite`, `OpenLogIsWatched`, `AnsweredOnce`, `SuspensionHolds` | logging is on only with an open log, the open log is the one watched, one truthful answer per remote event, suspensions hold |
| 6 | `remote_queue_file` | `TypeOK`, `MemoryIsFile`, `FileInOrder`, `NothingLost`, `RelayOrder`, `ImplementsDurableFifo` | the queue file is a FIFO that outlives the process |
| 7 | `remote_relay` | `DequeuedIsLogged`, `FirstCopiesInOrder`, `AnswersMatch`, `Delivered`, `StopEnds` | over lost, late and negative answers an event leaves the queue only when it is logged, first copies are in order, no answer is taken for another, with heartbeats every event is delivered, and a stopped plugin ends, the latter two unless the action on low space at the server is one that sends again |
| 8 | `relay_after_reload` | `Delivered` (violated) | as shipped, without heartbeats, a SIGHUP leaves the plugin without a connection for good |
| 9 | `plugin_processes` | `NoStrayProcess`, `UpToDate`, `PidIsRecent`, `HupTakesEffect` | no process is left behind or doubled, an event is lost to a restart only if the new process ends before the second write too, and at most one per restart counted, the list is wrong about a pid only until the next event, a HUP outside a reload takes effect |
| 10 | `tcp_listener` | `TypeOK`, `Intact`, `AnswersInOrder`, `NothingStuck`, `SilentIsClosed` | however the stream is cut, events are logged whole, once and in order and answered so, but for the last entry and answer of a connection that ends within a message; nothing stays in a buffer; silent connections are closed |
| 11 | `main_loop` | `RepliesSuffice`, `EventIsReady`, `HupApplies`, `FlushReachesDisk` | every signal gets a reply, the configuration of a SIGHUP comes into force, every flush request reaches the disk |
| 12 | `second_sighup` | `EventIsReady` (violated) | a SIGHUP during the configuration thread makes the loop use a freed event |

The runs are about the hazards `PROJECT.json` lists. The type invariants of `LogWriter`,
`RemoteRelay`, `PluginProcesses` and `MainLoop` tell the reader what the variables hold;
they are proved, and no run is spent on them.

The violated properties state what a manual page or a comment says of the code;
`PROJECT.json` quotes it. Deadlock is not checked: bounds end every behaviour,
and the daemon may stop.

### Bounds

* `PluginQueue`: a ring of two slots and four events make it wrap around twice and
  overflow; two HUPs overlap; one wake-up without a signal is enough to reach every
  branch behind the wait. The life-cycle run has depths 1 and 2, so growth, restart and
  two threads, also in the middle of a destruction, all happen; it does without wake-ups
  that nobody signalled, which free nothing. `UintMod` is the modulus of `unsigned int`;
  16 lets the counter wrap below zero as in the build and never above.
* `LogRotation`: suffixes up to 4 with limits of 0, 2 and 3 logs give every
  shape of the loops (none, one or two turns); five generations fill them; one
  crash, which may leave one hole, and `RemoveFile` any number of others; a rotation
  within a rotation at each of its renames.
* `LogWriter`: not bounded but for the counter of warnings, which the code itself
  stops at five. The configurations are those of `MCLogWriter`: each value of each
  action and the combinations that nest.
* `RemoteQueue`: depths 2 and 3 with five events wrap both rings, and each start takes
  either, so the depth is raised and lowered; two ends of the process allow a crash, a
  resize and a crash in it or after it.
* `RemoteRelay`: two events and a queue of one fill and overflow it; two faults
  give a retry and a failing retry; three connections let two requests of the past
  be under way beside the one in use; sequence numbers modulo 2 make a late answer
  carry the number of the present request, the worst case.
* `PluginProcesses`: two plugins, three pids (so that one is given out again), one
  restart allowed, two plugins that end, a fork that fails, one edit, and three HUPs:
  one before, one during and one after a reload.
* `TcpListener`: a buffer of six units, a header of three (two of them magic); an
  event that fits exactly, one that is a unit too long, a heartbeat and a line of
  text; two messages over one connection beside a silent one from the same address.
* `MainLoop`: two SIGHUPs, three versions of which one cannot be read, two of the
  other signals, two records with a flush each, two descriptor numbers, one failure.

### Fairness

Each temporal property that something happens needs some, and only what follows is
assumed. Faults, signals, edits and new messages are never forced.

* `PluginQueue` (runs 1 and 3): each outbound thread is weakly fair: the scheduler
  runs it, and plugins empty their pipes. The main thread is weakly fair only inside
  `enqueue` and between setting `disp_hup` and the nudge. A wake-up without a signal
  is never assumed.
* `RemoteRelay` (7 and 8): the plugin runs; records keep arriving (`SelectInput`,
  strongly fair since `select` is entered and left in between) and there are pauses
  between them longer than `heartbeat_timeout` (`SelectTimeout`); a server that is up
  reads what has arrived, and one that is down is started again. Without pauses no
  heartbeat is ever sent, and without records a plugin without heartbeats never
  reconnects.
* `PluginProcesses` (9): the dispatcher runs, zombies are reaped, and a plugin that
  was told to end does. As the nudge of a HUP can be lost (section 5), that the
  dispatcher is woken for it relies on the next event.
* `TcpListener` (10): libev serves every descriptor that is readable again and again
  (strong, as other handlers run in between), a handler that was entered goes on, and
  the timer fires.
* `MainLoop` (11): the loop handles what has arrived, and both threads are scheduled.

## 4. Proofs

Every invariant, action property and refinement that a passing run checks is also
proved, for every value of the constants. Each module of proofs finds an inductive
invariant, shows that every action preserves each of its parts, and derives the
properties from it.

The assumptions on constants are the named ones of the modules: depths, limits and
modulus are positive, bounds are natural numbers, configurations are of their type,
limits on logs fit the range of suffixes, a line of text has at least its line feed. A
theorem that needs more says so in its ASSUME; where it does, the run's own constants
satisfy it.

### `PluginQueueProofs`

For every set of threads, of depths and every bound:

* `TypeCorrect`: `Spec => []TypeOK`. Inductive with `Ownership` (a thread carries
  an event exactly at the labels where the code does) and `DeadIsDead`.
* `EventsAccountedFor`: `EventAccounting`, also while the ring grows, while threads end
  and are started again, and in the middle of `destroy_queue`. Numbers are not inductive,
  places are: `PlaceInv` says that each event dispatched is in some place (`Covered`), in
  no two (`Apart`) and not twice in one (`Once`), and each action moves one event or none;
  a slot that `FreeSlot` has passed is no place of its own. The count follows, a place
  being mapped one to one to the events it holds. `SafeInv` keeps all this as long as
  there was no overlap, and `LifeInv` shows that there is none without a reload that
  leaves no plugin (`~CanBeEmpty`): then a single thread lives, and it ends only at a
  stop, when the main thread dispatches nothing more (`Lifecycle`, `NothingFreedUsed`).
* `RingWindowHolds`, `DeliveredInOrder`: `RingWindow` and `DeliveryOrder` under
  the assumption `FixedRing` (one depth, plugins never all disabled; run 3 shows
  that growth breaks them). Inductive invariant `OrderInv`: the types, the window,
  the order, `Lifecycle` (one thread runs, and it ends only at a stop) and
  `Numbered` (no event is newer than the last one dispatched). The window is what
  makes `enqueue`'s test of the single slot at `q_next` sound; the order of the
  ring needs it, since a put must land behind everything else.
* `RingIsFifo`: under `FixedRing`, `Spec => ImplementsFifo`. The window tells how many
  slots are occupied, so the slot at `q_next` is the one behind the last element, and a
  ring in which it is free is not full: a put appends, a grab takes the head.

### `LogRotationProofs`

For every set of configurations, any number of logs and crashes, with or without
failing renames:

* `RotationTypes`, `HigherIsOlder`: `TypeOK` and `AgeOrder` are invariants.
* `ShiftLosesNothing`, `RotateLosesOne`, `ExcessRemovesOldest`: the three action
  properties of run 4, the second being `RotateLosesOldest`.
* Inductive invariant `RotationInv`: types, `LoopRange` (where the loop variable
  is in each phase), `AgeOrder`, `WithinWidest` (no log has a suffix above `widest`, which
  makes the last of a rotation the oldest of all) and `TargetFree` (the next rename of a
  chain moves into a hole as long as none failed, but for the first of a rotation with a
  limit).

### `LogWriterProofs`

For every set of configurations and every choice of what fails: `TypeCorrect`,
`ReadyToWriteHolds`, `OpenLogIsWatchedHolds`, `AnsweredOnceHolds` and the action property
`SuspensionStays`.
The actions call each other, so the argument is about the operators: a state that is
`Sane` (its fields have their types, an open stream has its descriptor in `log_fd`, what
has a size exists) is
taken to sane states by each function of `auditd-event.c`, and a lemma per function says
what it keeps. `HandlerInv` ties the parts of a reconfigure to the handler that is running.

### `RemoteQueueProofs`

For all depths and bounds:

* `TypeCorrect`: `TypeOK`. The header on disk always describes a window of the file
  (`HeaderInv`), and at each step of `q_open` memory, file and temporary file stand in
  the relation that the next step relies on (`OpenInv`, `ResizeInv`).
* `NothingLostHolds`: `NothingLost`, over ends of the process between any two writes,
  failing accesses and resizes. `Kept`: an event accepted and not relayed is in a slot
  that both the header and, in a running process, `struct queue` count.
* `AppendSlotIsFree`: the slot `q_append` writes to holds no copy, also after a
  resize, a restart or a failed access, so that the error it would report never comes.
* `MemoryIsFileHolds`: `MemoryIsFile`, whether `queue_depth` is raised or lowered.
* `FileInOrderHolds`, `RelayOrderHolds`: `FileInOrder` and the action property
  `RelayOrder`, from `OrderInv` (entries increase from the head on, in the windows of the
  header and of `struct queue`) and `HealthyInv` (on a healthy disk the two differ only
  while an entry is appended).
* `DurableFifo`: `Spec => ImplementsDurableFifo`. The write of the header is the step
  that is a Put or a Take; a resize and a restart are stuttering steps.

### `RemoteRelayProofs`

For all configurations, moduli of `sequence_id` and faults of the network:

* `TypeCorrect`: the queue, the number of tries and `sequence_id` stay within limits.
* `AnswersMatchHolds`: `AnswersMatch`. `WireInv`: the connection in use carries at most
  the request under way or its answer. It holds since the plugin closes a connection
  whenever it gives up on an answer, and is why a wrapping number does no harm.
* `DequeuedIsLoggedHolds`, `FirstCopiesInOrderHolds`: assuming `Careful`, that the
  actions on a full or failing disk and on the end of the server do not go on. Those that
  do go on drop what the server refused, as the configuration asks. `QueueInv`: the
  server's log is behind the head of the queue, and a request that is still under way on
  some connection is one for the head, or one that the log has already (`LateRequests`).

### `PluginProcessesProofs`

For all sets of plugins and pids: `TypeCorrect`, `NoStrayProcessHolds`, `UpToDateHolds`
and `PidIsRecentHolds`. `StrayInv` (a process not told to end is the one the list names),
`PidInv` (and conversely, until that process ends), `GivenInv` (an active plugin that a
loop has visited has the event, has used up its restarts, or lacks at most `restart_cnt`
events after its process ended) and `ListInv` (who is still to
be visited in each loop) are preserved by every visit and everything that may happen between
two visits.

### `TcpListenerProofs`

For every set of connections, messages, size of the buffer, header and magic number:

* `TypeCorrect`: no read goes beyond the buffer and no index of the handler beyond what
  was read.
* `IntactHolds`, `AnswersInOrderHolds`: `Intact` and `AnswersInOrder`. `StreamInv` says
  of a connection that has not ended that there is a number h of messages handled such
  that buffer and wire together continue the stream after message h, that no end of a
  message is in the part of the buffer already scanned, and that exactly the messages up
  to h were answered and logged. A stale answer is given only in the step that closes
  the connection (`NoStale`), so it can only be the last. Each read moves units from the
  wire to the buffer; each `More...` step ends message h + 1 or leaves it incomplete.

### `MainLoopProofs`

* `TypeCorrect`; `RepliesSufficeHolds`: `RepliesSuffice`, whichever signals merge or fail.
* `EventIsReadyHolds`: `EventIsReady`, assuming `Patient = TRUE`, that SIGHUPs do not
  overlap; run 12 shows that it fails otherwise. `HandOver`: a SIGHUP is in
  one place at a time (a reply awaited, the configuration thread, the pipe), and there
  `reconfig_ev` points to an event in the state that the next step needs.

### Only model-checked

Liveness under fairness, which is outside what the prover does: `DeliveredEventually`,
`HupAfterEvent`, `Delivered`, `StopEnds`, `HupTakesEffect`, `NothingStuck`,
`SilentIsClosed`, `HupApplies` and `FlushReachesDisk`.

## 5. Other observations

Met while modelling and not kept as runs:

* `nudge_queue` signals without the lock: a HUP that falls between `dequeue`'s
  test of `disp_hup` and its wait is noticed only with the next event
  (`audisp/queue.c:221`). `HupAfterEvent` is what remains true.
* `dequeue` lowers the unsigned `currently_used` even if it found no event
  (`audisp/queue.c:212`), so the depth in the state report wraps after a wake-up
  without a signal. The counter is only printed.
* `destroy_queue` does not reset `q_next` (`audisp/queue.c:257-271`), although
  `init_queue` relies on it: after a restart the producer and the consumer start
  at different slots.
* The plugin list is cleared before the queue is destroyed
  (`audisp/audispd.c:378-388`), so a HUP in between starts a second thread on a
  ring that is about to go; the life-cycle run reaches the remainder by zero.
* `destroy_queue` frees without the lock, keeps the pointers and resets `q_depth` last
  (`audisp/queue.c:257-271`). After a reload that leaves no plugin, the main thread may
  put an event into a slot already passed, which leaks; a second thread may take an event
  that was freed, and free it again; and `libdisp_reconfigure` between the reset of
  `q_depth` and that of `processing_suspended` leaves the new queue suspended.
  `EventAccounting` excludes the first two by `overlapped`.
* `check_excess_logs` stops at the first number that is free
  (`src/auditd-event.c:1046`), so logs beyond a hole stay.
* A rotation during a suspension opens the log again, and `resume_logging` then
  keeps a log that was moved or deleted meanwhile (`src/auditd-event.c:647,1201`).
* With a `queue_error_action` that goes on, a header that could not be written
  after `q_drop_head` lets the next append overwrite an entry the file still
  counts (`audisp/plugins/remote/queue.c:472`); `FileInOrder` excludes that case.

In `RemoteRelay`:

* `relay_sock_managed` makes `max_tries_per_record` + 1 attempts
  (`audisp-remote.c:1557`), where the manual page says that many.
* A reconnection inside `relay_sock_managed` leaves `remote_ended` at 1, so that
  heartbeats stay off on the new connection (`audisp-remote.c:554`). No event is lost
  by it, since the next record connects.
* With `disk_low_action = warn_once` a record that the server did log is sent again
  for as long as its disk is low (`audisp-remote.c:624`). Where stdin is a pipe, the loop
  after a stop does the same and looks neither at `stop` nor at the count
  (`audisp-remote.c:629-631`). `Delivered` and `StopEnds` exclude such actions by
  `DiskLowSettled`; the shipped one, ignore, is not among them.
* Under auditd stdin is a socketpair (`audispd.c:405`) and `is_pipe` false, so the queue
  is not sent at the end; without a queue file what it holds is gone.

In `PluginProcesses`:

* A HUP that arrives during a reload is erased with it (`audisp/audispd.c:375`);
  `HupTakesEffect` excludes that case.
* `plugin_child_handler` has no caller: the list keeps the pid of a plugin that was
  reaped until the next event, and a HUP may go to another process by then.
  `PidIsRecent` bounds how long.
* The result of the write after a restart is not looked at (`audisp/audispd.c:565`): a
  plugin whose new process ends first, for instance because its exec fails, loses the
  event. `UpToDate` bounds the loss by `restart_cnt`.
* A fork that fails closes the pipe but keeps its numbers, which are closed once more
  at the next reload (`audisp/audispd.c:411`).
* A plugin that has used up its restarts is logged as restarted and stays active
  (`audisp/audispd.c:139`).

In `TcpListener`:

* `private.h:45` allows lengths up to `MAX_AUDIT_MESSAGE_LENGTH`, but a message whose
  body is longer than that less the header never becomes complete: it is logged cut
  and the connection closed, and the client sends it again.
* A connection that ends within a message has the cut part logged, one that ends
  within a header what an earlier message left in the buffer (`auditd-listen.c:620`);
  `Intact` allows one such entry, the last of a closed connection. The latter is also
  acknowledged, with the number found there (`auditd-listen.c:557-575`), so that an
  earlier message may be answered twice; `AnswersInOrder` allows one such answer, the last.
* Messages without a header are dropped silently by `client_message`.
* After a reconfigure to `tcp_listen_port = 0` the listener goes on, but its clients
  are not told at the end (`auditd-listen.c:1137`).

In `MainLoop`: a refused SIGHUP also formats the event that was just freed
(`auditd.c:531-535`).

Each of the following contradicts a line of the documentation and can be seen by
dropping the exception from the property that makes it:

* After a rename that failed, `rotate_logs` goes on with the chain and the next rename
  overwrites the log that could not be moved (`auditd-event.c:1161`); auditd.conf(5) says
  of keep_logs "This prevents audit logs from being overwritten". `ShiftKeepsLogs`
  excludes it by `~failed`.
* `reconfigure` lifts a suspension when the size settings change but does not open the
  log that the suspension closed, and `handle_event` then writes through a null stream
  (`auditd-event.c:1510`); auditd.conf(5) says of suspend "The daemon will still be
  alive". `ReadyToWrite` excludes it by `~resized`.
* A rotation leaves logs beyond `num_logs` - 1 alone. After keep_logs, or after
  `num_logs` was lowered, a space action that rotates (`auditd-event.c:837`) therefore
  overwrites a log in the middle and keeps older ones; auditd.conf(5) says of rotate in
  a space action "will rotate logs, losing the oldest to free up space".
  `RotateLosesOldest` excludes it by `widest <= top`.
* `q_open` allocates the copies for the depth asked for and then takes `num_entries`
  from the file; after `queue_depth` was lowered the resize and `q_close` index beyond
  them (`queue.c:297`), although queue.h allows another depth where `Q_RESIZE` is set. It is
  the state `undefined` of `RemoteQueue`.
* A process that ends between the header and the allocation of a new queue file leaves
  one that every later `q_open` refuses (`queue.c:223`), against notes.txt, "intended to
  be resilient against unexpected termination of the process". In the model it is the
  state `header` with the plugin down, after which `CheckFile` can only fail.

## 6. Not modelled

* The bundled products and binaries: each is a project of its own, and the audit
  daemon does not interact with them. They make up nearly all lines of the repository.
* Parsing, interpretation, searching and reporting (auparse, ausearch, aureport), and
  the requests of libaudit and auditctl: sequential work on text, or calls whose meaning
  is the kernel's. The lists of incomplete events are the part with state of its own
  and would make a module.
* The intrusion detection plugin (counters per origin with timers) and the plugins
  that copy their input.
* libev, on which the models rely for one handler at a time.
* Allocation failures, Kerberos, the foreground mode, start-up and shutdown of the daemon.

## 7. Plan

* Safety parts of the liveness arguments, as far as they are invariants: that a thread
  of `PluginQueue` waits only beside an empty ring, and that `MainLoop` never forgets a
  record it owes the disk.
* What `EventAccounting` leaves open when the ring is torn down and rebuilt: an order that
  holds within one life of the ring.
* Event assembly of ausearch as a module, if its lists turn out to have properties
  that its tests do not reach.
