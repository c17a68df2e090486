----------------------------- MODULE PluginQueue -----------------------------
(***************************************************************************)
(* The queue between auditd's main thread and its plugins: the ring buffer *)
(* of audisp/queue.c, the main thread's calls into it through              *)
(* src/auditd-dispatch.c and the libdisp_* functions of audisp/audispd.c,  *)
(* and the detached outbound thread that empties it.                       *)
(*                                                                         *)
(* Both threads share every variable of queue.c.  queue_lock protects the  *)
(* ring inside enqueue, dequeue and increase_queue_depth; destroy_queue,   *)
(* nudge_queue, reset_suspended and resume_queue take no lock, and neither *)
(* do disp_hup, stop and the plugin list.  A critical section is one       *)
(* action; the one place where a thread keeps the lock between two actions *)
(* is the step from dequeue's test of an empty ring to pthread_cond_wait,  *)
(* because nudge_queue may signal in between.  destroy_queue is one action *)
(* per slot it frees, per free(q) and per group of assignments, so that    *)
(* the other threads can meet a ring that is half torn down.               *)
(*                                                                         *)
(* An event is the number of the dispatch_event call that made it; the     *)
(* null pointer is 0.                                                      *)
(***************************************************************************)
EXTENDS Integers, Sequences, FiniteSets

CONSTANTS
  Depths,           \* q_depth values a configuration file may carry
  OverflowActions,  \* overflow_action values it may carry
  Threads,          \* outbound threads libdisp_init can create during a run
  CanBeEmpty,       \* may a reload find no active plugin?
  MaxEvents,        \* bound: events dispatched
  MaxHups,          \* bound: reconfigurations
  MaxSpurious,      \* bound: spurious returns of pthread_cond_wait
  UintMod           \* modulus of unsigned int (2^32 in the build)

ASSUME DepthsAssumption == Depths \subseteq Nat \ {0} /\ Depths # {}
ASSUME ThreadsAssumption == Threads # {}
ASSUME BoundsAssumption ==
  /\ MaxEvents \in Nat /\ MaxHups \in Nat /\ MaxSpurious \in Nat
  /\ UintMod \in Nat /\ \A d \in Depths : d < UintMod
  /\ CanBeEmpty \in BOOLEAN

VARIABLES
  \* queue.c
  q, q_next, q_last, q_depth,
  processing_suspended, currently_used, max_used, overflowed,
  \* audispd.c
  disp_hup, stop,
  need_queue_depth_change,  \* copy_config asked for a deeper ring
  daemon_config,            \* [q_depth, overflow_action]
  plugins_listed,           \* plist_count(&plugin_conf) # 0
  \* main thread
  mpc, ev, retry_cnt,
  \* outbound threads
  opc, hand,
  fslot,                    \* destroy_queue's loop index
  \* the heap
  q_alive,                  \* q points to memory that is still allocated
  overlapped,               \* the ring was used while, or after, it was torn down
  \* history and bounds
  sent, hups, spurious, delivered, lost

queueVars == <<q, q_next, q_last, q_depth, currently_used, max_used>>
flagVars  == <<processing_suspended, overflowed>>
dispVars  == <<disp_hup, stop, need_queue_depth_change, daemon_config,
               plugins_listed>>
mainVars  == <<mpc, ev, retry_cnt>>
heapVars  == <<fslot, q_alive, overlapped>>
histVars  == <<sent, hups, spurious, delivered, lost>>
vars == <<queueVars, flagVars, dispVars, mainVars, opc, hand, heapVars,
          histVars>>

NULL == 0
Events == 1 .. MaxEvents
Slots == 0 .. q_depth - 1
Config == [q_depth : Depths, overflow_action : OverflowActions]
MainPC == {"idle", "check", "put", "hup", "done", "dead"}
OutPC == {"none", "top", "dequeue", "towait", "waiting", "woken", "null",
          "deliver", "reconfigure", "huphandled", "exit", "destroy", "freed",
          "cleared"}
Destroying == {"destroy", "freed"}

EmptyRing(d) == [i \in 0 .. d - 1 |-> NULL]
Occupied == {i \in Slots : q[i] # NULL}
LockFree == \A t \in Threads : opc[t] # "towait"
Waiting == {t \in Threads : opc[t] = "waiting"}

(* The ring is being torn down by one of the others, or is gone. *)
Torn(others) == ~q_alive \/ \E t \in others : opc[t] \in Destroying

(* A step that reads or writes q.  Freed memory reads as what it last held;  *)
(* HeapFault and EnqueueCrash are the other outcome.                        *)
UseRing(others) ==
  /\ overlapped' = (overlapped \/ Torn(others))
  /\ UNCHANGED <<fslot, q_alive>>

NextIndexNoWrap(n) == n + 1
(* The slot after n. *)
NextIndex(n) == (n + 1) % q_depth

SignalLost == opc' = opc
(* pthread_cond_signal: wakes one waiter, or nobody. *)
Signal ==
  IF Waiting = {} THEN opc' = opc
  ELSE \E t \in Waiting : opc' = [opc EXCEPT ![t] = "woken"]

Goto(t, label) == opc' = [opc EXCEPT ![t] = label]

-----------------------------------------------------------------------------
(* The state libdisp_init leaves: plugins listed, ring empty, one thread.  *)
Init ==
  /\ daemon_config \in Config
  /\ q_depth = daemon_config.q_depth
  /\ q = EmptyRing(q_depth)
  /\ q_next = 0 /\ q_last = 0
  /\ processing_suspended = FALSE
  /\ currently_used = 0 /\ max_used = 0 /\ overflowed = FALSE
  /\ disp_hup = FALSE /\ stop = FALSE
  \* copy_config ran from a zeroed daemon_config and set the flag
  /\ need_queue_depth_change = TRUE
  /\ plugins_listed = TRUE
  /\ mpc = "idle" /\ ev = NULL /\ retry_cnt = 0
  /\ \E t \in Threads :
       opc = [u \in Threads |-> IF u = t THEN "top" ELSE "none"]
  /\ hand = [t \in Threads |-> NULL]
  /\ fslot = [t \in Threads |-> 0] /\ q_alive = TRUE /\ overlapped = FALSE
  /\ sent = 0 /\ hups = 0 /\ spurious = 0
  /\ delivered = << >> /\ lost = {}

-----------------------------------------------------------------------------
(* The main thread.                                                        *)

(* dispatch_event: with no plugin listed the event goes nowhere. *)
DispatchEvent ==
  /\ mpc = "idle" /\ sent < MaxEvents
  /\ sent' = sent + 1
  /\ IF plugins_listed
     THEN ev' = sent + 1 /\ mpc' = "check" /\ UNCHANGED lost
     ELSE lost' = lost \cup {sent + 1} /\ UNCHANGED <<ev, mpc>>
  /\ UNCHANGED <<queueVars, flagVars, dispVars, retry_cnt, opc, hand, hups,
                 spurious, delivered, heapVars>>

(* enqueue, first test: a suspended queue frees the event. *)
EnqueueCheckSuspended ==
  /\ mpc = "check"
  /\ retry_cnt' = 0
  /\ IF processing_suspended
     THEN mpc' = "idle" /\ ev' = NULL /\ lost' = lost \cup {ev}
     ELSE mpc' = "put" /\ UNCHANGED <<ev, lost>>
  /\ UNCHANGED <<queueVars, flagVars, dispVars, opc, hand, sent, hups,
                 spurious, delivered, heapVars>>

EnqueuePutOverwrites ==
  /\ mpc = "put" /\ retry_cnt <= 3 /\ LockFree /\ q_depth # 0
  /\ q' = [q EXCEPT ![q_next % q_depth] = ev]
  /\ q_next' = NextIndex(q_next % q_depth)
  /\ currently_used' = (currently_used + 1) % UintMod
  /\ max_used' = IF currently_used' > max_used THEN currently_used' ELSE max_used
  /\ Signal /\ UseRing(Threads)
  /\ mpc' = "idle" /\ ev' = NULL
  /\ UNCHANGED <<q_last, q_depth, flagVars, dispVars, retry_cnt, hand, histVars>>
(* enqueue, the slot at q_next is free. *)
EnqueuePut ==
  LET n == q_next % q_depth IN
  /\ mpc = "put" /\ retry_cnt <= 3 /\ LockFree /\ q_depth # 0
  /\ q[n] = NULL
  /\ q' = [q EXCEPT ![n] = ev]
  /\ q_next' = NextIndex(n)
  /\ currently_used' = (currently_used + 1) % UintMod
  /\ max_used' = IF currently_used' > max_used THEN currently_used' ELSE max_used
  /\ Signal /\ UseRing(Threads)
  /\ mpc' = "idle" /\ ev' = NULL
  /\ UNCHANGED <<q_last, q_depth, flagVars, dispVars, retry_cnt, hand, histVars>>

EnqueueRetrySkips ==
  /\ mpc = "put" /\ retry_cnt <= 3 /\ LockFree /\ q_depth # 0
  /\ q[q_next % q_depth] # NULL
  /\ retry_cnt' = retry_cnt + 1
  /\ q_next' = NextIndex(q_next) /\ UseRing(Threads)
  /\ UNCHANGED <<q, q_last, q_depth, currently_used, max_used, flagVars,
                 dispVars, mpc, ev, opc, hand, histVars>>
(* enqueue, the slot is taken: sleep 2 ms and try again. *)
EnqueueRetry ==
  /\ mpc = "put" /\ retry_cnt <= 3 /\ LockFree /\ q_depth # 0
  /\ q[q_next % q_depth] # NULL
  /\ retry_cnt' = retry_cnt + 1 /\ UseRing(Threads)
  /\ UNCHANGED <<queueVars, flagVars, dispVars, mpc, ev, opc, hand, histVars>>

(* enqueue after the last retry: free the event, then do_overflow_action. *)
EnqueueOverflow ==
  /\ mpc = "put" /\ retry_cnt > 3
  /\ lost' = lost \cup {ev}
  /\ overflowed' = TRUE
  /\ processing_suspended' =
       (processing_suspended \/ daemon_config.overflow_action = "suspend")
  /\ mpc' = "idle" /\ ev' = NULL
  /\ UNCHANGED <<queueVars, dispVars, retry_cnt, opc, hand, sent, hups,
                 spurious, delivered, heapVars>>

(* A remainder by q_depth = 0, an access to freed memory or the abort of    *)
(* malloc's own checks kills the process, all threads with it.              *)
Die ==
  /\ mpc' = "dead" /\ opc' = [t \in Threads |-> "none"]
  /\ overlapped' = TRUE
  /\ UNCHANGED <<queueVars, flagVars, dispVars, ev, retry_cnt, hand, fslot,
                 q_alive, histVars>>

(* enqueue on a ring that is gone: q_next % 0, or q[n] in freed memory. *)
EnqueueCrash ==
  /\ mpc = "put" /\ retry_cnt <= 3 /\ LockFree
  /\ q_depth = 0 \/ ~q_alive
  /\ Die

(* copy_config *)
CopyConfig(c) ==
  /\ daemon_config' = c
  /\ need_queue_depth_change' =
       (need_queue_depth_change \/ c.q_depth > daemon_config.q_depth)

(* libdisp_reconfigure while plugins are listed, up to copy_config. *)
ReconfigureRunning ==
  /\ mpc = "idle" /\ plugins_listed /\ hups < MaxHups
  /\ hups' = hups + 1
  /\ \E c \in Config : CopyConfig(c)
  /\ mpc' = "hup"
  /\ UNCHANGED <<queueVars, flagVars, disp_hup, stop, plugins_listed, ev,
                 retry_cnt, opc, hand, sent, spurious, delivered, lost, heapVars>>

(* ... its second half: disp_hup = 1 and nudge_queue, which has no lock. *)
NudgeHup ==
  /\ mpc = "hup"
  /\ disp_hup' = TRUE
  /\ Signal
  /\ mpc' = "idle"
  /\ UNCHANGED <<queueVars, flagVars, stop, need_queue_depth_change,
                 daemon_config, plugins_listed, ev, retry_cnt, hand, histVars, heapVars>>

(* init_queue: only a destroyed queue is set up again. *)
InitQueue(size) ==
  IF q_depth = 0
  THEN /\ q_depth' = size /\ q' = EmptyRing(size) /\ q_alive' = TRUE
       /\ processing_suspended' = FALSE
       /\ UNCHANGED <<q_next, q_last, currently_used, max_used, overflowed>>
  ELSE UNCHANGED <<queueVars, flagVars, q_alive>>

(* libdisp_reconfigure with an empty list: libdisp_init.  The directory may *)
(* hold no active plugin, and then no thread is started.                    *)
ReconfigureDead ==
  /\ mpc = "idle" /\ ~plugins_listed /\ hups < MaxHups
  /\ hups' = hups + 1
  /\ \E c \in Config : CopyConfig(c)
  /\ \/ /\ plugins_listed' = TRUE
        /\ InitQueue(daemon_config'.q_depth)
        /\ \E t \in Threads : opc[t] = "none" /\ Goto(t, "top")
     \/ UNCHANGED <<plugins_listed, queueVars, flagVars, opc, q_alive>>
  /\ UNCHANGED <<disp_hup, stop, mainVars, hand, fslot, overlapped, sent,
                 spurious, delivered, lost>>

(* libdisp_resume, on SIGUSR2. *)
ResumeQueue ==
  /\ mpc = "idle" /\ processing_suspended
  /\ processing_suspended' = FALSE
  /\ UNCHANGED <<queueVars, overflowed, dispVars, mainVars, opc, hand, histVars, heapVars>>

(* libdisp_shutdown, the main thread's last call. *)
Shutdown ==
  /\ mpc = "idle"
  /\ stop' = TRUE
  /\ IF plugins_listed THEN Signal ELSE UNCHANGED opc
  /\ mpc' = "done"
  /\ UNCHANGED <<queueVars, flagVars, disp_hup, need_queue_depth_change,
                 daemon_config, plugins_listed, ev, retry_cnt, hand, histVars, heapVars>>

-----------------------------------------------------------------------------
(* An outbound thread.                                                     *)

(* event_loop: while (stop == 0). *)
LoopTop(t) ==
  /\ opc[t] = "top"
  /\ Goto(t, IF stop THEN "exit" ELSE "dequeue")
  /\ UNCHANGED <<queueVars, flagVars, dispVars, mainVars, hand, histVars, heapVars>>

GrabEventKeepsSlot(t) ==
  LET n == q_last % q_depth IN
  /\ q[n] # NULL
  /\ hand' = [hand EXCEPT ![t] = q[n]]
  /\ q_last' = NextIndex(n)
  /\ currently_used' = (currently_used - 1) % UintMod
  /\ Goto(t, "deliver")
  /\ UNCHANGED <<q, q_next, q_depth, max_used>>
(* The common end of dequeue: take the event at q_last. *)
GrabEvent(t) ==
  LET n == q_last % q_depth IN
  /\ q[n] # NULL
  /\ hand' = [hand EXCEPT ![t] = q[n]]
  /\ q' = [q EXCEPT ![n] = NULL]
  /\ q_last' = NextIndex(n)
  /\ currently_used' = (currently_used - 1) % UintMod
  /\ Goto(t, "deliver")
  /\ UNCHANGED <<q_next, q_depth, max_used>>

(* The same end when the slot is still empty: the counter goes down anyway. *)
GrabNothing(t) ==
  /\ q[q_last % q_depth] = NULL
  /\ currently_used' = (currently_used - 1) % UintMod
  /\ Goto(t, "null")
  /\ UNCHANGED <<q, q_next, q_last, q_depth, max_used, hand>>

(* dequeue up to its pthread_cond_wait. *)
Dequeue(t) ==
  /\ opc[t] = "dequeue" /\ LockFree
  /\ \/ /\ disp_hup
        /\ Goto(t, "null") /\ UNCHANGED <<queueVars, hand, heapVars>>
     \/ /\ ~disp_hup /\ q_depth # 0 /\ q[q_last % q_depth] = NULL
        /\ Goto(t, "towait") /\ UNCHANGED <<queueVars, hand>>
        /\ UseRing(Threads \ {t})
     \/ /\ ~disp_hup /\ q_depth # 0 /\ GrabEvent(t)
        /\ UseRing(Threads \ {t})
  /\ UNCHANGED <<flagVars, dispVars, mainVars, histVars>>

(* pthread_cond_wait gives the lock back and blocks. *)
CondWait(t) ==
  /\ opc[t] = "towait"
  /\ Goto(t, "waiting")
  /\ UNCHANGED <<queueVars, flagVars, dispVars, mainVars, hand, histVars, heapVars>>

(* POSIX lets pthread_cond_wait return without a signal. *)
SpuriousWakeup(t) ==
  /\ opc[t] = "waiting" /\ spurious < MaxSpurious
  /\ spurious' = spurious + 1
  /\ Goto(t, "woken")
  /\ UNCHANGED <<queueVars, flagVars, dispVars, mainVars, hand, sent, hups,
                 delivered, lost, heapVars>>

(* dequeue after the wait, which is not in a loop. *)
DequeueWoken(t) ==
  /\ opc[t] = "woken" /\ LockFree
  /\ \/ /\ disp_hup
        /\ Goto(t, "null") /\ UNCHANGED <<queueVars, hand, heapVars>>
     \/ /\ ~disp_hup /\ q_depth # 0
        /\ (GrabEvent(t) \/ GrabNothing(t))
        /\ UseRing(Threads \ {t})
  /\ UNCHANGED <<flagVars, dispVars, mainVars, histVars>>

(* dequeue on a ring that another thread destroyed: q_last % 0. *)
DequeueCrash(t) ==
  /\ opc[t] \in {"dequeue", "woken"} /\ LockFree /\ ~disp_hup /\ q_depth = 0
  /\ Die

NullReturnedLoops(t) ==
  /\ opc[t] = "null"
  /\ Goto(t, "top")
  /\ UNCHANGED <<queueVars, flagVars, dispVars, mainVars, hand, heapVars,
                 histVars>>
(* event_loop got NULL: leave for a HUP, otherwise loop. *)
NullReturned(t) ==
  /\ opc[t] = "null"
  /\ Goto(t, IF disp_hup THEN "reconfigure" ELSE "top")
  /\ UNCHANGED <<queueVars, flagVars, dispVars, mainVars, hand, heapVars,
                 histVars>>

(* event_loop hands the event to the plugins unless stop is set, frees it,  *)
(* and leaves the loop for a HUP.                                           *)
DeliverEvent(t) ==
  /\ opc[t] = "deliver"
  /\ hand' = [hand EXCEPT ![t] = NULL]
  /\ IF stop
     THEN lost' = lost \cup {hand[t]} /\ UNCHANGED delivered
     ELSE delivered' = Append(delivered, hand[t]) /\ UNCHANGED lost
  /\ Goto(t, IF disp_hup /\ ~stop THEN "reconfigure" ELSE "top")
  /\ UNCHANGED <<queueVars, flagVars, dispVars, mainVars, sent, hups, spurious, heapVars>>

(* increase_queue_depth: realloc, the new slots empty, the indices kept.    *)
(* What realloc makes of a ring that is gone is what was left of it; the    *)
(* other outcome is HeapFault.                                              *)
IncreaseQueueDepth(t, size) ==
  IF size > q_depth
  THEN /\ q' = [i \in 0 .. size - 1 |-> IF i \in Slots THEN q[i] ELSE NULL]
       /\ q_depth' = size /\ q_alive' = TRUE
       /\ overflowed' = FALSE
       /\ overlapped' = (overlapped \/ Torn(Threads \ {t}))
  ELSE UNCHANGED <<q, q_depth, q_alive, overflowed, overlapped>>

(* reconfigure: deepen the ring if asked, lift the suspension, reload the   *)
(* plugins; outbound_thread_main ends the thread when none is active.       *)
Reconfigure(t) ==
  /\ opc[t] = "reconfigure" /\ LockFree
  /\ IF need_queue_depth_change
     THEN IncreaseQueueDepth(t, daemon_config.q_depth)
     ELSE UNCHANGED <<q, q_depth, q_alive, overflowed, overlapped>>
  /\ need_queue_depth_change' = FALSE
  /\ processing_suspended' = FALSE
  /\ \/ Goto(t, "huphandled")
     \/ CanBeEmpty /\ Goto(t, "exit")
  /\ UNCHANGED <<q_next, q_last, currently_used, max_used, disp_hup, stop,
                 daemon_config, plugins_listed, mainVars, hand, fslot,
                 histVars>>

(* outbound_thread_main: disp_hup = 0, whatever was set meanwhile. *)
HupHandled(t) ==
  /\ opc[t] = "huphandled"
  /\ disp_hup' = FALSE
  /\ Goto(t, "top")
  /\ UNCHANGED <<queueVars, flagVars, stop, need_queue_depth_change,
                 daemon_config, plugins_listed, mainVars, hand, histVars, heapVars>>

(* outbound_thread_main on its way out: SIGTERM the plugins, clear the list *)
(* and call destroy_queue, which takes no lock.                             *)
ClearPlugins(t) ==
  /\ opc[t] = "exit"
  /\ plugins_listed' = FALSE
  /\ fslot' = [fslot EXCEPT ![t] = 0]
  /\ Goto(t, "destroy")
  /\ UNCHANGED <<queueVars, flagVars, disp_hup, stop, need_queue_depth_change,
                 daemon_config, mainVars, hand, q_alive, overlapped, histVars>>

(* destroy_queue frees the event of the next slot and leaves the pointer.   *)
FreeSlot(t) ==
  /\ opc[t] = "destroy" /\ fslot[t] < q_depth
  /\ lost' = lost \cup ({q[fslot[t]]} \ {NULL})
  /\ fslot' = [fslot EXCEPT ![t] = @ + 1]
  /\ overlapped' = (overlapped \/ Torn(Threads \ {t}))
  /\ UNCHANGED <<queueVars, flagVars, dispVars, mainVars, opc, hand, q_alive,
                 sent, hups, spurious, delivered>>

FreeRingEarly(t) ==
  /\ opc[t] = "destroy" /\ fslot[t] + 1 >= q_depth
  /\ q_alive' = FALSE
  /\ overlapped' = (overlapped \/ Torn(Threads \ {t}))
  /\ Goto(t, "freed")
  /\ UNCHANGED <<queueVars, flagVars, dispVars, mainVars, hand, fslot, histVars>>
(* ... then the ring; q, q_depth and the indices still say it is there.     *)
FreeRing(t) ==
  /\ opc[t] = "destroy" /\ fslot[t] >= q_depth
  /\ q_alive' = FALSE
  /\ overlapped' = (overlapped \/ Torn(Threads \ {t}))
  /\ Goto(t, "freed")
  /\ UNCHANGED <<queueVars, flagVars, dispVars, mainVars, hand, fslot, histVars>>

(* ... resets q_last and q_depth, but not q_next, ...                       *)
ResetIndices(t) ==
  /\ opc[t] = "freed"
  /\ q' = EmptyRing(0) /\ q_last' = 0 /\ q_depth' = 0
  /\ Goto(t, "cleared")
  /\ UNCHANGED <<q_next, currently_used, max_used, flagVars, dispVars, mainVars,
                 hand, heapVars, histVars>>

(* ... and the rest, even if libdisp_init has set up a new ring meanwhile.  *)
ResetCounters(t) ==
  /\ opc[t] = "cleared"
  /\ processing_suspended' = TRUE
  /\ currently_used' = 0 /\ max_used' = 0 /\ overflowed' = FALSE
  /\ Goto(t, "none")
  /\ UNCHANGED <<q, q_next, q_last, q_depth, dispVars, mainVars, hand,
                 heapVars, histVars>>

(* What thread t frees, reallocates or reads next has been freed already.   *)
UsesFreed(t) ==
  \/ opc[t] \in {"dequeue", "woken"} /\ ~disp_hup /\ ~q_alive
  \/ opc[t] = "deliver" /\ hand[t] \in lost
  \/ /\ opc[t] = "reconfigure" /\ need_queue_depth_change
     /\ daemon_config.q_depth > q_depth /\ ~q_alive
  \/ opc[t] = "destroy" /\ ~q_alive
  \/ opc[t] = "destroy" /\ fslot[t] < q_depth /\ q[fslot[t]] \in lost

(* ... and the process does not survive it. *)
HeapFault(t) == UsesFreed(t) /\ Die

-----------------------------------------------------------------------------
Enqueue == EnqueueCheckSuspended \/ EnqueuePut \/ EnqueueRetry \/ EnqueueOverflow

MainNext ==
  \/ DispatchEvent \/ Enqueue \/ EnqueueCrash
  \/ ReconfigureRunning \/ NudgeHup \/ ReconfigureDead
  \/ ResumeQueue \/ Shutdown

(* What the outbound thread does by itself; SpuriousWakeup is not its doing *)
OutboundStep(t) ==
  \/ LoopTop(t) \/ Dequeue(t) \/ CondWait(t) \/ DequeueWoken(t)
  \/ NullReturned(t) \/ DeliverEvent(t) \/ Reconfigure(t) \/ HupHandled(t)
  \/ ClearPlugins(t)
  \/ FreeSlot(t) \/ FreeRing(t) \/ ResetIndices(t) \/ ResetCounters(t)

OutboundNext(t) ==
  OutboundStep(t) \/ SpuriousWakeup(t) \/ DequeueCrash(t) \/ HeapFault(t)

Next == MainNext \/ \E t \in Threads : OutboundNext(t)

Spec == Init /\ [][Next]_vars

(* The scheduler runs every runnable thread; signals and kernel events may  *)
(* never come, so the main thread is only fair inside a call.               *)
FairSpec ==
  /\ Spec
  /\ WF_vars(Enqueue) /\ WF_vars(NudgeHup)
  /\ \A t \in Threads : WF_vars(OutboundStep(t))

-----------------------------------------------------------------------------
(* Properties.                                                             *)

Delivered == {delivered[k] : k \in 1 .. Len(delivered)}
InRing == {q[i] : i \in Occupied}

(* Slots whose event destroy_queue has freed. *)
Passed ==
  {i \in Slots : \E t \in Threads :
                   \/ opc[t] = "destroy" /\ i < fslot[t]
                   \/ opc[t] = "freed"}
Live == Occupied \ Passed
InLive == {q[i] : i \in Live}
InHand == {hand[t] : t \in Threads} \ {NULL}
WithMain == {ev} \ {NULL}

QueueTypes ==
  /\ q_depth \in Depths \cup {0}
  /\ q \in [Slots -> Events \cup {NULL}]
  /\ \E d \in Depths : q_next \in 0 .. d - 1
  /\ \E d \in Depths : q_last \in 0 .. d - 1
  /\ currently_used \in 0 .. UintMod - 1
  /\ max_used \in 0 .. UintMod - 1

FlagTypes ==
  /\ processing_suspended \in BOOLEAN /\ overflowed \in BOOLEAN
  /\ disp_hup \in BOOLEAN /\ stop \in BOOLEAN
  /\ need_queue_depth_change \in BOOLEAN /\ plugins_listed \in BOOLEAN

ThreadTypes ==
  /\ daemon_config \in Config
  /\ mpc \in MainPC /\ ev \in Events \cup {NULL} /\ retry_cnt \in 0 .. 4
  /\ opc \in [Threads -> OutPC]
  /\ hand \in [Threads -> Events \cup {NULL}]
  /\ fslot \in [Threads -> Nat] /\ q_alive \in BOOLEAN /\ overlapped \in BOOLEAN

HistTypes ==
  /\ sent \in 0 .. MaxEvents /\ hups \in 0 .. MaxHups
  /\ spurious \in 0 .. MaxSpurious
  /\ delivered \in Seq(Events) /\ lost \subseteq Events

(* Every variable of queue.c and audispd.c stays in its type.  q_next and   *)
(* q_last are always indices of some ring depth, so that the slot they name *)
(* exists as long as the ring does not shrink.                              *)
TypeOK == QueueTypes /\ FlagTypes /\ ThreadTypes /\ HistTypes

(* Is slot i between the consumer's and the producer's index, going round?  *)
InWindow(i) ==
  IF q_last < q_next THEN q_last <= i /\ i < q_next
                     ELSE q_last <= i \/ i < q_next

(* enqueue tests only the slot at q_next and dequeue only the one at        *)
(* q_last; that is enough because the occupied slots are always exactly     *)
(* those from q_last up to q_next.  With q_last = q_next the ring is either *)
(* empty or full.                                                           *)
RingWindow ==
  \/ \A i \in Slots : q[i] # NULL <=> InWindow(i)
  \/ q_last = q_next /\ Occupied = {}

(* Slot i is handed out before slot j. *)
Before(i, j) ==
  IF (i < q_last) = (j < q_last) THEN i < j ELSE q_last <= i

(* Plugins see events in the order they were dispatched, each at most once, *)
(* over every interleaving of enqueue, dequeue, HUP and wake-up: delivered  *)
(* events are in order, what a thread holds is newer, what the ring holds   *)
(* is newer still and in ring order, and the main thread's is the newest.   *)
DeliveryOrder ==
  /\ \A j, k \in 1 .. Len(delivered) : j < k => delivered[j] < delivered[k]
  /\ \A a \in Delivered, b \in InHand : a < b
  /\ \A a \in Delivered \cup InHand, b \in InRing : a < b
  /\ \A i, j \in Occupied : i # j /\ Before(i, j) => q[i] < q[j]
  /\ \A a \in Delivered \cup InHand \cup InRing, b \in WithMain : a < b

(* Nothing leaks and nothing is freed twice: an event that was dispatched   *)
(* is in exactly one place, with the main thread, in the ring, with an      *)
(* outbound thread, delivered, or freed, also in the middle of              *)
(* destroy_queue.  The one exception: destroy_queue works without the lock  *)
(* and another thread used the ring meanwhile or afterwards.  That takes a  *)
(* reload that found no active plugin, and never happens without one.       *)
EventAccounting ==
  \/ overlapped /\ CanBeEmpty
  \/ /\ 1 .. sent = WithMain \cup InLive \cup InHand \cup Delivered \cup lost
     /\ Cardinality(WithMain) + Cardinality(Live)
          + Cardinality({t \in Threads : hand[t] # NULL})
          + Len(delivered) + Cardinality(lost) = sent

(* An event in the ring reaches the plugins, unless the daemon stops: no    *)
(* wake-up is lost between enqueue's signal and dequeue's wait, and no HUP  *)
(* makes the thread forget the ring.                                        *)
DeliveredEventually ==
  \A e \in Events : (e \in InRing) ~> (e \in Delivered \/ stop)

(* A HUP that finds or later meets an event in the ring is carried out: the *)
(* outbound thread clears disp_hup or the daemon stops.                     *)
HupAfterEvent == (disp_hup /\ Occupied # {}) ~> (~disp_hup \/ stop)

(* Ring contents, oldest first. *)
RingContents ==
  [k \in 1 .. Cardinality(Occupied) |-> q[(q_last + k - 1) % q_depth]]

MaxDepth == CHOOSE d \in Depths : \A e \in Depths : e <= d

Fifo == INSTANCE FifoQueue
          WITH Element <- Events, Capacity <- MaxDepth, fifo <- RingContents

(* The ring implements a FIFO queue of at most MaxDepth elements: every     *)
(* step of both threads appends behind, takes the oldest, or frees all.     *)
ImplementsFifo == Fifo!Spec
=============================================================================
