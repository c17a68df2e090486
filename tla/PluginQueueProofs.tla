-------------------------- MODULE PluginQueueProofs --------------------------
(***************************************************************************)
(* Proofs about PluginQueue for every value of its constants.              *)
(***************************************************************************)
EXTENDS PluginQueue, FiniteSetTheorems, SequenceTheorems, TLAPS

(* An event pointer is live exactly where the code may use it: with the    *)
(* main thread inside enqueue, with an outbound thread between dequeue and *)
(* free(e).                                                                *)
Ownership ==
  mpc # "dead" =>
    /\ ev # NULL <=> mpc \in {"check", "put"}
    /\ \A t \in Threads : hand[t] # NULL <=> opc[t] = "deliver"

(* The threads of a dead process take no step. *)
DeadIsDead == mpc = "dead" => \A t \in Threads : opc[t] = "none"

TypeInv == TypeOK /\ Ownership /\ DeadIsDead

(* Remainders are in range and indices advance within the ring. *)
LEMMA ModRange ==
  ASSUME NEW a \in Int, NEW m \in Nat \ {0}
  PROVE  a % m \in 0 .. m - 1
  OBVIOUS

LEMMA NextIndexValue ==
  ASSUME NEW d \in Nat \ {0}, NEW n \in 0 .. d - 1
  PROVE  /\ n % d = n
         /\ (n + 1) % d = IF n + 1 = d THEN 0 ELSE n + 1
  OBVIOUS

(* libdisp_init leaves a well-typed state. *)
LEMMA InitTypeInv == Init => TypeInv
<1> SUFFICES ASSUME Init PROVE TypeInv
  OBVIOUS
<1>1. QueueTypes
  BY DepthsAssumption, BoundsAssumption
  DEF Init, QueueTypes, Config, EmptyRing, Slots, NULL, Events
<1>2. FlagTypes
  BY DEF Init, FlagTypes
<1>3. ThreadTypes
  <2>1. daemon_config \in Config /\ mpc \in MainPC /\ ev \in Events \cup {NULL} /\ retry_cnt \in 0 .. 4
    BY DEF Init, MainPC
  <2>2. opc \in [Threads -> OutPC] /\ hand \in [Threads -> Events \cup {NULL}] /\ fslot \in [Threads -> Nat]
    BY DEF Init, OutPC
  <2>3. q_alive \in BOOLEAN /\ overlapped \in BOOLEAN
    BY DEF Init
  <2> QED
    BY <2>1, <2>2, <2>3 DEF ThreadTypes
<1>4. HistTypes
  BY BoundsAssumption DEF Init, HistTypes
<1>5. Ownership /\ DeadIsDead
  BY DEF Init, Ownership, DeadIsDead, NULL
<1> QED
  BY <1>1, <1>2, <1>3, <1>4, <1>5 DEF TypeInv, TypeOK

(* The actions one by one: what a proof by cases on Next has to cover. *)
LEMMA NextCases ==
  ASSUME Next
  PROVE  \/ DispatchEvent \/ EnqueueCheckSuspended \/ EnqueuePut \/ EnqueueRetry
         \/ EnqueueOverflow \/ EnqueueCrash \/ ReconfigureRunning \/ NudgeHup
         \/ ReconfigureDead \/ ResumeQueue \/ Shutdown
         \/ \E t \in Threads :
              \/ LoopTop(t) \/ Dequeue(t) \/ CondWait(t) \/ SpuriousWakeup(t)
              \/ DequeueWoken(t) \/ DequeueCrash(t) \/ NullReturned(t)
              \/ DeliverEvent(t) \/ Reconfigure(t) \/ HupHandled(t)
              \/ ClearPlugins(t) \/ FreeSlot(t) \/ FreeRing(t)
              \/ ResetIndices(t) \/ ResetCounters(t) \/ HeapFault(t)
  BY DEF Next, MainNext, Enqueue, OutboundNext, OutboundStep

(* On a live ring the slots the two threads use exist. *)
LEMMA IndexInRing ==
  ASSUME TypeInv, q_depth # 0
  PROVE  /\ q_depth \in Depths /\ q_depth \in Nat \ {0}
         /\ q_next % q_depth \in Slots /\ q_last % q_depth \in Slots
         /\ NextIndex(q_next % q_depth) \in Slots
         /\ NextIndex(q_last % q_depth) \in Slots
<1>1. q_depth \in Depths /\ q_depth \in Nat \ {0} /\ q_next \in Int /\ q_last \in Int
  BY DepthsAssumption DEF TypeInv, TypeOK, QueueTypes
<1>2. q_next % q_depth \in Slots /\ q_last % q_depth \in Slots
  BY <1>1, ModRange DEF Slots
<1>3. ASSUME NEW n \in Slots PROVE NextIndex(n) \in Slots
  <2>1. n + 1 \in Int
    BY <1>1 DEF Slots
  <2> QED
    BY <1>1, <2>1, ModRange DEF Slots, NextIndex
<1> QED
  BY <1>1, <1>2, <1>3

(* unsigned arithmetic stays in range. *)
LEMMA CounterInRange ==
  ASSUME TypeInv
  PROVE  /\ (currently_used + 1) % UintMod \in 0 .. UintMod - 1
         /\ (currently_used - 1) % UintMod \in 0 .. UintMod - 1
<1>1. UintMod \in Nat \ {0} /\ currently_used \in Int
  BY BoundsAssumption, DepthsAssumption DEF TypeInv, TypeOK, QueueTypes
<1>2. currently_used + 1 \in Int /\ currently_used - 1 \in Int
  BY <1>1
<1> QED
  BY <1>1, <1>2, ModRange

(* Taking an event, or finding none, keeps the queue well-typed. *)
LEMMA GrabQueueTypes ==
  ASSUME TypeInv, NEW t \in Threads, q_depth # 0, GrabEvent(t) \/ GrabNothing(t)
  PROVE  QueueTypes'
<1>1. CASE GrabEvent(t)
  <2>1. q' \in [Slots -> Events \cup {NULL}]
    BY <1>1 DEF GrabEvent, TypeInv, TypeOK, QueueTypes
  <2>2. q_last' \in 0 .. q_depth - 1 /\ q_depth \in Depths
    BY <1>1, IndexInRing DEF GrabEvent, Slots
  <2>3. currently_used' \in 0 .. UintMod - 1
    BY <1>1, CounterInRange DEF GrabEvent
  <2> QED
    BY <1>1, <2>1, <2>2, <2>3 DEF GrabEvent, TypeInv, TypeOK, QueueTypes, Slots
<1>2. CASE GrabNothing(t)
  <2>1. currently_used' \in 0 .. UintMod - 1
    BY <1>2, CounterInRange DEF GrabNothing
  <2> QED
    BY <1>2, <2>1 DEF GrabNothing, TypeInv, TypeOK, QueueTypes, Slots
<1> QED
  BY <1>1, <1>2

(* The ring, its indices and its counters keep their types. *)
LEMMA StepQueueTypes == TypeInv /\ Next => QueueTypes'
<1> SUFFICES ASSUME TypeInv, Next PROVE QueueTypes'
  OBVIOUS
<1> USE DepthsAssumption, BoundsAssumption
    DEF TypeInv, TypeOK, QueueTypes, Slots
<1>1. CASE EnqueuePut
  <2>1. q' \in [Slots -> Events \cup {NULL}]
    BY <1>1 DEF EnqueuePut, ThreadTypes
  <2>2. q_next' \in 0 .. q_depth - 1 /\ q_depth \in Depths
    BY <1>1, IndexInRing DEF EnqueuePut
  <2>3. currently_used' \in 0 .. UintMod - 1
    BY <1>1, CounterInRange DEF EnqueuePut
  <2> QED
    BY <1>1, <2>1, <2>2, <2>3 DEF EnqueuePut
<1>2. CASE ReconfigureDead
  BY <1>2 DEF ReconfigureDead, InitQueue, EmptyRing, CopyConfig, queueVars,
           ThreadTypes, Config
<1>3. ASSUME NEW t \in Threads, Dequeue(t) PROVE QueueTypes'
  BY <1>3, GrabQueueTypes DEF Dequeue, queueVars
<1>4. ASSUME NEW t \in Threads, DequeueWoken(t) PROVE QueueTypes'
  BY <1>4, GrabQueueTypes DEF DequeueWoken, queueVars
<1>5. ASSUME NEW t \in Threads, Reconfigure(t) PROVE QueueTypes'
  BY <1>5 DEF Reconfigure, IncreaseQueueDepth, ThreadTypes, Config
<1>6. ASSUME NEW t \in Threads, ResetIndices(t) PROVE QueueTypes'
  BY <1>6 DEF ResetIndices, EmptyRing
<1>8. ASSUME NEW t \in Threads, ResetCounters(t) PROVE QueueTypes'
  <2>1. UintMod \in Nat \ {0}
    OBVIOUS
  <2>2. 0 \in 0 .. UintMod - 1
    BY <2>1
  <2> QED
    BY <1>8, <2>2 DEF ResetCounters
<1>7. CASE UNCHANGED queueVars
  BY <1>7 DEF queueVars
<1> QED
  BY NextCases, <1>1, <1>2, <1>3, <1>4, <1>5, <1>6, <1>7, <1>8
  DEF DispatchEvent, EnqueueCheckSuspended, EnqueueRetry,
      EnqueueOverflow, EnqueueCrash, Die, ReconfigureRunning, NudgeHup,
      ResumeQueue, Shutdown, LoopTop, CondWait, SpuriousWakeup,
      DequeueCrash, NullReturned, DeliverEvent, HupHandled,
      ClearPlugins, FreeSlot, FreeRing, HeapFault

(* The flags the threads share stay Boolean. *)
LEMMA StepFlagTypes == TypeInv /\ Next => FlagTypes'
<1> SUFFICES ASSUME TypeInv, Next PROVE FlagTypes'
  OBVIOUS
<1> USE DEF TypeInv, TypeOK, FlagTypes, flagVars, dispVars
<1>1. CASE EnqueueOverflow
  BY <1>1 DEF EnqueueOverflow
<1>2. CASE EnqueueCrash
  BY <1>2 DEF EnqueueCrash, Die
<1>3. CASE ReconfigureRunning
  BY <1>3 DEF ReconfigureRunning, CopyConfig
<1>4. CASE NudgeHup
  BY <1>4 DEF NudgeHup, histVars
<1>5. CASE ReconfigureDead
  BY <1>5 DEF ReconfigureDead, CopyConfig, InitQueue
<1>6. CASE ResumeQueue
  BY <1>6 DEF ResumeQueue, histVars
<1>7. CASE Shutdown
  BY <1>7 DEF Shutdown, histVars
<1>8. ASSUME NEW t \in Threads, DequeueCrash(t) PROVE FlagTypes'
  BY <1>8 DEF DequeueCrash, Die
<1>9. ASSUME NEW t \in Threads, Reconfigure(t) PROVE FlagTypes'
  BY <1>9 DEF Reconfigure, IncreaseQueueDepth, histVars
<1>10. ASSUME NEW t \in Threads, HupHandled(t) PROVE FlagTypes'
  BY <1>10 DEF HupHandled, histVars
<1>11. ASSUME NEW t \in Threads, ClearPlugins(t) PROVE FlagTypes'
  BY <1>11 DEF ClearPlugins, histVars
<1>12. ASSUME NEW t \in Threads, ResetCounters(t) PROVE FlagTypes'
  BY <1>12 DEF ResetCounters
<1>14. ASSUME NEW t \in Threads, HeapFault(t) PROVE FlagTypes'
  BY <1>14 DEF HeapFault, Die
<1>13. CASE UNCHANGED <<flagVars, dispVars>>
  BY <1>13 
<1> QED
  BY NextCases, <1>1, <1>2, <1>3, <1>4, <1>5, <1>6, <1>7, <1>8, <1>9, <1>10, <1>11, <1>12, <1>13, <1>14
  DEF DispatchEvent, EnqueueCheckSuspended, EnqueuePut, EnqueueRetry,
      LoopTop, Dequeue, CondWait, SpuriousWakeup, DequeueWoken,
      NullReturned, DeliverEvent, FreeSlot, FreeRing, ResetIndices, histVars

(* Program counters and the events the threads hold keep their types. *)
LEMMA StepThreadTypes == TypeInv /\ Next => ThreadTypes'
<1> SUFFICES ASSUME TypeInv, Next PROVE ThreadTypes'
  OBVIOUS
<1> USE BoundsAssumption
    DEF TypeInv, TypeOK, ThreadTypes, mainVars, dispVars, heapVars, UseRing, Torn
<1>1. CASE DispatchEvent
  BY <1>1 DEF DispatchEvent, MainPC, HistTypes, Events
<1>2. CASE EnqueueCheckSuspended
  BY <1>2 DEF EnqueueCheckSuspended, MainPC
<1>3. CASE EnqueuePut
  BY <1>3 DEF EnqueuePut, Signal, Waiting, MainPC, OutPC
<1>4. CASE EnqueueRetry
  BY <1>4 DEF EnqueueRetry
<1>5. CASE EnqueueOverflow
  BY <1>5 DEF EnqueueOverflow, MainPC
<1>6. CASE ReconfigureRunning
  BY <1>6 DEF ReconfigureRunning, CopyConfig, MainPC
<1>7. CASE NudgeHup
  BY <1>7 DEF NudgeHup, Signal, Waiting, MainPC, OutPC
<1>8. CASE ReconfigureDead
  BY <1>8 DEF ReconfigureDead, CopyConfig, Goto, OutPC, InitQueue
<1>9. CASE Shutdown
  BY <1>9 DEF Shutdown, Signal, Waiting, MainPC, OutPC
<1>10. ASSUME NEW t \in Threads, LoopTop(t) PROVE ThreadTypes'
  BY <1>10 DEF LoopTop, Goto, OutPC
<1>11. ASSUME NEW t \in Threads, Dequeue(t) PROVE ThreadTypes'
  BY <1>11, IndexInRing DEF Dequeue, GrabEvent, Goto, OutPC, QueueTypes, queueVars
<1>12. ASSUME NEW t \in Threads, CondWait(t) PROVE ThreadTypes'
  BY <1>12 DEF CondWait, Goto, OutPC
<1>13. ASSUME NEW t \in Threads, SpuriousWakeup(t) PROVE ThreadTypes'
  BY <1>13 DEF SpuriousWakeup, Goto, OutPC
<1>14. ASSUME NEW t \in Threads, DequeueWoken(t) PROVE ThreadTypes'
  BY <1>14, IndexInRing DEF DequeueWoken, GrabEvent, GrabNothing, Goto,
           OutPC, QueueTypes, queueVars
<1>15. ASSUME NEW t \in Threads, NullReturned(t) PROVE ThreadTypes'
  BY <1>15 DEF NullReturned, Goto, OutPC
<1>16. ASSUME NEW t \in Threads, DeliverEvent(t) PROVE ThreadTypes'
  BY <1>16 DEF DeliverEvent, Goto, OutPC
<1>17. ASSUME NEW t \in Threads, Reconfigure(t) PROVE ThreadTypes'
  BY <1>17 DEF Reconfigure, IncreaseQueueDepth, Goto, OutPC
<1>18. ASSUME NEW t \in Threads, HupHandled(t) PROVE ThreadTypes'
  BY <1>18 DEF HupHandled, Goto, OutPC
<1>19. ASSUME NEW t \in Threads, ClearPlugins(t) PROVE ThreadTypes'
  BY <1>19 DEF ClearPlugins, Goto, OutPC
<1>20. ASSUME NEW t \in Threads, FreeRing(t) \/ ResetIndices(t) \/ ResetCounters(t) PROVE ThreadTypes'
  BY <1>20 DEF FreeRing, ResetIndices, ResetCounters, Goto, OutPC
<1>24. ASSUME NEW t \in Threads, FreeSlot(t) PROVE ThreadTypes'
  BY <1>24 DEF FreeSlot
<1>25. ASSUME NEW t \in Threads, HeapFault(t) PROVE ThreadTypes'
  BY <1>25 DEF HeapFault, Die, MainPC, OutPC, Events
<1>21. CASE UNCHANGED <<daemon_config, mainVars, opc, hand, heapVars>>
  BY <1>21 
<1>22. CASE EnqueueCrash
  BY <1>22 DEF EnqueueCrash, Die, MainPC, OutPC, Events
<1>23. ASSUME NEW t \in Threads, DequeueCrash(t) PROVE ThreadTypes'
  BY <1>23 DEF DequeueCrash, Die, MainPC, OutPC, Events
<1> QED
  BY NextCases, <1>22, <1>23, <1>24, <1>25, <1>1, <1>2, <1>3, <1>4, <1>5, <1>6, <1>7, <1>8, <1>9, <1>10, <1>11, <1>12, <1>13, <1>14, <1>15, <1>16, <1>17, <1>18, <1>19, <1>20, <1>21
  DEF ResumeQueue

(* Events are delivered or freed, never null pointers. *)
LEMMA StepHistTypes == TypeInv /\ Next => HistTypes'
<1> SUFFICES ASSUME TypeInv, Next PROVE HistTypes'
  OBVIOUS
<1> USE BoundsAssumption
    DEF TypeInv, TypeOK, HistTypes
<1>1. CASE DispatchEvent
  <2>1. sent + 1 \in Events /\ sent' \in 0 .. MaxEvents
    BY <1>1 DEF DispatchEvent, Events
  <2> QED
    BY <1>1, <2>1 DEF DispatchEvent
<1>2. CASE EnqueueCheckSuspended
  BY <1>2 DEF EnqueueCheckSuspended, ThreadTypes, Ownership, DeadIsDead
<1>3. CASE EnqueueOverflow
  BY <1>3 DEF EnqueueOverflow, ThreadTypes, Ownership, DeadIsDead
<1>4. CASE ReconfigureRunning
  BY <1>4 DEF ReconfigureRunning
<1>5. CASE ReconfigureDead
  BY <1>5 DEF ReconfigureDead
<1>6. ASSUME NEW t \in Threads, SpuriousWakeup(t) PROVE HistTypes'
  BY <1>6 DEF SpuriousWakeup
<1>7. ASSUME NEW t \in Threads, DeliverEvent(t) PROVE HistTypes'
  <2>1. hand[t] \in Events
    BY <1>7 DEF DeliverEvent, ThreadTypes, Ownership, DeadIsDead
  <2> QED
    BY <1>7, <2>1 DEF DeliverEvent
<1>8. ASSUME NEW t \in Threads, FreeSlot(t) PROVE HistTypes'
  <2>1. fslot[t] \in Slots
    BY <1>8, DepthsAssumption DEF FreeSlot, Slots, ThreadTypes, QueueTypes
  <2>2. q[fslot[t]] \in Events \cup {NULL}
    BY <2>1 DEF QueueTypes
  <2> QED
    BY <1>8, <2>2 DEF FreeSlot
<1>9. CASE UNCHANGED <<sent, hups, spurious, delivered, lost>>
  BY <1>9 
<1> QED
  BY NextCases, <1>1, <1>2, <1>3, <1>4, <1>5, <1>6, <1>7, <1>8, <1>9
  DEF EnqueuePut, EnqueueRetry, EnqueueCrash, Die, NudgeHup, ResumeQueue,
      Shutdown, LoopTop, Dequeue, CondWait, DequeueWoken, DequeueCrash,
      NullReturned, Reconfigure, HupHandled, ClearPlugins, FreeRing,
      ResetIndices, ResetCounters, HeapFault, histVars

(* Pointers are handed over, never kept by two parties or dropped while live. *)
LEMMA StepOwnership == TypeInv /\ Next => Ownership'
<1> SUFFICES ASSUME TypeInv, Next PROVE Ownership'
  OBVIOUS
<1> USE BoundsAssumption
    DEF TypeInv, TypeOK, ThreadTypes, Ownership, DeadIsDead, mainVars, NULL
<1>1. CASE DispatchEvent
  BY <1>1 DEF DispatchEvent, HistTypes
<1>2. CASE EnqueueCheckSuspended
  BY <1>2 DEF EnqueueCheckSuspended
<1>3. CASE EnqueuePut
  BY <1>3 DEF EnqueuePut, Signal, Waiting
<1>4. CASE EnqueueOverflow
  BY <1>4 DEF EnqueueOverflow
<1>5. CASE ReconfigureRunning
  BY <1>5 DEF ReconfigureRunning
<1>6. CASE NudgeHup
  BY <1>6 DEF NudgeHup, Signal, Waiting
<1>7. CASE ReconfigureDead
  BY <1>7 DEF ReconfigureDead, Goto
<1>8. CASE Shutdown
  BY <1>8 DEF Shutdown, Signal, Waiting
<1>9. ASSUME NEW t \in Threads, LoopTop(t) PROVE Ownership'
  BY <1>9 DEF LoopTop, Goto
<1>10. ASSUME NEW t \in Threads, Dequeue(t) PROVE Ownership'
  BY <1>10 DEF Dequeue, GrabEvent, Goto, QueueTypes
<1>11. ASSUME NEW t \in Threads, CondWait(t) PROVE Ownership'
  BY <1>11 DEF CondWait, Goto
<1>12. ASSUME NEW t \in Threads, SpuriousWakeup(t) PROVE Ownership'
  BY <1>12 DEF SpuriousWakeup, Goto
<1>13. ASSUME NEW t \in Threads, DequeueWoken(t) PROVE Ownership'
  BY <1>13 DEF DequeueWoken, GrabEvent, GrabNothing, Goto, QueueTypes
<1>14. ASSUME NEW t \in Threads, NullReturned(t) PROVE Ownership'
  BY <1>14 DEF NullReturned, Goto
<1>15. ASSUME NEW t \in Threads, DeliverEvent(t) PROVE Ownership'
  BY <1>15 DEF DeliverEvent, Goto
<1>16. ASSUME NEW t \in Threads, Reconfigure(t) PROVE Ownership'
  BY <1>16 DEF Reconfigure, Goto
<1>17. ASSUME NEW t \in Threads, HupHandled(t) PROVE Ownership'
  BY <1>17 DEF HupHandled, Goto
<1>18. ASSUME NEW t \in Threads, ClearPlugins(t) PROVE Ownership'
  BY <1>18 DEF ClearPlugins, Goto
<1>19. ASSUME NEW t \in Threads, FreeRing(t) \/ ResetIndices(t) \/ ResetCounters(t) PROVE Ownership'
  BY <1>19 DEF FreeRing, ResetIndices, ResetCounters, Goto
<1>23. ASSUME NEW t \in Threads, HeapFault(t) PROVE Ownership'
  BY <1>23 DEF HeapFault, Die
<1>20. CASE UNCHANGED <<mpc, ev, opc, hand>>
  BY <1>20 
<1>21. CASE EnqueueCrash
  BY <1>21 DEF EnqueueCrash, Die
<1>22. ASSUME NEW t \in Threads, DequeueCrash(t) PROVE Ownership'
  BY <1>22 DEF DequeueCrash, Die
<1> QED
  BY NextCases, <1>21, <1>22, <1>23, <1>1, <1>2, <1>3, <1>4, <1>5, <1>6, <1>7, <1>8, <1>9, <1>10, <1>11, <1>12, <1>13, <1>14, <1>15, <1>16, <1>17, <1>18, <1>19, <1>20
  DEF EnqueueRetry, ResumeQueue, FreeSlot

(* Nothing runs after the process died. *)
LEMMA StepDeadIsDead == TypeInv /\ Next => DeadIsDead'
<1> SUFFICES ASSUME TypeInv, Next PROVE DeadIsDead'
  OBVIOUS
<1>1. CASE mpc = "dead"
  BY <1>1, NextCases
  DEF TypeInv, DeadIsDead, DispatchEvent, EnqueueCheckSuspended, EnqueuePut, EnqueueRetry,
      EnqueueOverflow, EnqueueCrash, ReconfigureRunning, NudgeHup, ReconfigureDead,
      ResumeQueue, Shutdown, LoopTop, Dequeue, CondWait, SpuriousWakeup, DequeueWoken,
      DequeueCrash, NullReturned, DeliverEvent, Reconfigure, HupHandled, ClearPlugins,
      FreeSlot, FreeRing, ResetIndices, ResetCounters, HeapFault, UsesFreed
<1>2. CASE mpc # "dead" /\ Die
  BY <1>2 DEF Die, DeadIsDead
<1>3. CASE mpc # "dead" /\ ~Die
  <2>1. mpc' # "dead"
    BY <1>3, NextCases
    DEF DispatchEvent, EnqueueCheckSuspended, EnqueuePut, EnqueueRetry,
        EnqueueOverflow, EnqueueCrash, ReconfigureRunning, NudgeHup, ReconfigureDead,
        ResumeQueue, Shutdown, LoopTop, Dequeue, CondWait, SpuriousWakeup, DequeueWoken,
        DequeueCrash, NullReturned, DeliverEvent, Reconfigure, HupHandled, ClearPlugins,
        FreeSlot, FreeRing, ResetIndices, ResetCounters, HeapFault, UsesFreed, mainVars
  <2> QED
    BY <2>1 DEF DeadIsDead
<1> QED
  BY <1>1, <1>2, <1>3

(* Every reachable state of queue.c and of the two threads is well-typed. *)
THEOREM TypeCorrect == Spec => []TypeOK
<1>1. TypeInv /\ UNCHANGED vars => TypeInv'
  BY DEF TypeInv, TypeOK, QueueTypes, FlagTypes, ThreadTypes, HistTypes, Ownership, DeadIsDead,
         vars, queueVars, flagVars, dispVars, mainVars, heapVars, histVars, Slots
<1>2. TypeInv /\ [Next]_vars => TypeInv'
  BY <1>1, StepQueueTypes, StepFlagTypes, StepThreadTypes, StepHistTypes,
     StepOwnership, StepDeadIsDead DEF TypeInv, TypeOK
<1>3. TypeInv => TypeOK
  BY DEF TypeInv
<1> QED
  BY <1>2, <1>3, InitTypeInv, PTL DEF Spec

-----------------------------------------------------------------------------
(* Accounting for events.  Counting is proved from places: an event is in   *)
(* one place, and there only once.                                          *)

(* No event twice in one place *)
Once ==
  /\ \A i, j \in Live : q[i] = q[j] => i = j
  /\ \A t, u \in Threads : hand[t] # NULL /\ hand[t] = hand[u] => t = u
  /\ \A j, k \in 1 .. Len(delivered) : delivered[j] = delivered[k] => j = k

(* No event in two places *)
Apart ==
  /\ WithMain \cap (InLive \cup InHand \cup Delivered \cup lost) = {}
  /\ InLive \cap (InHand \cup Delivered \cup lost) = {}
  /\ InHand \cap (Delivered \cup lost) = {}
  /\ Delivered \cap lost = {}

Covered == 1 .. sent = WithMain \cup InLive \cup InHand \cup Delivered \cup lost

PlaceInv == TypeInv /\ Once /\ Apart /\ Covered

(* ... as long as no thread used the ring while another was tearing it down *)
SafeInv == TypeInv /\ (overlapped \/ PlaceInv)

(* No thread enters or leaves destroy_queue's loop, none moves on in it. *)
SameTeardown ==
  /\ UNCHANGED fslot
  /\ \A t \in Threads : /\ opc'[t] = "destroy" <=> opc[t] = "destroy"
                        /\ opc'[t] = "freed" <=> opc[t] = "freed"

(* Then destroy_queue has freed no further slot. *)
LEMMA PassedFrame ==
  ASSUME SameTeardown, q_depth' = q_depth
  PROVE  Passed' = Passed
BY DEF SameTeardown, Passed, Slots

(* Outside destroy_queue no slot is passed. *)
LEMMA NobodyTears ==
  ASSUME \A t \in Threads : opc[t] \notin Destroying
  PROVE  Passed = {} /\ Live = Occupied /\ (SameTeardown => Passed' = {} /\ Live' = Occupied')
<1>1. \A t \in Threads : opc[t] # "destroy" /\ opc[t] # "freed"
  BY DEF Destroying
<1>2. Passed = {}
  BY <1>1 DEF Passed
<1>3. ASSUME SameTeardown PROVE Passed' = {}
  <2>1. \A t \in Threads : opc'[t] # "destroy" /\ opc'[t] # "freed"
    BY <1>1, <1>3 DEF SameTeardown
  <2> QED
    BY <2>1 DEF Passed
<1> QED
  BY <1>2, <1>3 DEF Live

(* pthread_cond_signal wakes no thread inside destroy_queue, and a thread   *)
(* that goes on elsewhere stays elsewhere.                                  *)
LEMMA MovesElsewhere ==
  ASSUME TypeInv, UNCHANGED fslot,
         \/ UNCHANGED opc
         \/ Signal
         \/ \E t \in Threads, l \in OutPC \ Destroying : opc[t] \notin Destroying /\ Goto(t, l)
  PROVE  SameTeardown
<1>1. opc \in [Threads -> OutPC]
  BY DEF TypeInv, TypeOK, ThreadTypes
<1>2. CASE UNCHANGED opc
  BY <1>2 DEF SameTeardown
<1>3. CASE Signal
  BY <1>1, <1>3 DEF Signal, Waiting, SameTeardown
<1>4. CASE \E t \in Threads, l \in OutPC \ Destroying : opc[t] \notin Destroying /\ Goto(t, l)
  BY <1>1, <1>4 DEF Goto, SameTeardown, Destroying
<1> QED
  BY <1>2, <1>3, <1>4

(* Every action outside destroy_queue is such a step. *)
LEMMA StepTeardown ==
  ASSUME TypeInv, Next, ~overlapped'
  PROVE  \/ SameTeardown
         \/ \E t \in Threads : \/ ClearPlugins(t) \/ FreeSlot(t) \/ FreeRing(t)
                              \/ ResetIndices(t)
<1> USE DEF heapVars, UseRing, OutPC, Destroying
<1>1. CASE \/ DispatchEvent \/ EnqueueCheckSuspended \/ EnqueuePut \/ EnqueueRetry
           \/ EnqueueOverflow \/ ReconfigureRunning \/ NudgeHup \/ ResumeQueue \/ Shutdown
  BY <1>1, MovesElsewhere DEF DispatchEvent, EnqueueCheckSuspended, EnqueuePut, EnqueueRetry,
     EnqueueOverflow, ReconfigureRunning, NudgeHup, ResumeQueue, Shutdown
<1>2. CASE ReconfigureDead
  BY <1>2, MovesElsewhere DEF ReconfigureDead
<1>3. CASE Die
  BY <1>3 DEF Die
<1>4. ASSUME NEW t \in Threads, LoopTop(t) \/ CondWait(t) \/ SpuriousWakeup(t) PROVE SameTeardown
  BY <1>4, MovesElsewhere DEF LoopTop, CondWait, SpuriousWakeup
<1>5. ASSUME NEW t \in Threads, Dequeue(t) \/ DequeueWoken(t) PROVE SameTeardown
  BY <1>5, MovesElsewhere DEF Dequeue, DequeueWoken, GrabEvent, GrabNothing
<1>6. ASSUME NEW t \in Threads, NullReturned(t) \/ DeliverEvent(t) PROVE SameTeardown
  BY <1>6, MovesElsewhere DEF NullReturned, DeliverEvent
<1>7. ASSUME NEW t \in Threads, Reconfigure(t) \/ HupHandled(t) PROVE SameTeardown
  BY <1>7, MovesElsewhere DEF Reconfigure, HupHandled
<1>8. ASSUME NEW t \in Threads, ResetCounters(t) PROVE SameTeardown
  BY <1>8, MovesElsewhere DEF ResetCounters
<1> QED
  BY NextCases, <1>1, <1>2, <1>3, <1>4, <1>5, <1>6, <1>7, <1>8
  DEF EnqueueCrash, DequeueCrash, HeapFault

(* The parts of the type invariant that the proofs about places need. *)
LEMMA PlaceTypes ==
  ASSUME TypeInv
  PROVE  /\ q \in [Slots -> Events \cup {NULL}] /\ hand \in [Threads -> Events \cup {NULL}]
         /\ delivered \in Seq(Events) /\ sent \in Nat /\ sent <= MaxEvents /\ NULL \notin Events
         /\ (mpc = "idle" => ev = NULL) /\ (mpc \in {"check", "put"} => ev # NULL)
         /\ \A t \in Threads : (opc[t] = "deliver" => hand[t] # NULL)
                              /\ (opc[t] \notin {"deliver", "none"} => hand[t] = NULL)
<1>1. sent \in Nat /\ sent <= MaxEvents
  BY BoundsAssumption DEF TypeInv, TypeOK, HistTypes
<1>2. NULL \notin Events
  BY DEF NULL, Events
<1>3. /\ q \in [Slots -> Events \cup {NULL}] /\ hand \in [Threads -> Events \cup {NULL}] /\ delivered \in Seq(Events)
  BY DEF TypeInv, TypeOK, QueueTypes, ThreadTypes, HistTypes
<1>4. ASSUME mpc = "idle" \/ mpc \in {"check", "put"}
      PROVE (mpc = "idle" => ev = NULL) /\ (mpc \in {"check", "put"} => ev # NULL)
  BY <1>4 DEF TypeInv, Ownership
<1>5. ASSUME NEW t \in Threads, opc[t] # "none"
      PROVE  (opc[t] = "deliver" => hand[t] # NULL) /\ (opc[t] # "deliver" => hand[t] = NULL)
  BY <1>5 DEF TypeInv, Ownership, DeadIsDead
<1> QED
  BY <1>1, <1>2, <1>3, <1>4, <1>5

(* A step that moves nothing in the ring and between the threads. *)
LEMMA SamePlaces ==
  /\ UNCHANGED <<q, q_depth>> /\ SameTeardown => Live' = Live /\ InLive' = InLive
  /\ hand' = hand => InHand' = InHand
  /\ delivered' = delivered => Delivered' = Delivered
  /\ ev' = ev => WithMain' = WithMain
<1>1. ASSUME UNCHANGED <<q, q_depth>>, SameTeardown PROVE Live' = Live /\ InLive' = InLive
  <2>1. Passed' = Passed /\ Occupied' = Occupied
    BY <1>1, PassedFrame DEF Occupied, Slots
  <2>2. Live' = Live
    BY <2>1 DEF Live
  <2> QED
    BY <1>1, <2>2 DEF InLive
<1> QED
  BY <1>1 DEF InHand, Delivered, WithMain

(* The first conjunct of Once is about the ring alone, and so on. *)
LEMMA SameOnce ==
  ASSUME Once
  PROVE  /\ UNCHANGED <<q, q_depth>> /\ SameTeardown => \A i, j \in Live' : q'[i] = q'[j] => i = j
         /\ hand' = hand => \A t, u \in Threads : hand'[t] # NULL /\ hand'[t] = hand'[u] => t = u
         /\ delivered' = delivered => \A j, k \in 1 .. Len(delivered') : delivered'[j] = delivered'[k] => j = k
BY SamePlaces DEF Once

(* A step that leaves ring, threads and history alone and gives or frees the main thread's event. *)
LEMMA MainPlaces ==
  ASSUME PlaceInv, SameTeardown, UNCHANGED <<q, q_depth, hand, delivered>>,
         \/ UNCHANGED <<ev, sent, lost>>
         \/ ev # NULL /\ ev' = NULL /\ sent' = sent /\ lost' = lost \cup {ev}
         \/ ev = NULL /\ ev' = NULL /\ sent' = sent + 1 /\ lost' = lost \cup {sent + 1}
         \/ ev = NULL /\ ev' = sent + 1 /\ sent' = sent + 1 /\ lost' = lost
  PROVE  Once' /\ Apart' /\ Covered'
<1>1. InLive' = InLive /\ InHand' = InHand /\ Delivered' = Delivered
  BY SamePlaces
<1>2. Once'
  BY SameOnce DEF PlaceInv, Once
<1>3. sent \in Nat
  BY PlaceTypes DEF PlaceInv
<1>4. Apart /\ Covered
  BY DEF PlaceInv
<1>5. CASE UNCHANGED <<ev, sent, lost>>
  <2>1. WithMain' = WithMain
    BY <1>5, SamePlaces
  <2> QED
    BY <1>1, <1>2, <1>4, <1>5, <2>1 DEF Apart, Covered
<1>6. CASE ev # NULL /\ ev' = NULL /\ sent' = sent /\ lost' = lost \cup {ev}
  <2>1. WithMain = {ev} /\ WithMain' = {}
    BY <1>6 DEF WithMain
  <2> QED
    BY <1>1, <1>2, <1>4, <1>6, <2>1 DEF Apart, Covered
<1>7. 1 .. sent + 1 = (1 .. sent) \cup {sent + 1} /\ sent + 1 \notin 1 .. sent /\ sent + 1 # NULL
  BY <1>3 DEF NULL
<1>8. sent + 1 \notin InLive \cup InHand \cup Delivered \cup lost \cup WithMain
  BY <1>4, <1>7 DEF Covered
<1>9. CASE ev = NULL /\ ev' = NULL /\ sent' = sent + 1 /\ lost' = lost \cup {sent + 1}
  <2>1. WithMain = {} /\ WithMain' = {}
    BY <1>9 DEF WithMain
  <2> QED
    BY <1>1, <1>2, <1>4, <1>7, <1>8, <1>9, <2>1 DEF Apart, Covered
<1>10. CASE ev = NULL /\ ev' = sent + 1 /\ sent' = sent + 1 /\ lost' = lost
  <2>1. WithMain = {} /\ WithMain' = {sent + 1}
    BY <1>7, <1>10 DEF WithMain
  <2> QED
    BY <1>1, <1>2, <1>4, <1>7, <1>8, <1>10, <2>1 DEF Apart, Covered
<1> QED
  BY <1>5, <1>6, <1>9, <1>10

(* enqueue: the main thread's event goes into an empty slot. *)
LEMMA PutPlaces ==
  ASSUME PlaceInv, EnqueuePut, SameTeardown, \A t \in Threads : opc[t] \notin Destroying
  PROVE  Once' /\ Apart' /\ Covered'
<1> DEFINE n == q_next % q_depth
<1>1. /\ q_depth' = q_depth /\ hand' = hand /\ delivered' = delivered /\ sent' = sent /\ lost' = lost
      /\ ev' = NULL /\ ev # NULL /\ q[n] = NULL /\ q' = [q EXCEPT ![n] = ev] /\ q_depth # 0
  BY PlaceTypes DEF EnqueuePut, PlaceInv, histVars
<1>2. n \in Slots /\ q \in [Slots -> Events \cup {NULL}]
  BY <1>1, IndexInRing, PlaceTypes DEF PlaceInv
<1> HIDE DEF n
<1>3. q'[n] = ev /\ \A i \in Slots : i # n => q'[i] = q[i]
  BY <1>1, <1>2
<1>4. Slots' = Slots
  BY <1>1 DEF Slots
<1>5. Live' = Live \cup {n} /\ n \notin Live
  BY <1>1, <1>2, <1>3, <1>4, NobodyTears DEF Occupied
<1>6. \A i \in Live : q'[i] = q[i] /\ q[i] \in InLive
  BY <1>3, <1>5, NobodyTears DEF Occupied, InLive
<1>7. InLive' = InLive \cup {ev}
  BY <1>3, <1>5, <1>6 DEF InLive
<1>8. WithMain = {ev} /\ WithMain' = {}
  BY <1>1 DEF WithMain
<1>9. InHand' = InHand /\ Delivered' = Delivered
  BY <1>1, SamePlaces
<1>10. Apart /\ Covered /\ Once
  BY DEF PlaceInv
<1>11. ev \notin InLive
  BY <1>8, <1>10 DEF Apart
<1>12. \A i, j \in Live' : q'[i] = q'[j] => i = j
  BY <1>3, <1>5, <1>6, <1>10, <1>11 DEF Once
<1>13. Once'
  BY <1>1, <1>10, <1>12 DEF Once
<1> QED
  BY <1>1, <1>7, <1>8, <1>9, <1>10, <1>13 DEF Apart, Covered

(* dequeue: an event goes from its slot to the thread, which had none. *)
LEMMA GrabPlaces ==
  ASSUME PlaceInv, NEW t \in Threads, GrabEvent(t), q_depth # 0, opc[t] \in {"dequeue", "woken"},
         UNCHANGED <<ev, delivered, sent, lost>>, SameTeardown,
         \A u \in Threads : opc[u] \notin Destroying
  PROVE  Once' /\ Apart' /\ Covered'
<1> DEFINE n == q_last % q_depth
<1>1. /\ q_depth' = q_depth /\ q[n] # NULL /\ q' = [q EXCEPT ![n] = NULL] /\ hand' = [hand EXCEPT ![t] = q[n]]
  BY DEF GrabEvent
<1>2. n \in Slots /\ q \in [Slots -> Events \cup {NULL}] /\ hand \in [Threads -> Events \cup {NULL}]
  BY IndexInRing, PlaceTypes DEF PlaceInv
<1>3. hand[t] = NULL
  BY PlaceTypes DEF PlaceInv
<1> DEFINE e == q[n]
<1> HIDE DEF n
<1>4. q'[n] = NULL /\ \A i \in Slots : i # n => q'[i] = q[i]
  BY <1>1, <1>2
<1>5. hand'[t] = e /\ \A u \in Threads : u # t => hand'[u] = hand[u]
  BY <1>1, <1>2
<1>6. Slots' = Slots
  BY <1>1 DEF Slots
<1>7. Live' = Live \ {n} /\ n \in Live
  BY <1>1, <1>2, <1>4, <1>6, NobodyTears DEF Occupied
<1>8. Apart /\ Covered /\ Once
  BY DEF PlaceInv
<1>9. \A i \in Live \ {n} : q'[i] = q[i] /\ q[i] # e
  BY <1>4, <1>7, <1>8, NobodyTears DEF Occupied, Once
<1>10. InLive' = InLive \ {e} /\ e \in InLive
  BY <1>7, <1>9 DEF InLive
<1>11. InHand' = InHand \cup {e} /\ e # NULL
  <2>1. \A u \in Threads : hand[u] # NULL => u # t /\ hand'[u] = hand[u]
    BY <1>3, <1>5
  <2>2. \A u \in Threads : hand'[u] # NULL => hand'[u] = e \/ hand'[u] = hand[u]
    BY <1>5
  <2>3. e # NULL
    BY <1>1
  <2> QED
    BY <1>5, <2>1, <2>2, <2>3 DEF InHand
<1>12. WithMain' = WithMain /\ Delivered' = Delivered
  BY SamePlaces
<1>13. \A u \in Threads : hand[u] # e
  BY <1>8, <1>10, <1>11 DEF Apart, InHand
<1> HIDE DEF e
<1>14. \A i, j \in Live' : q'[i] = q'[j] => i = j
  BY <1>7, <1>8, <1>9 DEF Once
<1>15. \A u, v \in Threads : hand'[u] # NULL /\ hand'[u] = hand'[v] => u = v
  BY <1>5, <1>8, <1>13 DEF Once
<1>16. Once'
  BY <1>8, <1>14, <1>15 DEF Once
<1> QED
  BY <1>8, <1>10, <1>11, <1>12, <1>16 DEF Apart, Covered

(* event_loop: the thread's event is delivered or freed. *)
LEMMA DeliverPlaces ==
  ASSUME PlaceInv, NEW t \in Threads, DeliverEvent(t), SameTeardown
  PROVE  Once' /\ Apart' /\ Covered'
<1> DEFINE e == hand[t]
<1>1. /\ q' = q /\ q_depth' = q_depth /\ ev' = ev /\ sent' = sent /\ hand' = [hand EXCEPT ![t] = NULL]
      /\ \/ lost' = lost \cup {e} /\ delivered' = delivered
         \/ delivered' = Append(delivered, e) /\ lost' = lost
  BY DEF DeliverEvent, queueVars, mainVars
<1>2. /\ hand \in [Threads -> Events \cup {NULL}] /\ delivered \in Seq(Events) /\ e # NULL /\ e \in Events
  BY PlaceTypes DEF PlaceInv, DeliverEvent
<1>3. Apart /\ Covered /\ Once
  BY DEF PlaceInv
<1>4. hand'[t] = NULL /\ \A u \in Threads : u # t => hand'[u] = hand[u] /\ hand[u] # e
  BY <1>1, <1>2, <1>3 DEF Once
<1>5. InHand' = InHand \ {e} /\ e \in InHand
  BY <1>2, <1>4 DEF InHand
<1>6. WithMain' = WithMain /\ InLive' = InLive /\ Live' = Live
  BY <1>1, SamePlaces
<1>7. \A u, v \in Threads : hand'[u] # NULL /\ hand'[u] = hand'[v] => u = v
  BY <1>3, <1>4 DEF Once
<1>8. \A i, j \in Live' : q'[i] = q'[j] => i = j
  BY <1>1, <1>3, SameOnce
<1> HIDE DEF e
<1>9. CASE lost' = lost \cup {e} /\ delivered' = delivered
  <2>1. Delivered' = Delivered
    BY <1>9, SamePlaces
  <2>2. Once'
    BY <1>3, <1>7, <1>8, <1>9 DEF Once
  <2> QED
    BY <1>1, <1>3, <1>5, <1>6, <1>9, <2>1, <2>2 DEF Apart, Covered
<1>10. CASE delivered' = Append(delivered, e) /\ lost' = lost
  <2>1. /\ Len(delivered') = Len(delivered) + 1 /\ delivered'[Len(delivered) + 1] = e
        /\ \A k \in 1 .. Len(delivered) : delivered'[k] = delivered[k]
    BY <1>2, <1>10
  <2>2. \A k \in 1 .. Len(delivered') : (k \in 1 .. Len(delivered) /\ delivered'[k] = delivered[k])
                                         \/ (k = Len(delivered) + 1 /\ delivered'[k] = e)
    BY <1>2, <2>1
  <2>3. \A k \in 1 .. Len(delivered) : k \in 1 .. Len(delivered') /\ delivered[k] \in Delivered
    BY <1>2, <2>1 DEF Delivered
  <2>4. Len(delivered) + 1 \in 1 .. Len(delivered')
    BY <1>2, <2>1
  <2>5. Delivered' = Delivered \cup {e}
    BY <2>1, <2>2, <2>3, <2>4 DEF Delivered
  <2>6. e \notin Delivered
    BY <1>3, <1>5 DEF Apart
  <2>7. \A j, k \in 1 .. Len(delivered') : delivered'[j] = delivered'[k] => j = k
    <3> DEFINE D == 1 .. Len(delivered)
               last == Len(delivered) + 1
    <3>1. \A j, k \in D : delivered[j] = delivered[k] => j = k
      BY <1>3 DEF Once
    <3>2. \A k \in D : delivered[k] # e
      BY <2>3, <2>6
    <3>3. \A k \in 1 .. Len(delivered') : (k \in D /\ delivered'[k] = delivered[k]) \/ (k = last /\ delivered'[k] = e)
      BY <2>2
    <3> HIDE DEF D, last
    <3> QED
      BY <3>1, <3>2, <3>3
  <2>8. Once'
    BY <1>7, <1>8, <2>7 DEF Once
  <2> QED
    BY <1>1, <1>3, <1>5, <1>6, <1>10, <2>5, <2>8 DEF Apart, Covered
<1> QED
  BY <1>1, <1>9, <1>10

(* A ring that is deepened, or set up again after it was destroyed, keeps its events in their slots. *)
LEMMA RingPlaces ==
  ASSUME PlaceInv, UNCHANGED <<ev, hand, delivered, sent, lost>>,
         \/ \E t \in Threads : Reconfigure(t)
         \/ ReconfigureDead,
         SameTeardown, UNCHANGED <<q, q_depth>> \/ q_depth = 0 \/ \A t \in Threads : opc[t] \notin Destroying
  PROVE  Once' /\ Apart' /\ Covered'
<1>1. q \in [Slots -> Events \cup {NULL}] /\ q_depth \in Nat
  BY PlaceTypes, DepthsAssumption DEF PlaceInv, TypeInv, TypeOK, QueueTypes
<1>2. \/ UNCHANGED <<q, q_depth>>
      \/ \E size \in Nat : /\ size > q_depth /\ q_depth' = size
                           /\ q' = [i \in 0 .. size - 1 |-> IF i \in Slots THEN q[i] ELSE NULL]
  <2>1. daemon_config.q_depth \in Nat /\ \A c \in Config : c.q_depth \in Nat \ {0}
    BY DepthsAssumption DEF PlaceInv, TypeInv, TypeOK, ThreadTypes, Config
  <2>2. CASE \E t \in Threads : Reconfigure(t)
    BY <2>1, <2>2 DEF Reconfigure, IncreaseQueueDepth
  <2>3. CASE ReconfigureDead
    <3>1. daemon_config' \in Config
      BY <2>3 DEF ReconfigureDead, CopyConfig
    <3>2. CASE UNCHANGED queueVars
      BY <3>2 DEF queueVars
    <3>3. CASE InitQueue(daemon_config'.q_depth) /\ q_depth = 0
      <4>1. daemon_config'.q_depth \in Nat \ {0}
        BY <2>1, <3>1
      <4>2. q_depth' = daemon_config'.q_depth /\ q' = EmptyRing(daemon_config'.q_depth)
        BY <3>3 DEF InitQueue
      <4>3. \A i : i \notin Slots
        BY <3>3 DEF Slots
      <4> QED
        BY <3>3, <4>1, <4>2, <4>3 DEF EmptyRing
    <3> QED
      BY <2>3, <3>2, <3>3 DEF ReconfigureDead, InitQueue
  <2> QED
    BY <2>2, <2>3
<1>3. Occupied' = Occupied /\ \A i \in Occupied : q'[i] = q[i]
  <2>1. CASE UNCHANGED <<q, q_depth>>
    BY <2>1 DEF Occupied, Slots
  <2>2. ASSUME NEW size \in Nat, size > q_depth, q_depth' = size,
               q' = [i \in 0 .. size - 1 |-> IF i \in Slots THEN q[i] ELSE NULL]
        PROVE  Occupied' = Occupied /\ \A i \in Occupied : q'[i] = q[i]
    <3>1. Slots' = 0 .. size - 1 /\ Slots \subseteq 0 .. size - 1
      BY <1>1, <2>2 DEF Slots
    <3> QED
      BY <2>2, <3>1 DEF Occupied
  <2> QED
    BY <1>2, <2>1, <2>2
<1>7. Live' = Live /\ \A i \in Live : q'[i] = q[i]
  <2>1. CASE UNCHANGED <<q, q_depth>>
    BY <2>1, SamePlaces
  <2>2. CASE q_depth = 0
    BY <1>3, <2>2 DEF Live, Occupied, Slots
  <2>3. CASE \A t \in Threads : opc[t] \notin Destroying
    BY <1>3, <2>3, NobodyTears
  <2> QED
    BY <2>1, <2>2, <2>3
<1>4. InLive' = InLive
  BY <1>7 DEF InLive
<1>5. InHand' = InHand /\ Delivered' = Delivered /\ WithMain' = WithMain
  BY SamePlaces
<1>6. Once'
  BY <1>7 DEF PlaceInv, Once
<1> QED
  BY <1>4, <1>5, <1>6 DEF PlaceInv, Apart, Covered

(* destroy_queue frees one slot: its event goes from the ring to the freed. *)
LEMMA FreeSlotPlaces ==
  ASSUME PlaceInv, NEW t \in Threads, FreeSlot(t),
         \A u \in Threads \ {t} : opc[u] \notin Destroying
  PROVE  Once' /\ Apart' /\ Covered'
<1> DEFINE n == fslot[t]
<1>1. /\ hand' = hand /\ delivered' = delivered /\ ev' = ev /\ sent' = sent
      /\ q' = q /\ q_depth' = q_depth /\ opc' = opc /\ opc[t] = "destroy" /\ n < q_depth
      /\ fslot' = [fslot EXCEPT ![t] = n + 1] /\ lost' = lost \cup ({q[n]} \ {NULL})
  BY DEF FreeSlot, mainVars, queueVars
<1>2. q_depth \in Nat /\ fslot \in [Threads -> Nat]
  BY DepthsAssumption DEF PlaceInv, TypeInv, TypeOK, QueueTypes, ThreadTypes
<1>3. n \in Slots /\ Slots' = Slots /\ Occupied' = Occupied
  BY <1>1, <1>2 DEF Slots, Occupied
<1>4. \A u \in Threads : (opc[u] = "destroy" \/ opc[u] = "freed") => u = t
  BY DEF Destroying
<1>5. Passed = {i \in Slots : i < n}
  BY <1>1, <1>4 DEF Passed
<1>6. Passed' = {i \in Slots : i < n + 1}
  BY <1>1, <1>2, <1>3, <1>4 DEF Passed
<1>7. Live' = Live \ {n} /\ (q[n] # NULL => n \in Live)
  <2>1. \A i \in Slots : i < n + 1 <=> (i < n \/ i = n)
    BY <1>2 DEF Slots
  <2> QED
    BY <1>2, <1>3, <1>5, <1>6, <2>1 DEF Live, Occupied
<1>8. Apart /\ Covered /\ Once
  BY DEF PlaceInv
<1> DEFINE e == q[n]
<1> HIDE DEF n
<1>9. e # NULL => InLive' = InLive \ {e} /\ e \in InLive
  BY <1>1, <1>7, <1>8 DEF InLive, Once
<1>10. e = NULL => Live' = Live /\ InLive' = InLive
  BY <1>1, <1>7 DEF InLive, Live, Occupied
<1>11. Live' \subseteq Live
  BY <1>7
<1>12. InHand' = InHand /\ Delivered' = Delivered /\ WithMain' = WithMain
  BY <1>1, SamePlaces
<1>13. lost' = IF e = NULL THEN lost ELSE lost \cup {e}
  BY <1>1
<1>14. Once'
  BY <1>1, <1>8, <1>11 DEF Once
<1> HIDE DEF e
<1>15. CASE e = NULL
  BY <1>1, <1>8, <1>10, <1>12, <1>13, <1>14, <1>15 DEF Apart, Covered
<1>16. CASE e # NULL
  BY <1>1, <1>8, <1>9, <1>12, <1>13, <1>14, <1>16 DEF Apart, Covered
<1> QED
  BY <1>15, <1>16

(* The rest of destroy_queue, and its call, find no event in the ring or leave it there. *)
LEMMA TeardownPlaces ==
  ASSUME PlaceInv, NEW t \in Threads,
         \/ ClearPlugins(t) \/ ResetIndices(t)
         \/ FreeRing(t) /\ \A u \in Threads \ {t} : opc[u] \notin Destroying
  PROVE  Once' /\ Apart' /\ Covered'
<1>1. /\ hand' = hand /\ delivered' = delivered /\ ev' = ev /\ sent' = sent /\ lost' = lost
  BY DEF ClearPlugins, FreeRing, ResetIndices, mainVars, histVars
<1>2. InHand' = InHand /\ Delivered' = Delivered /\ WithMain' = WithMain
  BY <1>1, SamePlaces
<1>3. opc \in [Threads -> OutPC] /\ fslot \in [Threads -> Nat] /\ q_depth \in Nat
  BY DepthsAssumption DEF PlaceInv, TypeInv, TypeOK, ThreadTypes, QueueTypes
<1>4. Live' = Live /\ \A i \in Live : q'[i] = q[i]
  <2>1. CASE ClearPlugins(t)
    <3>1. q' = q /\ q_depth' = q_depth /\ opc[t] = "exit" /\ opc' = [opc EXCEPT ![t] = "destroy"]
          /\ fslot' = [fslot EXCEPT ![t] = 0]
      BY <2>1 DEF ClearPlugins, queueVars, Goto
    <3>2. \A i \in Slots : ~(i < 0)
      BY <1>3 DEF Slots
    <3>3. Slots' = Slots /\ Occupied' = Occupied
      BY <3>1 DEF Slots, Occupied
    <3>4. /\ opc'[t] = "destroy" /\ fslot'[t] = 0
          /\ \A u \in Threads : u # t => opc'[u] = opc[u] /\ fslot'[u] = fslot[u]
      BY <1>3, <3>1
    <3>5. Passed' = Passed
      BY <3>1, <3>2, <3>3, <3>4 DEF Passed
    <3> QED
      BY <3>1, <3>3, <3>5 DEF Live
  <2>2. CASE ResetIndices(t)
    <3>1. opc[t] = "freed" /\ q_depth' = 0
      BY <2>2 DEF ResetIndices
    <3>2. Passed = Slots
      BY <3>1 DEF Passed
    <3>3. Live = {}
      BY <3>2 DEF Live, Occupied
    <3>4. Slots' = {}
      BY <3>1 DEF Slots
    <3> QED
      BY <3>3, <3>4 DEF Live, Occupied
  <2>3. CASE FreeRing(t) /\ \A u \in Threads \ {t} : opc[u] \notin Destroying
    <3>1. /\ q' = q /\ q_depth' = q_depth /\ opc[t] = "destroy" /\ fslot[t] >= q_depth
          /\ opc' = [opc EXCEPT ![t] = "freed"]
      BY <2>3 DEF FreeRing, queueVars, Goto
    <3>2. \A i \in Slots : i < fslot[t]
      BY <1>3, <3>1 DEF Slots
    <3>3. Passed = Slots
      BY <3>1, <3>2 DEF Passed
    <3>4. Slots' = Slots /\ Occupied' = Occupied /\ opc'[t] = "freed"
      BY <1>3, <3>1 DEF Slots, Occupied
    <3>5. Passed' = Slots
      BY <3>4 DEF Passed
    <3> QED
      BY <3>1, <3>3, <3>4, <3>5 DEF Live, Occupied
  <2> QED
    BY <2>1, <2>2, <2>3
<1>5. InLive' = InLive
  BY <1>4 DEF InLive
<1>6. Once'
  BY <1>1, <1>4 DEF PlaceInv, Once
<1> QED
  BY <1>1, <1>2, <1>5, <1>6 DEF PlaceInv, Apart, Covered

(* Every action moves an event from one place to another, or none, unless   *)
(* it uses a ring that is being torn down.                                  *)
LEMMA StepPlaces == PlaceInv /\ Next /\ ~overlapped' => Once' /\ Apart' /\ Covered'
<1> SUFFICES ASSUME PlaceInv, Next, ~overlapped' PROVE Once' /\ Apart' /\ Covered'
  OBVIOUS
<1>0. /\ (mpc = "idle" => ev = NULL) /\ (mpc \in {"check", "put"} => ev # NULL)
  BY PlaceTypes DEF PlaceInv
<1>a. TypeInv
  BY DEF PlaceInv
<1>1. ASSUME NEW t \in Threads, ClearPlugins(t) \/ ResetIndices(t) PROVE Once' /\ Apart' /\ Covered'
  BY <1>1, TeardownPlaces
<1>2. ASSUME NEW t \in Threads, FreeRing(t) PROVE Once' /\ Apart' /\ Covered'
  BY <1>2, TeardownPlaces DEF FreeRing, Torn
<1>3. ASSUME NEW t \in Threads, FreeSlot(t) PROVE Once' /\ Apart' /\ Covered'
  BY <1>3, FreeSlotPlaces DEF FreeSlot, Torn
<1>4. CASE SameTeardown
  <2>1. CASE DispatchEvent
    BY <1>0, <1>4, <2>1, MainPlaces DEF DispatchEvent, queueVars
  <2>2. CASE EnqueueCheckSuspended
    BY <1>0, <1>4, <2>2, MainPlaces DEF EnqueueCheckSuspended, queueVars
  <2>3. CASE EnqueuePut
    BY <1>4, <2>3, PutPlaces DEF EnqueuePut, UseRing, Torn
  <2>4. CASE EnqueueOverflow
    BY <1>0, <1>4, <2>4, MainPlaces DEF EnqueueOverflow, queueVars
  <2>5. CASE ReconfigureDead
    <3>1. UNCHANGED <<q, q_depth>> \/ q_depth = 0
      BY <2>5 DEF ReconfigureDead, InitQueue, queueVars
    <3> QED
      BY <1>4, <2>5, <3>1, RingPlaces DEF ReconfigureDead, mainVars
  <2>6. ASSUME NEW t \in Threads, Dequeue(t) \/ DequeueWoken(t) PROVE Once' /\ Apart' /\ Covered'
    <3>1. ev' = ev /\ delivered' = delivered /\ sent' = sent /\ lost' = lost /\ opc[t] \in {"dequeue", "woken"}
      BY <2>6 DEF Dequeue, DequeueWoken, mainVars, histVars
    <3>2. CASE q_depth # 0 /\ GrabEvent(t) /\ UseRing(Threads \ {t})
      <4>1. \A u \in Threads : opc[u] \notin Destroying
        BY <3>1, <3>2 DEF UseRing, Torn, Destroying
      <4> QED
        BY <1>4, <3>1, <3>2, <4>1, GrabPlaces
    <3>3. CASE UNCHANGED <<q, q_depth, hand>>
      BY <1>4, <3>1, <3>3, MainPlaces
    <3> QED
      BY <2>6, <3>2, <3>3 DEF Dequeue, DequeueWoken, GrabNothing, queueVars
  <2>7. ASSUME NEW t \in Threads, DeliverEvent(t) PROVE Once' /\ Apart' /\ Covered'
    BY <1>4, <2>7, DeliverPlaces
  <2>8. ASSUME NEW t \in Threads, Reconfigure(t) PROVE Once' /\ Apart' /\ Covered'
    <3>1. UNCHANGED <<q, q_depth>> \/ \A u \in Threads : opc[u] \notin Destroying
      BY <2>8 DEF Reconfigure, IncreaseQueueDepth, Torn, Destroying
    <3> QED
      BY <1>4, <2>8, <3>1, RingPlaces DEF Reconfigure, mainVars, histVars
  <2>9. CASE UNCHANGED <<q, q_depth, hand, delivered, ev, sent, lost>>
    BY <1>4, <2>9, MainPlaces
  <2>10. CASE Die
    BY <2>10 DEF Die
  <2> QED
    BY NextCases, <1>1, <1>2, <1>3, <2>1, <2>2, <2>3, <2>4, <2>5, <2>6, <2>7, <2>8, <2>9, <2>10
    DEF EnqueueRetry, EnqueueCrash, ReconfigureRunning, NudgeHup,
        ResumeQueue, Shutdown, LoopTop, CondWait, SpuriousWakeup,
        DequeueCrash, NullReturned, HupHandled, ResetCounters, HeapFault,
        queueVars, mainVars, histVars
<1> QED
  BY <1>a, <1>1, <1>2, <1>3, <1>4, StepTeardown

(* At the start no event was dispatched. *)
LEMMA InitPlaces == Init => PlaceInv
<1> SUFFICES ASSUME Init PROVE PlaceInv
  OBVIOUS
<1>1. TypeInv
  BY InitTypeInv
<1>2. Live = {}
  BY DEF Init, Live, Occupied, EmptyRing, Slots
<1>3. Delivered = {} /\ InHand = {} /\ InLive = {} /\ WithMain = {} /\ lost = {} /\ sent = 0
  BY <1>2 DEF Init, Delivered, InHand, InLive, WithMain, NULL
<1>4. Apart /\ Covered
  BY <1>3 DEF Apart, Covered
<1>5. Once
  BY <1>2 DEF Init, Once
<1> QED
  BY <1>1, <1>4, <1>5 DEF PlaceInv

(* The types are kept by every step. *)
LEMMA StepTypeInv == TypeInv /\ [Next]_vars => TypeInv'
<1>1. TypeInv /\ Next => TypeInv'
  BY StepQueueTypes, StepFlagTypes, StepThreadTypes, StepHistTypes, StepOwnership,
     StepDeadIsDead DEF TypeInv, TypeOK
<1>2. TypeInv /\ UNCHANGED vars => TypeInv'
  BY DEF TypeInv, TypeOK, QueueTypes, FlagTypes, ThreadTypes, HistTypes, Ownership, DeadIsDead,
         vars, queueVars, flagVars, dispVars, mainVars, heapVars, histVars, Slots
<1> QED
  BY <1>1, <1>2

(* Once the ring was used while it was torn down, that is not forgotten. *)
LEMMA OverlapStays == overlapped /\ [Next]_vars => overlapped'
<1> SUFFICES ASSUME overlapped, [Next]_vars PROVE overlapped'
  OBVIOUS
<1> USE DEF heapVars, UseRing
<1>1. CASE UNCHANGED vars
  BY <1>1 DEF vars
<1>2. CASE Next
  <2>1. CASE \/ DispatchEvent \/ EnqueueCheckSuspended \/ EnqueuePut \/ EnqueueRetry \/ EnqueueOverflow
             \/ EnqueueCrash \/ ReconfigureRunning \/ NudgeHup \/ ReconfigureDead \/ ResumeQueue \/ Shutdown
    BY <2>1 DEF DispatchEvent, EnqueueCheckSuspended, EnqueuePut, EnqueueRetry, EnqueueOverflow,
       EnqueueCrash, Die, ReconfigureRunning, NudgeHup, ReconfigureDead, ResumeQueue, Shutdown
  <2>2. ASSUME NEW t \in Threads, LoopTop(t) \/ Dequeue(t) \/ CondWait(t) \/ SpuriousWakeup(t)
                                  \/ DequeueWoken(t) \/ DequeueCrash(t) \/ NullReturned(t)
        PROVE  overlapped'
    BY <2>2 DEF LoopTop, Dequeue, CondWait, SpuriousWakeup, DequeueWoken, DequeueCrash, Die, NullReturned
  <2>3. ASSUME NEW t \in Threads, DeliverEvent(t) \/ Reconfigure(t) \/ HupHandled(t) \/ ClearPlugins(t)
                                  \/ FreeSlot(t) \/ FreeRing(t) \/ ResetIndices(t) \/ ResetCounters(t) \/ HeapFault(t)
        PROVE  overlapped'
    BY <2>3 DEF DeliverEvent, Reconfigure, IncreaseQueueDepth, HupHandled, ClearPlugins, FreeSlot,
       FreeRing, ResetIndices, ResetCounters, HeapFault, Die
  <2> QED
    BY <1>2, <2>1, <2>2, <2>3, NextCases
<1> QED
  BY <1>1, <1>2

(* Every step keeps events in their places. *)
LEMMA StepSafeInv == SafeInv /\ [Next]_vars => SafeInv'
<1> SUFFICES ASSUME SafeInv, [Next]_vars PROVE SafeInv'
  OBVIOUS
<1>1. TypeInv'
  BY StepTypeInv DEF SafeInv
<1>2. CASE overlapped'
  BY <1>1, <1>2 DEF SafeInv
<1>3. CASE ~overlapped'
  <2>1. PlaceInv
    BY <1>3, OverlapStays DEF SafeInv
  <2>2. CASE Next
    BY <1>1, <1>3, <2>1, <2>2, StepPlaces DEF SafeInv, PlaceInv
  <2>3. CASE UNCHANGED vars
    <3>1. SameTeardown /\ UNCHANGED <<q, q_depth, hand, delivered, ev, sent, lost>>
      BY <2>3 DEF SameTeardown, vars, heapVars, queueVars, mainVars, histVars
    <3> QED
      BY <1>1, <2>1, <3>1, MainPlaces DEF SafeInv, PlaceInv
  <2> QED
    BY <2>2, <2>3
<1> QED
  BY <1>2, <1>3

(* A set has as many elements as the finite set it is mapped to one to one. *)
LEMMA SameCount ==
  ASSUME NEW S, NEW T, IsFiniteSet(T), NEW f \in [S -> T],
         \A x, y \in S : f[x] = f[y] => x = y, \A z \in T : \E x \in S : f[x] = z
  PROVE  IsFiniteSet(S) /\ Cardinality(S) = Cardinality(T)
<1>1. f \in Injection(S, T)
  BY DEF Injection, IsInjective
<1>2. f \in Surjection(S, T)
  BY DEF Surjection
<1> QED
  BY <1>1, <1>2, FS_Injection

(* Two sets without a common element count together. *)
LEMMA CountApart ==
  ASSUME NEW S, NEW T, IsFiniteSet(S), IsFiniteSet(T), S \cap T = {}
  PROVE  IsFiniteSet(S \cup T) /\ Cardinality(S \cup T) = Cardinality(S) + Cardinality(T)
<1>1. Cardinality(S) \in Nat /\ Cardinality(T) \in Nat
  BY FS_CardinalityType
<1>2. IsFiniteSet(S \cup T) /\ Cardinality(S \cup T) = Cardinality(S) + Cardinality(T) - Cardinality(S \cap T)
  BY FS_Union
<1>3. Cardinality(S \cap T) = 0
  BY FS_EmptySet
<1> QED
  BY <1>1, <1>2, <1>3

(* The first n numbers are n. *)
LEMMA IntervalCount ==
  ASSUME NEW n \in Nat
  PROVE  IsFiniteSet(1 .. n) /\ Cardinality(1 .. n) = n
<1>1. Cardinality(1 .. n) = IF 1 > n THEN 0 ELSE n - 1 + 1 
  BY FS_Interval
<1>2. IsFiniteSet(1 .. n)
  BY FS_Interval
<1> QED
  BY <1>1, <1>2

(* Places account for the number of events. *)
LEMMA PlacesCount == PlaceInv => EventAccounting
<1> SUFFICES ASSUME PlaceInv PROVE EventAccounting
  OBVIOUS
<1>1. /\ q \in [Slots -> Events \cup {NULL}] /\ hand \in [Threads -> Events \cup {NULL}]
      /\ delivered \in Seq(Events) /\ sent \in Nat
  BY PlaceTypes DEF PlaceInv
<1>2. Covered /\ Apart /\ Once
  BY DEF PlaceInv
<1>3. IsFiniteSet(1 .. sent) /\ Cardinality(1 .. sent) = sent
  BY <1>1, FS_Interval
<1>4. /\ IsFiniteSet(WithMain) /\ IsFiniteSet(InLive) /\ IsFiniteSet(InHand)
      /\ IsFiniteSet(Delivered) /\ IsFiniteSet(lost)
  <2>1. /\ WithMain \in SUBSET (1 .. sent) /\ InLive \in SUBSET (1 .. sent) /\ InHand \in SUBSET (1 .. sent)
        /\ Delivered \in SUBSET (1 .. sent) /\ lost \in SUBSET (1 .. sent)
    BY <1>2 DEF Covered
  <2> QED
    BY <1>3, <2>1, FS_Subset
<1>5. Cardinality(Live) = Cardinality(InLive)
  <2> DEFINE f == [i \in Live |-> q[i]]
  <2>1. f \in [Live -> InLive] /\ (\A z \in InLive : \E x \in Live : f[x] = z)
    BY DEF InLive
  <2>2. \A x, y \in Live : f[x] = f[y] => x = y
    BY <1>2 DEF Once
  <2> HIDE DEF f
  <2> QED
    BY <1>4, <2>1, <2>2, SameCount
<1>6. Cardinality({t \in Threads : hand[t] # NULL}) = Cardinality(InHand)
  <2> DEFINE S == {t \in Threads : hand[t] # NULL}
             f == [t \in S |-> hand[t]]
  <2>1. f \in [S -> InHand] /\ (\A z \in InHand : \E x \in S : f[x] = z)
    BY DEF InHand
  <2>2. \A x, y \in S : f[x] = f[y] => x = y
    BY <1>2 DEF Once
  <2> HIDE DEF f, S
  <2>3. Cardinality(S) = Cardinality(InHand)
    BY <1>4, <2>1, <2>2, SameCount
  <2> QED
    BY <2>3 DEF S
<1>7. Len(delivered) = Cardinality(Delivered)
  <2> DEFINE S == 1 .. Len(delivered)
             f == [k \in S |-> delivered[k]]
  <2>1. f \in [S -> Delivered] /\ (\A z \in Delivered : \E x \in S : f[x] = z)
    BY DEF Delivered
  <2>2. \A x, y \in S : f[x] = f[y] => x = y
    BY <1>2 DEF Once
  <2>3. Cardinality(S) = Len(delivered)
    <3>1. Len(delivered) \in Nat
      BY <1>1
    <3> QED
      BY <3>1, IntervalCount
  <2> HIDE DEF f, S
  <2>4. Cardinality(S) = Cardinality(Delivered)
    BY <1>4, <2>1, <2>2, SameCount
  <2> QED
    BY <2>3, <2>4
<1> DEFINE A == Delivered \cup lost
           B == InHand \cup A
           C == InLive \cup B
           D == WithMain \cup C
<1>8. /\ D = 1 .. sent /\ Delivered \cap lost = {} /\ InHand \cap A = {} /\ InLive \cap B = {} /\ WithMain \cap C = {}
  BY <1>2 DEF Covered, Apart
<1>9. IsFiniteSet(A) /\ Cardinality(A) = Cardinality(Delivered) + Cardinality(lost)
  BY <1>4, <1>8, CountApart
<1> HIDE DEF A
<1>10. IsFiniteSet(B) /\ Cardinality(B) = Cardinality(InHand) + Cardinality(A)
  BY <1>4, <1>8, <1>9, CountApart
<1> HIDE DEF B
<1>11. IsFiniteSet(C) /\ Cardinality(C) = Cardinality(InLive) + Cardinality(B)
  BY <1>4, <1>8, <1>10, CountApart
<1> HIDE DEF C
<1>12. Cardinality(D) = Cardinality(WithMain) + Cardinality(C)
  BY <1>4, <1>8, <1>11, CountApart
<1> HIDE DEF D
<1>13. /\ Cardinality(WithMain) \in Nat /\ Cardinality(InLive) \in Nat /\ Cardinality(InHand) \in Nat
       /\ Cardinality(Delivered) \in Nat /\ Cardinality(lost) \in Nat
  BY <1>4, FS_CardinalityType
<1>14. Cardinality(WithMain) + Cardinality(InLive) + Cardinality(InHand) + Cardinality(Delivered) + Cardinality(lost) = sent
  BY <1>3, <1>8, <1>9, <1>10, <1>11, <1>12, <1>13
<1> QED
  BY <1>2, <1>5, <1>6, <1>7, <1>14 DEF Covered, EventAccounting

-----------------------------------------------------------------------------
(* The life of the dispatcher when every reload leaves a plugin active: one *)
(* outbound thread, which ends only when the daemon stops; the main thread  *)
(* makes no call after libdisp_shutdown, so nobody meets a torn ring.       *)
Lifecycle ==
  /\ \A t, u \in Threads : opc[t] # "none" /\ opc[u] # "none" => t = u
  /\ stop => mpc = "done"
  /\ mpc # "dead"
  /\ ~plugins_listed => stop
  /\ \A t \in Threads : opc[t] \in {"exit", "destroy", "freed", "cleared"} => stop
  /\ q_depth = 0 => stop /\ \A t \in Threads : opc[t] \in {"none", "cleared"}
  /\ ~q_alive => stop /\ \A t \in Threads : opc[t] \in {"none", "freed", "cleared"}
  /\ ~overlapped

(* The invariant of the queue for every depth. *)
LifeInv == SafeInv /\ (CanBeEmpty \/ Lifecycle)

LEMMA InitLifeInv == Init => LifeInv
<1> SUFFICES ASSUME Init PROVE LifeInv
  OBVIOUS
<1>1. Lifecycle
  BY DepthsAssumption DEF Init, Lifecycle, Config
<1> QED
  BY <1>1, InitTypeInv, InitPlaces DEF LifeInv, SafeInv

(* With one thread and no overlap nothing that is used was freed before. *)
LEMMA NothingFreedUsed ==
  ASSUME SafeInv, Lifecycle, NEW t \in Threads
  PROVE  ~UsesFreed(t)
<1>1. PlaceInv /\ q_depth \in Nat /\ fslot \in [Threads -> Nat] /\ lost \subseteq Events /\ NULL \notin Events
  BY DepthsAssumption DEF SafeInv, Lifecycle, TypeInv, TypeOK, QueueTypes, ThreadTypes, HistTypes, NULL, Events
<1>2. CASE opc[t] = "deliver" /\ hand[t] \in lost
  <2>1. hand[t] # NULL
    BY <1>1, <1>2
  <2>2. hand[t] \in InHand
    BY <2>1 DEF InHand
  <2> QED
    BY <1>1, <1>2, <2>2 DEF PlaceInv, Apart
<1>3. CASE opc[t] = "destroy" /\ fslot[t] < q_depth /\ q[fslot[t]] \in lost
  <2>1. \A u \in Threads : (opc[u] = "destroy" \/ opc[u] = "freed") => u = t
    BY <1>3 DEF Lifecycle
  <2>2. fslot[t] \in Slots /\ ~(fslot[t] < fslot[t]) /\ opc[t] # "freed"
    BY <1>1, <1>3 DEF Slots
  <2>3. fslot[t] \notin Passed
    BY <2>1, <2>2 DEF Passed
  <2>4. fslot[t] \in Live
    BY <1>1, <1>3, <2>2, <2>3 DEF Live, Occupied
  <2>5. q[fslot[t]] \in InLive
    BY <2>4 DEF InLive
  <2> QED
    BY <1>1, <1>3, <2>5 DEF PlaceInv, Apart
<1>4. opc[t] # "none" /\ opc[t] \notin {"freed", "cleared"} => q_alive
  BY DEF Lifecycle
<1> QED
  BY <1>2, <1>3, <1>4 DEF UsesFreed

(* No second thread and no call after shutdown. *)
LEMMA StepLifecycle == ~CanBeEmpty /\ SafeInv /\ Lifecycle /\ Next => Lifecycle'
<1> SUFFICES ASSUME ~CanBeEmpty, SafeInv, Lifecycle, Next PROVE Lifecycle'
  OBVIOUS
<1> USE DEF SafeInv, TypeInv, TypeOK, ThreadTypes, Lifecycle, mainVars, dispVars, queueVars, heapVars,
            UseRing, Torn, Destroying
<1>1. CASE DispatchEvent
  BY <1>1 DEF DispatchEvent
<1>2. CASE EnqueueCheckSuspended
  BY <1>2 DEF EnqueueCheckSuspended
<1>3. CASE EnqueuePut
  BY <1>3 DEF EnqueuePut, Signal, Waiting
<1>4. CASE EnqueueOverflow
  BY <1>4 DEF EnqueueOverflow
<1>5. CASE ReconfigureRunning
  BY <1>5 DEF ReconfigureRunning
<1>6. CASE NudgeHup
  BY <1>6 DEF NudgeHup, Signal, Waiting
<1>7. CASE ReconfigureDead
  BY <1>7 DEF ReconfigureDead
<1>8. CASE Shutdown
  BY <1>8 DEF Shutdown, Signal, Waiting
<1>9. ASSUME NEW t \in Threads, LoopTop(t) PROVE Lifecycle'
  BY <1>9 DEF LoopTop, Goto
<1>10. ASSUME NEW t \in Threads, Dequeue(t) PROVE Lifecycle'
  BY <1>10 DEF Dequeue, GrabEvent, Goto
<1>11. ASSUME NEW t \in Threads, CondWait(t) PROVE Lifecycle'
  BY <1>11 DEF CondWait, Goto
<1>12. ASSUME NEW t \in Threads, SpuriousWakeup(t) PROVE Lifecycle'
  BY <1>12 DEF SpuriousWakeup, Goto
<1>13. ASSUME NEW t \in Threads, DequeueWoken(t) PROVE Lifecycle'
  BY <1>13 DEF DequeueWoken, GrabEvent, GrabNothing, Goto
<1>14. ASSUME NEW t \in Threads, NullReturned(t) PROVE Lifecycle'
  BY <1>14 DEF NullReturned, Goto
<1>15. ASSUME NEW t \in Threads, DeliverEvent(t) PROVE Lifecycle'
  BY <1>15 DEF DeliverEvent, Goto
<1>16. ASSUME NEW t \in Threads, Reconfigure(t) PROVE Lifecycle'
  <2>1. q_depth # 0 /\ q_alive /\ q_depth' # 0 /\ q_alive' /\ ~overlapped'
    BY <1>16, DepthsAssumption DEF Reconfigure, IncreaseQueueDepth, Config
  <2> QED
    BY <1>16, <2>1 DEF Reconfigure, Goto
<1>17. ASSUME NEW t \in Threads, HupHandled(t) PROVE Lifecycle'
  BY <1>17 DEF HupHandled, Goto
<1>18. ASSUME NEW t \in Threads, ClearPlugins(t) PROVE Lifecycle'
  BY <1>18 DEF ClearPlugins, Goto
<1>19. ASSUME NEW t \in Threads, FreeSlot(t) PROVE Lifecycle'
  BY <1>19 DEF FreeSlot
<1>20. ASSUME NEW t \in Threads, FreeRing(t) PROVE Lifecycle'
  BY <1>20 DEF FreeRing, Goto
<1>21. ASSUME NEW t \in Threads, ResetIndices(t) PROVE Lifecycle'
  BY <1>21 DEF ResetIndices, Goto
<1>22. ASSUME NEW t \in Threads, ResetCounters(t) PROVE Lifecycle'
  BY <1>22 DEF ResetCounters, Goto
<1>23. ASSUME NEW t \in Threads, HeapFault(t) PROVE Lifecycle'
  BY <1>23, NothingFreedUsed DEF HeapFault
<1>24. CASE EnqueueCrash
  BY <1>24 DEF EnqueueCrash
<1>25. ASSUME NEW t \in Threads, DequeueCrash(t) PROVE Lifecycle'
  BY <1>25 DEF DequeueCrash
<1>26. CASE EnqueueRetry \/ ResumeQueue
  BY <1>26 DEF EnqueueRetry, ResumeQueue
<1> QED
  BY NextCases, <1>1, <1>2, <1>3, <1>4, <1>5, <1>6, <1>7, <1>8, <1>9, <1>10, <1>11, <1>12, <1>13, <1>14, <1>15,
     <1>16, <1>17, <1>18, <1>19, <1>20, <1>21, <1>22, <1>23, <1>24, <1>25, <1>26

LEMMA StepLifeInv == LifeInv /\ [Next]_vars => LifeInv'
<1> SUFFICES ASSUME LifeInv, [Next]_vars PROVE LifeInv'
  OBVIOUS
<1>1. SafeInv'
  BY StepSafeInv DEF LifeInv
<1>2. ASSUME ~CanBeEmpty PROVE Lifecycle'
  <2>1. CASE Next
    BY <1>2, <2>1, StepLifecycle DEF LifeInv
  <2>2. CASE UNCHANGED vars
    BY <1>2, <2>2 DEF LifeInv, Lifecycle, vars, queueVars, dispVars, mainVars, heapVars
  <2> QED
    BY <2>1, <2>2
<1> QED
  BY <1>1, <1>2 DEF LifeInv

(* No event of queue.c and event_loop leaks and none is freed twice, for all depths and    *)
(* any number of threads, while the ring grows, in the middle of destroy_queue and after   *)
(* a restart by libdisp_reconfigure, unless another thread used the ring while             *)
(* destroy_queue, which takes no lock, tore it down; and without a reload that leaves no   *)
(* plugin active that never happens.                                                       *)
THEOREM EventsAccountedFor == Spec => []EventAccounting
<1>1. LifeInv => EventAccounting
  BY PlacesCount DEF LifeInv, Lifecycle, SafeInv, EventAccounting
<1> QED
  BY <1>1, InitLifeInv, StepLifeInv, PTL DEF Spec

-----------------------------------------------------------------------------
(* Order of delivery.  It holds as long as the ring is neither deepened nor *)
(* torn down and set up again: one depth in every configuration, and a      *)
(* plugin left after every reload.                                          *)
FixedRing == (\A d, e \in Depths : d = e) /\ ~CanBeEmpty

(* Event numbers come from a counter. *)
Numbered ==
  /\ \A a \in Delivered \cup InHand \cup InRing : a <= sent
  /\ ev # NULL => ev = sent

OrderInv == SafeInv /\ TypeInv /\ Lifecycle /\ RingWindow /\ DeliveryOrder /\ Numbered

LEMMA InitOrderInv == Init => OrderInv
<1> SUFFICES ASSUME Init PROVE OrderInv
  OBVIOUS
<1>1. TypeInv
  BY InitTypeInv
<1>2. Lifecycle /\ SafeInv
  BY <1>1, InitPlaces, DepthsAssumption DEF Init, Lifecycle, Config, SafeInv
<1>3. Occupied = {} /\ RingWindow
  BY DEF Init, RingWindow, Occupied, EmptyRing, Slots
<1>4. Delivered = {} /\ InHand = {} /\ InRing = {} /\ WithMain = {}
  BY <1>3 DEF Init, Delivered, InHand, InRing, WithMain, NULL
<1>5. DeliveryOrder /\ Numbered
  BY <1>3, <1>4 DEF Init, DeliveryOrder, Numbered, NULL
<1> QED
  BY <1>1, <1>2, <1>3, <1>5 DEF OrderInv

(* With one depth a reload neither moves the ring nor ends the thread. *)
LEMMA ReconfigureKeepsRing ==
  ASSUME FixedRing, OrderInv, NEW t \in Threads, Reconfigure(t)
  PROVE  q' = q /\ q_depth' = q_depth /\ Goto(t, "huphandled")
<1>1. q_depth # 0
  BY DEF OrderInv, Lifecycle, Reconfigure
<1>2. q_depth \in Depths /\ daemon_config.q_depth \in Depths
  BY <1>1 DEF OrderInv, TypeInv, TypeOK, QueueTypes, ThreadTypes, Config
<1>3. daemon_config.q_depth = q_depth /\ q_depth \in Nat
  BY <1>2, DepthsAssumption DEF FixedRing
<1> QED
  BY <1>3 DEF Reconfigure, IncreaseQueueDepth, FixedRing

(* The indices of a ring of one depth, without remainders. *)
LEMMA RingIndices ==
  ASSUME FixedRing, OrderInv, q_depth # 0
  PROVE  /\ q_depth \in Nat \ {0} /\ q_next \in Slots /\ q_last \in Slots
         /\ q_next % q_depth = q_next /\ q_last % q_depth = q_last
         /\ NextIndex(q_next) = IF q_next + 1 = q_depth THEN 0 ELSE q_next + 1
         /\ NextIndex(q_last) = IF q_last + 1 = q_depth THEN 0 ELSE q_last + 1
<1>1. q_depth \in Depths /\ q_depth \in Nat \ {0}
  BY DepthsAssumption DEF OrderInv, TypeInv, TypeOK, QueueTypes
<1>2. q_next \in 0 .. q_depth - 1 /\ q_last \in 0 .. q_depth - 1
  BY <1>1 DEF FixedRing, OrderInv, TypeInv, TypeOK, QueueTypes
<1> QED
  BY <1>1, <1>2, NextIndexValue DEF Slots, NextIndex

(* enqueue extends the window by the slot it fills. *)
LEMMA PutWindow ==
  ASSUME FixedRing, OrderInv, EnqueuePut
  PROVE  RingWindow'
<1> USE DEF Slots
<1>1. q_depth # 0 /\ q_depth' = q_depth /\ q_last' = q_last /\ ev # NULL
  BY DEF EnqueuePut, OrderInv, TypeInv, Ownership
<1>2. /\ q' = [q EXCEPT ![q_next] = ev] /\ q[q_next] = NULL
      /\ q_next' = IF q_next + 1 = q_depth THEN 0 ELSE q_next + 1
      /\ q \in [Slots -> Events \cup {NULL}]
  BY <1>1, RingIndices DEF EnqueuePut, OrderInv, TypeInv, TypeOK, QueueTypes
<1>3. q_depth \in Nat \ {0} /\ q_next \in 0 .. q_depth - 1 /\ q_last \in 0 .. q_depth - 1
  BY <1>1, RingIndices
<1>4. ASSUME NEW i \in 0 .. q_depth - 1 PROVE q'[i] # NULL <=> InWindow(i)'
  <2>1. q'[i] # NULL <=> q[i] # NULL \/ i = q_next
    BY <1>1, <1>2
  <2>2. CASE q_last = q_next /\ Occupied = {}
    BY <1>1, <1>2, <1>3, <2>1, <2>2 DEF InWindow, Occupied
  <2>3. CASE \A j \in Slots : q[j] # NULL <=> InWindow(j)
    BY <1>1, <1>2, <1>3, <2>1, <2>3 DEF InWindow
  <2> QED
    BY <2>2, <2>3 DEF OrderInv, RingWindow
<1> QED
  BY <1>1, <1>4 DEF RingWindow

(* dequeue shortens it by the slot it empties. *)
LEMMA GrabWindow ==
  ASSUME FixedRing, OrderInv, NEW t \in Threads, q_depth # 0, GrabEvent(t)
  PROVE  RingWindow'
<1> USE DEF Slots
<1>1. /\ q' = [q EXCEPT ![q_last] = NULL] /\ q[q_last] # NULL
      /\ q_last' = IF q_last + 1 = q_depth THEN 0 ELSE q_last + 1
      /\ q \in [Slots -> Events \cup {NULL}]
      /\ q_depth' = q_depth /\ q_next' = q_next
  BY RingIndices DEF GrabEvent, OrderInv, TypeInv, TypeOK, QueueTypes
<1>2. \A i \in Slots : q[i] # NULL <=> InWindow(i)
  BY <1>1, RingIndices DEF OrderInv, RingWindow, Occupied
<1>3. q_depth \in Nat \ {0} /\ q_next \in 0 .. q_depth - 1 /\ q_last \in 0 .. q_depth - 1
  BY RingIndices
<1>4. ASSUME NEW i \in 0 .. q_depth - 1 PROVE q'[i] # NULL <=> q[i] # NULL /\ i # q_last
  BY <1>1
<1>5. CASE q_last' = q_next
  <2>1. ASSUME NEW i \in Slots PROVE q'[i] = NULL
    BY <1>1, <1>2, <1>3, <1>4, <1>5 DEF InWindow
  <2> QED
    BY <1>1, <1>5, <2>1 DEF RingWindow, Occupied
<1>6. CASE q_last' # q_next
  <2>1. ASSUME NEW i \in Slots PROVE q'[i] # NULL <=> InWindow(i)'
    BY <1>1, <1>2, <1>3, <1>4, <1>6 DEF InWindow
  <2> QED
    BY <1>1, <2>1 DEF RingWindow
<1> QED
  BY <1>5, <1>6

(* The window of occupied slots is preserved by every action. *)
LEMMA StepRingWindow == FixedRing /\ OrderInv /\ Next => RingWindow'
<1> SUFFICES ASSUME FixedRing /\ OrderInv, Next PROVE RingWindow'
  OBVIOUS
<1>1. CASE EnqueuePut
  BY <1>1, PutWindow
<1>2. CASE ReconfigureDead
  BY <1>2 DEF ReconfigureDead, OrderInv, Lifecycle
<1>3. ASSUME NEW t \in Threads, Dequeue(t) PROVE RingWindow'
  BY <1>3, GrabWindow DEF Dequeue, queueVars, OrderInv, RingWindow, InWindow,
           Occupied, Slots
<1>4. ASSUME NEW t \in Threads, DequeueWoken(t) PROVE RingWindow'
  BY <1>4, GrabWindow DEF DequeueWoken, GrabNothing, queueVars, OrderInv,
           RingWindow, InWindow, Occupied, Slots
<1>5. ASSUME NEW t \in Threads, Reconfigure(t) PROVE RingWindow'
  BY <1>5, ReconfigureKeepsRing DEF Reconfigure, OrderInv, RingWindow,
           InWindow, Occupied, Slots
<1>6. ASSUME NEW t \in Threads, ResetIndices(t) PROVE RingWindow'
  BY <1>6 DEF ResetIndices, RingWindow, Slots
<1>7. CASE UNCHANGED <<q, q_next, q_last, q_depth>>
  BY <1>7 DEF OrderInv, RingWindow, InWindow, Occupied, Slots
<1> QED
  BY NextCases, <1>1, <1>2, <1>3, <1>4, <1>5, <1>6, <1>7
  DEF DispatchEvent, EnqueueCheckSuspended, EnqueueRetry,
      EnqueueOverflow, EnqueueCrash, Die, ReconfigureRunning, NudgeHup,
      ResumeQueue, Shutdown, LoopTop, CondWait, SpuriousWakeup,
      DequeueCrash, NullReturned, DeliverEvent, HupHandled,
      ClearPlugins, FreeSlot, FreeRing, ResetCounters, HeapFault, queueVars

(* The event put into the ring is the newest, and its slot is the last one  *)
(* of the window.                                                           *)
LEMMA PutOrder ==
  ASSUME FixedRing, OrderInv, EnqueuePut
  PROVE  DeliveryOrder' /\ Numbered'
<1>1. /\ q_depth # 0 /\ q_depth' = q_depth /\ q_last' = q_last /\ ev # NULL /\ ev' = NULL
      /\ hand' = hand /\ delivered' = delivered /\ sent' = sent
  BY DEF EnqueuePut, OrderInv, TypeInv, Ownership, histVars
<1>2. /\ q' = [q EXCEPT ![q_next] = ev] /\ q[q_next] = NULL
      /\ q \in [Slots -> Events \cup {NULL}]
  BY <1>1, RingIndices DEF EnqueuePut, OrderInv, TypeInv, TypeOK, QueueTypes
<1>3. q_depth \in Nat \ {0} /\ q_next \in Slots /\ q_last \in Slots
  BY <1>1, RingIndices
<1>4. Delivered' = Delivered /\ InHand' = InHand /\ WithMain' = {}
  BY <1>1 DEF Delivered, InHand, WithMain
<1>5. Occupied' = Occupied \cup {q_next} /\ q_next \notin Occupied
  BY <1>1, <1>2, <1>3 DEF Occupied, Slots
<1>6. InRing' = InRing \cup {ev}
  BY <1>2, <1>3, <1>5 DEF InRing, Occupied
<1>7. ASSUME NEW i \in Occupied PROVE Before(i, q_next) /\ ~Before(q_next, i)
  <2>1. i \in Slots /\ q[i] # NULL
    BY DEF Occupied
  <2>2. \A j \in Slots : q[j] # NULL <=> InWindow(j)
    BY DEF OrderInv, RingWindow
  <2> QED
    BY <1>2, <1>3, <2>1, <2>2 DEF InWindow, Before, Slots
<1>8. \A a \in Delivered \cup InHand \cup InRing : a < ev
  BY <1>1 DEF OrderInv, DeliveryOrder, WithMain
<1>9. ASSUME NEW i \in Occupied', NEW j \in Occupied', i # j, Before(i, j)'
      PROVE  q'[i] < q'[j]
  <2>1. Before(i, j)
    BY <1>1, <1>9 DEF Before
  <2>2. CASE i = q_next
    BY <1>5, <1>7, <1>9, <2>1, <2>2
  <2>3. CASE j = q_next /\ i # q_next
    BY <1>2, <1>3, <1>5, <1>8, <2>3 DEF InRing, Occupied
  <2>4. CASE i # q_next /\ j # q_next
    BY <1>2, <1>5, <1>9, <2>1, <2>4 DEF OrderInv, DeliveryOrder, Occupied
  <2> QED
    BY <2>2, <2>3, <2>4
<1>10. DeliveryOrder'
  BY <1>1, <1>4, <1>6, <1>8, <1>9 DEF OrderInv, DeliveryOrder
<1>11. Numbered'
  BY <1>1, <1>4, <1>6 DEF OrderInv, Numbered, TypeInv, TypeOK, HistTypes
<1> QED
  BY <1>10, <1>11

(* The event dequeue takes is the oldest of the ring and the thread had none *)
LEMMA GrabOrder ==
  ASSUME FixedRing, OrderInv, NEW t \in Threads, q_depth # 0, GrabEvent(t),
         opc[t] \in {"dequeue", "woken"}, ev' = ev, delivered' = delivered, sent' = sent
  PROVE  DeliveryOrder' /\ Numbered'
<1>1. /\ q' = [q EXCEPT ![q_last] = NULL] /\ q[q_last] # NULL
      /\ q_last' = IF q_last + 1 = q_depth THEN 0 ELSE q_last + 1
      /\ q \in [Slots -> Events \cup {NULL}]
      /\ q_depth' = q_depth /\ hand' = [hand EXCEPT ![t] = q[q_last]]
      /\ hand \in [Threads -> Events \cup {NULL}]
  BY RingIndices DEF GrabEvent, OrderInv, TypeInv, TypeOK, QueueTypes, ThreadTypes
<1>2. q_depth \in Nat \ {0} /\ q_last \in Slots
  BY RingIndices
<1>3. \A u \in Threads : hand[u] = NULL
  BY DEF OrderInv, TypeInv, Ownership, Lifecycle
<1>4. /\ Delivered' = Delivered /\ WithMain' = WithMain
      /\ InHand = {} /\ InHand' = {q[q_last]}
  BY <1>1, <1>3 DEF Delivered, WithMain, InHand
<1>5. Occupied' = Occupied \ {q_last} /\ q_last \in Occupied
  BY <1>1, <1>2 DEF Occupied, Slots
<1>6. /\ q[q_last] \in InRing
      /\ \A b \in InRing' : \E j \in Occupied : j # q_last /\ b = q[j]
      /\ InRing' \subseteq InRing
  BY <1>1, <1>2, <1>5 DEF InRing, Occupied
<1>7. ASSUME NEW j \in Occupied, j # q_last PROVE q[q_last] < q[j]
  <2>1. Before(q_last, j)
    BY <1>2, <1>7 DEF Before, Occupied, Slots
  <2> QED
    BY <1>5, <1>7, <2>1 DEF OrderInv, DeliveryOrder
<1>8. ASSUME NEW i \in Occupied', NEW j \in Occupied', i # j, Before(i, j)'
      PROVE  q'[i] < q'[j]
  <2>1. i \in Slots \ {q_last} /\ j \in Slots \ {q_last}
    BY <1>5 DEF Occupied
  <2>2. Before(i, j)
    BY <1>1, <1>2, <1>8, <2>1 DEF Before, Slots
  <2>3. q'[i] = q[i] /\ q'[j] = q[j]
    BY <1>1, <2>1
  <2> QED
    BY <1>5, <1>8, <2>2, <2>3 DEF OrderInv, DeliveryOrder
<1>9. \A a \in Delivered, b \in InHand' : a < b
  BY <1>4, <1>6 DEF OrderInv, DeliveryOrder
<1>10. \A a \in Delivered' \cup InHand', b \in InRing' : a < b
  BY <1>4, <1>6, <1>7 DEF OrderInv, DeliveryOrder
<1>11. \A a \in Delivered' \cup InHand' \cup InRing', b \in WithMain' : a < b
  BY <1>4, <1>6 DEF OrderInv, DeliveryOrder
<1>12. DeliveryOrder'
  BY <1>4, <1>8, <1>9, <1>10, <1>11 DEF OrderInv, DeliveryOrder
<1>13. Numbered'
  BY <1>4, <1>6 DEF OrderInv, Numbered
<1> QED
  BY <1>12, <1>13

(* A delivered event is newer than those delivered before. *)
LEMMA DeliverOrder ==
  ASSUME FixedRing, OrderInv, NEW t \in Threads, DeliverEvent(t)
  PROVE  DeliveryOrder' /\ Numbered'
<1>1. /\ hand[t] # NULL /\ hand[t] \in InHand /\ hand[t] \in Events
      /\ hand' = [hand EXCEPT ![t] = NULL]
      /\ q' = q /\ q_depth' = q_depth /\ q_last' = q_last /\ ev' = ev /\ sent' = sent
      /\ hand \in [Threads -> Events \cup {NULL}] /\ delivered \in Seq(Events)
  BY DEF DeliverEvent, OrderInv, TypeInv, Ownership, Lifecycle, InHand, TypeOK,
         ThreadTypes, HistTypes, queueVars, mainVars
<1>2. InHand' = {}
  <2>1. \A u \in Threads : u # t => hand[u] = NULL
    BY DEF DeliverEvent, OrderInv, TypeInv, Ownership, Lifecycle
  <2> QED
    BY <1>1, <2>1 DEF InHand
<1>3. Occupied' = Occupied /\ InRing' = InRing /\ WithMain' = WithMain
  BY <1>1 DEF Occupied, InRing, WithMain, Slots
<1>4. \A i, j \in Occupied : i # j /\ Before(i, j)' => q[i] < q[j]
  BY <1>1 DEF OrderInv, DeliveryOrder, Before
<1>5. CASE delivered' = delivered
  <2>1. Delivered' = Delivered
    BY <1>5 DEF Delivered
  <2> QED
    BY <1>1, <1>2, <1>3, <1>4, <1>5, <2>1 DEF OrderInv, DeliveryOrder, Numbered
<1>6. CASE delivered' = Append(delivered, hand[t])
  <2>1. Delivered' = Delivered \cup {hand[t]}
    BY <1>1, <1>6 DEF Delivered
  <2>2. \A k \in 1 .. Len(delivered) : delivered[k] < hand[t]
    BY <1>1 DEF OrderInv, DeliveryOrder, Delivered
  <2>3. ASSUME NEW j \in 1 .. Len(delivered'), NEW k \in 1 .. Len(delivered'), j < k
        PROVE  delivered'[j] < delivered'[k]
    BY <1>1, <1>6, <2>2, <2>3 DEF OrderInv, DeliveryOrder
  <2>4. /\ \A a \in Delivered', b \in InRing' : a < b
        /\ \A a \in Delivered' \cup InRing', b \in WithMain' : a < b
    BY <1>1, <1>3, <2>1 DEF OrderInv, DeliveryOrder
  <2>5. DeliveryOrder'
    BY <1>1, <1>2, <1>3, <1>4, <2>3, <2>4 DEF DeliveryOrder
  <2>6. Numbered'
    BY <1>1, <1>2, <1>3, <2>1 DEF OrderInv, Numbered
  <2> QED
    BY <2>5, <2>6
<1> QED
  BY <1>5, <1>6 DEF DeliverEvent

(* A step that leaves events and ring alone keeps the order. *)
LEMMA FrameOrder ==
  ASSUME OrderInv, UNCHANGED <<q, q_last, q_depth, hand, delivered>>,
         \/ ev' = ev /\ sent' = sent
         \/ ev' = NULL /\ sent' = sent
         \/ ev = NULL /\ ev' = NULL /\ sent' = sent + 1
         \/ ev' = sent + 1 /\ sent' = sent + 1
  PROVE  DeliveryOrder' /\ Numbered'
<1>1. Occupied' = Occupied /\ InRing' = InRing /\ InHand' = InHand /\ Delivered' = Delivered
  BY DEF Occupied, InRing, InHand, Delivered, Slots
<1>2. \A i, j \in Occupied : Before(i, j)' <=> Before(i, j)
  BY DEF Before
<1>3. sent \in Nat /\ \A a \in Delivered \cup InHand \cup InRing : a \in Nat /\ a <= sent
  <2>1. sent \in Nat /\ Events \subseteq Nat
    BY BoundsAssumption DEF OrderInv, TypeInv, TypeOK, HistTypes, Events
  <2>2. Delivered \subseteq Events
    BY DEF OrderInv, TypeInv, TypeOK, HistTypes, Delivered
  <2>3. InHand \subseteq Events
    BY DEF OrderInv, TypeInv, TypeOK, ThreadTypes, InHand
  <2>4. InRing \subseteq Events
    BY DEF OrderInv, TypeInv, TypeOK, QueueTypes, InRing, Occupied
  <2> QED
    BY <2>1, <2>2, <2>3, <2>4 DEF OrderInv, Numbered
<1>4. WithMain' \in {WithMain, {}, {sent + 1} \ {NULL}}
  BY DEF WithMain
<1>5. \A a \in Delivered \cup InHand \cup InRing, b \in WithMain' : a < b
  BY <1>3, <1>4 DEF OrderInv, DeliveryOrder
<1>6. DeliveryOrder'
  BY <1>1, <1>2, <1>5 DEF OrderInv, DeliveryOrder
<1>7. Numbered'
  BY <1>1, <1>3 DEF OrderInv, Numbered, NULL
<1> QED
  BY <1>6, <1>7

(* A dequeue that returns NULL moves no event. *)
LEMMA DequeueOrder ==
  ASSUME FixedRing, OrderInv, NEW t \in Threads, Dequeue(t) \/ DequeueWoken(t)
  PROVE  DeliveryOrder' /\ Numbered'
<1>1. ev' = ev /\ delivered' = delivered /\ sent' = sent
  BY DEF Dequeue, DequeueWoken, mainVars, histVars
<1>2. CASE q_depth # 0 /\ GrabEvent(t)
  BY <1>1, <1>2, GrabOrder DEF Dequeue, DequeueWoken
<1>3. CASE UNCHANGED <<q, q_last, q_depth, hand>>
  BY <1>1, <1>3, FrameOrder
<1> QED
  BY <1>2, <1>3 DEF Dequeue, DequeueWoken, GrabNothing, queueVars

(* When destroy_queue resets q_depth the ring is empty; nothing else moves. *)
LEMMA DestroyOrder ==
  ASSUME OrderInv, NEW t \in Threads, ResetIndices(t)
  PROVE  DeliveryOrder' /\ Numbered'
<1>1. hand' = hand /\ delivered' = delivered /\ ev' = ev /\ sent' = sent /\ q_depth' = 0
  BY DEF ResetIndices, mainVars, histVars
<1>2. Occupied' = {} /\ InRing' = {}
  BY <1>1 DEF Occupied, InRing, Slots
<1>3. InHand' = InHand /\ Delivered' = Delivered /\ WithMain' = WithMain
  BY <1>1 DEF InHand, Delivered, WithMain
<1> QED
  BY <1>1, <1>2, <1>3 DEF OrderInv, DeliveryOrder, Numbered

(* Order of delivery is preserved by every action. *)
LEMMA StepOrder == FixedRing /\ OrderInv /\ Next => DeliveryOrder' /\ Numbered'
<1> SUFFICES ASSUME FixedRing /\ OrderInv, Next PROVE DeliveryOrder' /\ Numbered'
  OBVIOUS
<1>1. CASE DispatchEvent
  BY <1>1, FrameOrder DEF DispatchEvent, queueVars, OrderInv, TypeInv, Ownership
<1>2. CASE EnqueueCheckSuspended
  BY <1>2, FrameOrder DEF EnqueueCheckSuspended, queueVars
<1>3. CASE EnqueuePut
  BY <1>3, PutOrder
<1>4. CASE EnqueueOverflow
  BY <1>4, FrameOrder DEF EnqueueOverflow, queueVars
<1>5. CASE ReconfigureDead
  BY <1>5 DEF ReconfigureDead, OrderInv, Lifecycle
<1>6. ASSUME NEW t \in Threads, Dequeue(t) PROVE DeliveryOrder' /\ Numbered'
  BY <1>6, DequeueOrder
<1>7. ASSUME NEW t \in Threads, DequeueWoken(t) PROVE DeliveryOrder' /\ Numbered'
  BY <1>7, DequeueOrder
<1>8. ASSUME NEW t \in Threads, DeliverEvent(t) PROVE DeliveryOrder' /\ Numbered'
  BY <1>8, DeliverOrder
<1>9. ASSUME NEW t \in Threads, Reconfigure(t) PROVE DeliveryOrder' /\ Numbered'
  BY <1>9, ReconfigureKeepsRing, FrameOrder DEF Reconfigure, mainVars, histVars
<1>10. ASSUME NEW t \in Threads, ResetIndices(t) PROVE DeliveryOrder' /\ Numbered'
  BY <1>10, DestroyOrder
<1>11. CASE UNCHANGED <<q, q_last, q_depth, hand, delivered, ev, sent>>
  BY <1>11, FrameOrder
<1> QED
  BY NextCases, <1>1, <1>2, <1>3, <1>4, <1>5, <1>6, <1>7, <1>8, <1>9, <1>10, <1>11
  DEF EnqueueRetry, EnqueueCrash, Die, ReconfigureRunning, NudgeHup,
      ResumeQueue, Shutdown, LoopTop, CondWait, SpuriousWakeup,
      DequeueCrash, NullReturned, HupHandled, ClearPlugins,
      FreeSlot, FreeRing, ResetCounters, HeapFault,
      queueVars, mainVars, histVars

LEMMA StepOrderInv == FixedRing /\ OrderInv /\ [Next]_vars => OrderInv'
<1> SUFFICES ASSUME FixedRing, OrderInv, [Next]_vars PROVE OrderInv'
  OBVIOUS
<1>1. SafeInv' /\ TypeInv'
  BY StepSafeInv DEF OrderInv, SafeInv
<1>2. Lifecycle'
  BY StepLifeInv DEF LifeInv, OrderInv, FixedRing
<1>3. CASE Next
  BY <1>1, <1>2, <1>3, StepRingWindow, StepOrder DEF OrderInv
<1>4. CASE UNCHANGED vars
  <2> USE <1>4 DEF vars, queueVars, mainVars, histVars
  <2>1. RingWindow'
    BY DEF OrderInv, RingWindow, InWindow, Occupied, Slots
  <2>2. DeliveryOrder' /\ Numbered'
    BY FrameOrder
  <2> QED
    BY <1>1, <1>2, <2>1, <2>2 DEF OrderInv
<1> QED
  BY <1>3, <1>4

(* queue.c looks at one slot per call.  For every depth and any number of   *)
(* events, HUPs and spurious wake-ups this suffices: the occupied slots are *)
(* the window from q_last to q_next.                                        *)
THEOREM RingWindowHolds == ASSUME FixedRing PROVE Spec => []RingWindow
<1>1. Spec => []OrderInv
  BY InitOrderInv, StepOrderInv, PTL DEF Spec
<1>2. OrderInv => RingWindow
  BY DEF OrderInv
<1> QED
  BY <1>1, <1>2, PTL

(* Plugins get the events in dispatch order and none twice, for every ring  *)
(* depth, as long as the ring is not deepened or rebuilt.                   *)
THEOREM DeliveredInOrder == ASSUME FixedRing PROVE Spec => []DeliveryOrder
<1>1. Spec => []OrderInv
  BY InitOrderInv, StepOrderInv, PTL DEF Spec
<1>2. OrderInv => DeliveryOrder
  BY DEF OrderInv
<1> QED
  BY <1>1, <1>2, PTL

-----------------------------------------------------------------------------
(* The ring as a queue.                                                     *)

(* The slot k places after slot h. *)
LEMMA SlotAfter ==
  ASSUME NEW d \in Nat \ {0}, NEW h \in 0 .. d - 1, NEW k \in 1 .. d
  PROVE  /\ (h + k - 1) % d = IF h + k - 1 < d THEN h + k - 1 ELSE h + k - 1 - d
         /\ (h + k - 1) % d \in 0 .. d - 1
<1> DEFINE x == h + k - 1
<1>1. x \in Nat /\ x < 2 * d
  OBVIOUS
<1>2. x % d = IF x < d THEN x ELSE x - d
  BY <1>1
<1> QED
  BY <1>1, <1>2

(* How many slots the window from q_last to q_next has. *)
LEMMA WindowCount ==
  ASSUME FixedRing, OrderInv, q_depth # 0
  PROVE  /\ IsFiniteSet(Occupied) /\ Cardinality(Occupied) \in 0 .. q_depth
         /\ Cardinality(Occupied) =
              IF Occupied = {} THEN 0
              ELSE IF q_last < q_next THEN q_next - q_last ELSE q_depth - q_last + q_next
<1>1. q_depth \in Nat \ {0} /\ q_next \in 0 .. q_depth - 1 /\ q_last \in 0 .. q_depth - 1
  BY RingIndices DEF Slots
<1>2. CASE Occupied = {}
  BY <1>1, <1>2, FS_EmptySet
<1>3. CASE Occupied # {}
  <2>1. \A i \in Slots : i \in Occupied <=> InWindow(i)
    BY <1>3 DEF OrderInv, RingWindow, Occupied
  <2>2. CASE q_last < q_next
    <3>1. Occupied = q_last .. q_next - 1
      BY <1>1, <2>1, <2>2 DEF InWindow, Occupied, Slots
    <3>2. IsFiniteSet(q_last .. q_next - 1)
          /\ Cardinality(q_last .. q_next - 1) = IF q_last > q_next - 1 THEN 0 ELSE q_next - 1 - q_last + 1
      <4>1. q_last \in Int /\ q_next - 1 \in Int
        BY <1>1
      <4> QED
        BY <4>1, FS_Interval
    <3> QED
      BY <1>1, <1>3, <2>2, <3>1, <3>2
  <2>3. CASE ~(q_last < q_next)
    <3> DEFINE A == q_last .. q_depth - 1
               B == 0 .. q_next - 1
    <3>1. Occupied = A \cup B /\ A \cap B = {}
      BY <1>1, <2>1, <2>3 DEF InWindow, Occupied, Slots
    <3>2. IsFiniteSet(A) /\ Cardinality(A) = q_depth - q_last
      <4>1. q_last \in Int /\ q_depth - 1 \in Int
        BY <1>1
      <4>2. IsFiniteSet(A) /\ Cardinality(A) = IF q_last > q_depth - 1 THEN 0 ELSE q_depth - 1 - q_last + 1
        BY <4>1, FS_Interval
      <4> QED
        BY <1>1, <4>2
    <3>3. IsFiniteSet(B) /\ Cardinality(B) = q_next
      <4>1. 0 \in Int /\ q_next - 1 \in Int
        BY <1>1
      <4>2. IsFiniteSet(B) /\ Cardinality(B) = IF 0 > q_next - 1 THEN 0 ELSE q_next - 1 - 0 + 1
        BY <4>1, FS_Interval
      <4> QED
        BY <1>1, <4>2
    <3> HIDE DEF A, B
    <3>4. IsFiniteSet(Occupied) /\ Cardinality(Occupied) = (q_depth - q_last) + q_next
      BY <3>1, <3>2, <3>3, CountApart
    <3> QED
      BY <1>1, <1>3, <2>3, <3>4
  <2> QED
    BY <2>2, <2>3
<1> QED
  BY <1>2, <1>3

(* The ring contents are a sequence of events, those of the occupied slots. *)
ContentsOK ==
  /\ RingContents \in Seq(Events) /\ Len(RingContents) = Cardinality(Occupied)
  /\ \A k \in 1 .. Cardinality(Occupied) :
       /\ RingContents[k] = q[(q_last + k - 1) % q_depth]
       /\ (q_last + k - 1) % q_depth \in Occupied

(* They are, whenever there is a ring. *)
LEMMA ContentsType == FixedRing /\ OrderInv /\ q_depth # 0 => ContentsOK
<1> SUFFICES ASSUME FixedRing, OrderInv, q_depth # 0 PROVE ContentsOK
  OBVIOUS
<1> DEFINE n == Cardinality(Occupied)
<1>1. q_depth \in Nat \ {0} /\ q_next \in 0 .. q_depth - 1 /\ q_last \in 0 .. q_depth - 1
  BY RingIndices DEF Slots
<1>2. /\ IsFiniteSet(Occupied) /\ n \in 0 .. q_depth
      /\ n = IF Occupied = {} THEN 0 ELSE IF q_last < q_next THEN q_next - q_last ELSE q_depth - q_last + q_next
  BY WindowCount
<1>3. q \in [Slots -> Events \cup {NULL}]
  BY DEF OrderInv, TypeInv, TypeOK, QueueTypes
<1>4. \A i \in Slots : Occupied # {} => (i \in Occupied <=> InWindow(i))
  BY DEF OrderInv, RingWindow, Occupied
<1> HIDE DEF n
<1>5. ASSUME NEW k \in 1 .. n PROVE (q_last + k - 1) % q_depth \in Occupied
  <2> DEFINE s == (q_last + k - 1) % q_depth
  <2>1. k \in 1 .. q_depth /\ Occupied # {}
    BY <1>1, <1>2
  <2>2. s = (IF q_last + k - 1 < q_depth THEN q_last + k - 1 ELSE q_last + k - 1 - q_depth) /\ s \in 0 .. q_depth - 1
    BY <1>1, <2>1, SlotAfter
  <2> HIDE DEF s
  <2>3. s \in Slots /\ InWindow(s)
    BY <1>1, <1>2, <2>1, <2>2 DEF InWindow, Slots
  <2> QED
    BY <1>4, <2>1, <2>3 DEF s
<1>6. \A i \in Occupied : q[i] \in Events
  BY <1>3 DEF Occupied
<1>7. RingContents = [k \in 1 .. n |-> q[(q_last + k - 1) % q_depth]]
  BY DEF RingContents, n
<1>8. n \in Nat
  BY <1>1, <1>2
<1>9. RingContents \in Seq(Events) /\ Len(RingContents) = n
  BY <1>5, <1>6, <1>7, <1>8
<1> QED
  BY <1>5, <1>7, <1>9 DEF n, ContentsOK

(* With one depth the largest depth is the ring's. *)
LEMMA OneDepth ==
  ASSUME FixedRing, OrderInv, q_depth # 0
  PROVE  MaxDepth = q_depth
<1>1. q_depth \in Depths /\ q_depth \in Nat
  BY DepthsAssumption DEF OrderInv, TypeInv, TypeOK, QueueTypes
<1>2. \A e \in Depths : e <= q_depth
  BY <1>1 DEF FixedRing
<1>3. MaxDepth \in Depths
  BY <1>1, <1>2 DEF MaxDepth
<1> QED
  BY <1>1, <1>3 DEF FixedRing

(* enqueue appends behind everything queued. *)
LEMMA PutAppends ==
  ASSUME FixedRing, OrderInv, OrderInv', EnqueuePut
  PROVE  Fifo!Put
<1>0. q_depth # 0 /\ q_depth' = q_depth /\ q_last' = q_last /\ ev # NULL /\ ev \in Events
  BY DEF EnqueuePut, OrderInv, TypeInv, TypeOK, ThreadTypes, Ownership
<1>1. q_depth \in Nat \ {0} /\ q_next \in 0 .. q_depth - 1 /\ q_last \in 0 .. q_depth - 1
  BY <1>0, RingIndices DEF Slots
<1>2. /\ q' = [q EXCEPT ![q_next] = ev] /\ q[q_next] = NULL /\ q \in [Slots -> Events \cup {NULL}]
  BY <1>0, RingIndices DEF EnqueuePut, OrderInv, TypeInv, TypeOK, QueueTypes
<1> DEFINE n == Cardinality(Occupied)
<1>3. /\ IsFiniteSet(Occupied) /\ n \in 0 .. q_depth
      /\ n = IF Occupied = {} THEN 0 ELSE IF q_last < q_next THEN q_next - q_last ELSE q_depth - q_last + q_next
  BY <1>0, WindowCount
<1>4. Occupied' = Occupied \cup {q_next} /\ q_next \notin Occupied
  BY <1>0, <1>1, <1>2 DEF Occupied, Slots
<1>5. Cardinality(Occupied') = n + 1
  BY <1>3, <1>4, FS_AddElement
<1>6. Occupied # {} => q_last # q_next
  BY <1>1, <1>4 DEF OrderInv, RingWindow, InWindow, Occupied, Slots
<1>7. Occupied = {} => q_last = q_next
  BY <1>1, <1>2 DEF OrderInv, RingWindow, InWindow, Occupied, Slots
<1>8. /\ RingContents \in Seq(Events) /\ Len(RingContents) = n
      /\ \A k \in 1 .. n : RingContents[k] = q[(q_last + k - 1) % q_depth] /\ (q_last + k - 1) % q_depth \in Occupied
  BY <1>0, ContentsType DEF ContentsOK
<1>9. RingContents' = [k \in 1 .. n + 1 |-> q'[(q_last + k - 1) % q_depth]]
  BY <1>0, <1>5 DEF RingContents
<1> HIDE DEF n
<1>10. n < q_depth /\ (q_last + (n + 1) - 1) % q_depth = q_next
  <2>1. n < q_depth
    BY <1>1, <1>3, <1>6
  <2>2. n + 1 \in 1 .. q_depth
    BY <1>1, <1>3, <2>1
  <2>3. (q_last + (n + 1) - 1) % q_depth = IF q_last + (n + 1) - 1 < q_depth THEN q_last + (n + 1) - 1 ELSE q_last + (n + 1) - 1 - q_depth
    BY <1>1, <2>2, SlotAfter
  <2> QED
    BY <1>1, <1>3, <1>6, <1>7, <2>1, <2>3
<1>11. ASSUME NEW k \in 1 .. n PROVE q'[(q_last + k - 1) % q_depth] = RingContents[k]
  <2>1. (q_last + k - 1) % q_depth \in Occupied /\ RingContents[k] = q[(q_last + k - 1) % q_depth]
    BY <1>8
  <2>2. \A i \in Occupied : q'[i] = q[i]
    BY <1>2, <1>4 DEF Occupied
  <2> QED
    BY <2>1, <2>2
<1>12. q'[q_next] = ev
  BY <1>1, <1>2 DEF Slots
<1>13. n \in Nat
  BY <1>1, <1>3
<1>14. RingContents' = Append(RingContents, ev)
  <2>1. \A k \in 1 .. n + 1 : k \in 1 .. n \/ k = n + 1
    BY <1>13
  <2>2. \A k \in 1 .. n + 1 : RingContents'[k] = IF k \in 1 .. n THEN RingContents[k] ELSE ev
    BY <1>9, <1>10, <1>11, <1>12, <1>13, <2>1
  <2>3. /\ Append(RingContents, ev) \in Seq(Events) /\ Len(Append(RingContents, ev)) = n + 1
        /\ \A k \in 1 .. n + 1 : Append(RingContents, ev)[k] = IF k \in 1 .. n THEN RingContents[k] ELSE ev
    BY <1>0, <1>8, <1>13, <2>1
  <2>4. RingContents' \in Seq(Events) /\ Len(RingContents') = n + 1
    <3>1. \A k \in 1 .. n + 1 : RingContents'[k] \in Events
      BY <1>0, <1>8, <1>13, <2>2
    <3> QED
      BY <1>9, <1>13, <3>1
  <2> QED
    BY <2>2, <2>3, <2>4, SeqEqual
<1>15. Len(RingContents) < MaxDepth
  BY <1>0, <1>8, <1>10, OneDepth
<1> QED
  BY <1>0, <1>14, <1>15 DEF Fifo!Put

(* dequeue takes the oldest. *)
LEMMA GrabTakes ==
  ASSUME FixedRing, OrderInv, OrderInv', NEW t \in Threads, q_depth # 0, GrabEvent(t)
  PROVE  Fifo!Take
<1>1. /\ q' = [q EXCEPT ![q_last] = NULL] /\ q[q_last] # NULL
      /\ q_last' = IF q_last + 1 = q_depth THEN 0 ELSE q_last + 1
      /\ q \in [Slots -> Events \cup {NULL}] /\ q_depth' = q_depth
  BY RingIndices DEF GrabEvent, OrderInv, TypeInv, TypeOK, QueueTypes
<1>2. q_depth \in Nat \ {0} /\ q_next \in 0 .. q_depth - 1 /\ q_last \in 0 .. q_depth - 1
  BY RingIndices DEF Slots
<1> DEFINE n == Cardinality(Occupied)
<1>3. Occupied' = Occupied \ {q_last} /\ q_last \in Occupied
  BY <1>1, <1>2 DEF Occupied, Slots
<1>4. IsFiniteSet(Occupied) /\ n \in 0 .. q_depth
  BY WindowCount
<1>5. Cardinality(Occupied') = n - 1 /\ n # 0
  BY <1>3, <1>4, FS_RemoveElement, FS_EmptySet
<1>6. n \in 1 .. q_depth
  BY <1>2, <1>4, <1>5
<1>7. /\ RingContents \in Seq(Events) /\ Len(RingContents) = n
      /\ \A k \in 1 .. n : RingContents[k] = q[(q_last + k - 1) % q_depth]
  BY ContentsType DEF ContentsOK
<1>8. /\ RingContents' \in Seq(Events) /\ Len(RingContents') = n - 1
      /\ \A k \in 1 .. n - 1 : /\ RingContents'[k] = q'[(q_last' + k - 1) % q_depth]
                               /\ (q_last' + k - 1) % q_depth \in Occupied'
  <2>1. (q_depth # 0)'
    BY <1>1
  <2>2. /\ RingContents' \in Seq(Events) /\ Len(RingContents') = Cardinality(Occupied')
        /\ \A k \in 1 .. Cardinality(Occupied') : /\ RingContents'[k] = q'[(q_last' + k - 1) % q_depth']
                                                  /\ (q_last' + k - 1) % q_depth' \in Occupied'
    <3>1. FixedRing'
      BY DEF FixedRing
    <3>2. ContentsOK'
      BY <2>1, <3>1, ContentsType, PTL
    <3> QED
      BY <3>2 DEF ContentsOK
  <2> QED
    BY <1>1, <1>5, <2>2
<1> HIDE DEF n
<1>9. ASSUME NEW k \in 1 .. n - 1 PROVE RingContents'[k] = Tail(RingContents)[k]
  <2>1. k \in 1 .. q_depth /\ k + 1 \in 1 .. q_depth /\ k + 1 \in 1 .. n
    BY <1>2, <1>6
  <2>2. (q_last + (k + 1) - 1) % q_depth = IF q_last + (k + 1) - 1 < q_depth THEN q_last + (k + 1) - 1 ELSE q_last + (k + 1) - 1 - q_depth
    BY <1>2, <2>1, SlotAfter
  <2>3. q_last' \in 0 .. q_depth - 1
    BY <1>1, <1>2
  <2>4. (q_last' + k - 1) % q_depth = IF q_last' + k - 1 < q_depth THEN q_last' + k - 1 ELSE q_last' + k - 1 - q_depth
    BY <1>2, <2>1, <2>3, SlotAfter
  <2>5. (q_last' + k - 1) % q_depth = (q_last + (k + 1) - 1) % q_depth
    BY <1>1, <1>2, <2>1, <2>2, <2>4
  <2>6. \A i \in Occupied' : q'[i] = q[i]
    BY <1>1, <1>3 DEF Occupied
  <2>7. Tail(RingContents)[k] = RingContents[k + 1]
    BY <1>6, <1>7, <2>1
  <2> QED
    BY <1>7, <1>8, <2>1, <2>5, <2>6, <2>7
<1>10. Tail(RingContents) \in Seq(Events) /\ Len(Tail(RingContents)) = n - 1 /\ RingContents # << >>
  BY <1>6, <1>7
<1>11. RingContents' = Tail(RingContents)
  BY <1>8, <1>9, <1>10, SeqEqual
<1> QED
  BY <1>10, <1>11 DEF Fifo!Take

(* Every other step leaves the contents or frees them all. *)
LEMMA OthersKeepContents ==
  ASSUME FixedRing, OrderInv, OrderInv', Next
  PROVE  [Fifo!Next]_RingContents
<1>1. CASE EnqueuePut
  BY <1>1, PutAppends DEF Fifo!Next
<1>2. CASE ReconfigureDead
  BY <1>2 DEF ReconfigureDead, OrderInv, Lifecycle
<1>3. CASE UNCHANGED <<q, q_last, q_depth>>
  BY <1>3 DEF RingContents, Occupied, Slots
<1>4. ASSUME NEW t \in Threads, Dequeue(t) \/ DequeueWoken(t) PROVE [Fifo!Next]_RingContents
  <2>1. CASE q_depth # 0 /\ GrabEvent(t)
    BY <2>1, GrabTakes DEF Fifo!Next
  <2>2. CASE UNCHANGED <<q, q_last, q_depth>>
    BY <2>2, <1>3
  <2> QED
    BY <1>4, <2>1, <2>2 DEF Dequeue, DequeueWoken, GrabNothing, queueVars
<1>5. ASSUME NEW t \in Threads, Reconfigure(t) PROVE [Fifo!Next]_RingContents
  BY <1>3, <1>5, ReconfigureKeepsRing DEF Reconfigure
<1>6. ASSUME NEW t \in Threads, ResetIndices(t) PROVE [Fifo!Next]_RingContents
  <2>1. Occupied' = {}
    BY <1>6 DEF ResetIndices, Occupied, Slots
  <2>2. Cardinality(Occupied') = 0
    BY <2>1, FS_EmptySet
  <2>3. RingContents' = << >>
    BY <2>2 DEF RingContents
  <2> QED
    BY <2>3 DEF Fifo!Next, Fifo!Clear
<1> QED
  BY NextCases, <1>1, <1>2, <1>3, <1>4, <1>5, <1>6
  DEF DispatchEvent, EnqueueCheckSuspended, EnqueueRetry,
      EnqueueOverflow, EnqueueCrash, Die, ReconfigureRunning, NudgeHup,
      ResumeQueue, Shutdown, LoopTop, CondWait, SpuriousWakeup,
      DequeueCrash, NullReturned, DeliverEvent, HupHandled,
      ClearPlugins, FreeSlot, FreeRing, ResetCounters, HeapFault, queueVars

(* The ring of queue.c is a bounded FIFO queue as long as it keeps its depth: each step of *)
(* the main thread and of the outbound thread is a Put, a Take or a Clear of its contents, *)
(* or leaves them alone, although enqueue and dequeue test a single slot each.             *)
THEOREM RingIsFifo == ASSUME FixedRing PROVE Spec => ImplementsFifo
<1>1. Init => Fifo!Init
  <2> SUFFICES ASSUME Init PROVE RingContents = << >>
    BY DEF Fifo!Init
  <2>1. Occupied = {}
    BY DEF Init, Occupied, EmptyRing, Slots
  <2>2. Cardinality(Occupied) = 0
    BY <2>1, FS_EmptySet
  <2> QED
    BY <2>2 DEF RingContents
<1>2. OrderInv /\ OrderInv' /\ [Next]_vars => [Fifo!Next]_RingContents
  <2> SUFFICES ASSUME OrderInv, OrderInv', [Next]_vars PROVE [Fifo!Next]_RingContents
    OBVIOUS
  <2>1. CASE Next
    BY <2>1, OthersKeepContents
  <2>2. CASE UNCHANGED vars
    BY <2>2 DEF vars, queueVars, RingContents, Occupied, Slots
  <2> QED
    BY <2>1, <2>2
<1>3. Spec => []OrderInv
  BY InitOrderInv, StepOrderInv, PTL DEF Spec
<1> QED
  BY <1>1, <1>2, <1>3, PTL DEF Spec, ImplementsFifo, Fifo!Spec

=============================================================================
