------------------------- MODULE RemoteQueueProofs -------------------------
(***************************************************************************)
(* Proofs about RemoteQueue for every value of its constants.              *)
(***************************************************************************)
EXTENDS RemoteQueue, SequenceTheorems, TLAPS

(* The program counters at which struct queue describes the open file. *)
Running == pc \in {"idle", "append", "drop"}

(* How far slot s lies behind the head h of a queue of n slots, and whether *)
(* it is one of the len slots in use: the remainders of the code undone.    *)
Offset(s, h, n) == IF s >= h THEN s - h ELSE s - h + n
InWindow(s, h, len, n) == s \in 0 .. n - 1 /\ Offset(s, h, n) < len

(* The slots in use: for a restart, the ones of the header; for the running *)
(* process, the ones of struct queue.                                       *)
InHeader(s) == InWindow(s, file.head, file.length, file.num)
InQueue(s) == InWindow(s, head, length, num)

(* A header that was written describes a window of the file. *)
HeaderOK(f) ==
  /\ f.num \in Depths
  /\ f.head < f.num
  /\ f.length <= f.num

(* What is known of the file, and of struct queue once it has a depth. *)
HeaderInv ==
  /\ file.state \in {"none", "empty"} => file.num = 0
  /\ file.state \in {"header", "ready"} => HeaderOK(file)
  /\ pc # "down" => num \in Depths /\ head < num /\ length <= num

(* How far q_open has come, and what struct queue holds there. *)
OpenInv ==
  /\ pc \in {"create", "allocate", "check"} =>
       memory = NoEntries /\ num = depth /\ head = 0 /\ length = 0
  /\ pc = "create" => file.state = "empty"
  /\ pc = "allocate" => file.state = "header" /\ file.num = num /\ file.head = 0 /\ file.length = 0
  /\ pc = "check" => file.state \in {"header", "ready"}
  /\ pc \in {"resize", "rename"} \/ Running => file.state = "ready"
  /\ Running => num = depth /\ file.num = num
  /\ pc \in {"append", "drop"} => length > 0
  /\ pc = "append" => read > 0

(* What a resize has copied, and from where. *)
ResizeInv ==
  /\ pc = "resize" =>
       num = file.num /\ head = file.head /\ length = file.length /\ length <= depth
  /\ pc = "rename" =>
       /\ tmp.state = "ready" /\ tmp.num = num /\ tmp.head = 0 /\ tmp.length = length
       /\ num = depth /\ head = 0 /\ length = file.length
       /\ memory = tmp.entry
       /\ \A k \in 0 .. length - 1 : tmp.entry[k] = file.entry[(file.head + k) % file.num]
       /\ \A k \in Slots : k >= length => tmp.entry[k] = NULL

(* No slot in use is empty. *)
NoEmptySlot ==
  /\ file.state = "ready" => \A s \in Slots : InHeader(s) => file.entry[s] # NULL
  /\ Running => \A s \in Slots : InQueue(s) => file.entry[s] # NULL

TypeInv == TypeOK /\ HeaderInv /\ OpenInv /\ ResizeInv /\ NoEmptySlot

(* A copy in memory is the entry of the file. *)
CopyInv == Running => \A s \in Slots : memory[s] \in {NULL, file.entry[s]}

(* No copy is kept of a slot that is not in use: q_append never finds its slot taken. *)
SpareInv == Running => \A s \in Slots : ~InQueue(s) => memory[s] = NULL

(* An accepted event not yet relayed lies in a slot that the header and, in *)
(* a running process, struct queue know.                                    *)
Kept ==
  \A e \in accepted \ sent :
    /\ file.state = "ready"
    /\ \E s \in Slots : file.entry[s] = e /\ InHeader(s) /\ (Running => InQueue(s))

(* What is known of the entry being appended and of the one being dropped. *)
StepInv ==
  /\ pc = "append" => file.entry[(head + length - 1) % num] = read
  /\ pc = "drop" => file.entry[head] = last /\ last \in sent

LossInv == CopyInv /\ SpareInv /\ Kept /\ StepInv

(* Entries increase from the head of a window on. *)
Ordered(f, h, len, n) ==
  \A s, t \in Slots :
    InWindow(s, h, len, n) /\ InWindow(t, h, len, n) /\ Offset(s, h, n) < Offset(t, h, n) =>
      f.entry[s] < f.entry[t]

(* A failed access stops the plugin, if there are any. *)
Trusted == IOFails => StopOnError

(* The order of the file, while a failed access stops the plugin: the head *)
(* of the header is behind only once nothing is appended any more.         *)
OrderInv ==
  /\ \A s \in Slots : file.entry[s] <= read
  /\ file.state = "ready" => Ordered(file, file.head, file.length, file.num)
  /\ Running => Ordered(file, head, length, num)
  /\ Running /\ stop # "flush" =>
       file.head = head /\ file.length <= (IF pc = "append" THEN length - 1 ELSE length)

(* On a healthy disk the header is behind only while an entry is appended, *)
(* and what is queued is no older than what was relayed.                   *)
HealthyInv ==
  /\ stop = "run"
  /\ Running => file.head = head /\ file.length = (IF pc = "append" THEN length - 1 ELSE length)
  /\ last <= read
  /\ file.state = "ready" => \A s \in Slots : InHeader(s) => last <= file.entry[s]

Inv ==
  /\ TypeInv /\ LossInv
  /\ Trusted => OrderInv
  /\ ~IOFails => HealthyInv
-----------------------------------------------------------------------------
(* Arithmetic of the ring                                                  *)

(* The deepest queue is one of the depths. *)
LEMMA MaxDepthIsDepth ==
  /\ MaxDepth \in Depths /\ MaxDepth \in Nat \ {0}
  /\ \A n \in Depths : n \in Nat \ {0} /\ n <= MaxDepth
<1>1. \E m \in Depths : \A n \in Depths : n <= m
  BY DepthsAssumption
<1>2. MaxDepth \in Depths /\ \A n \in Depths : n <= MaxDepth
  BY <1>1 DEF MaxDepth
<1> QED
  BY <1>2, DepthsAssumption

(* The slot k places behind the head. *)
LEMMA SlotOf ==
  ASSUME NEW n \in Nat \ {0}, NEW h \in 0 .. n - 1, NEW k \in 0 .. n - 1
  PROVE  /\ (h + k) % n \in 0 .. n - 1
         /\ (h + k) % n = IF h + k < n THEN h + k ELSE h + k - n
         /\ Offset((h + k) % n, h, n) = k
<1>1. (h + k) % n = IF h + k < n THEN h + k ELSE h + k - n
  OBVIOUS
<1> QED
  BY <1>1 DEF Offset

(* Every slot is at its offset. *)
LEMMA OffsetOf ==
  ASSUME NEW n \in Nat \ {0}, NEW h \in 0 .. n - 1, NEW s \in 0 .. n - 1
  PROVE  /\ Offset(s, h, n) \in 0 .. n - 1
         /\ (h + Offset(s, h, n)) % n = s
<1>1. Offset(s, h, n) \in 0 .. n - 1
  BY DEF Offset
<1>2. (h + Offset(s, h, n)) % n =
         IF h + Offset(s, h, n) < n THEN h + Offset(s, h, n) ELSE h + Offset(s, h, n) - n
  BY <1>1, SlotOf
<1> QED
  BY <1>1, <1>2 DEF Offset

(* An offset is a number. *)
LEMMA OffsetType ==
  ASSUME NEW s \in Slots, NEW h \in Nat, NEW n \in Nat
  PROVE  Offset(s, h, n) \in Int
  BY MaxDepthIsDepth DEF Offset, Slots

(* The bounds are numbers. *)
LEMMA Bounds == MaxEvents \in Nat /\ MaxCrashes \in Nat
  BY Zenon, BoundsAssumption

-----------------------------------------------------------------------------
(* Type correctness                                                        *)

(* No file has the type of a file. *)
LEMMA NoFileType == NoFile \in File /\ NoEntries \in [Slots -> 0 .. MaxEvents]
<1>1. 0 \in Slots /\ 0 \in 0 .. MaxDepth /\ 0 \in 0 .. MaxEvents
  BY MaxDepthIsDepth, Bounds DEF Slots
<1> QED
  BY <1>1 DEF NoFile, File, NoEntries, NULL

(* Before the first start there is no file. *)
LEMMA InitTypeInv == Init => TypeInv
<1> SUFFICES ASSUME Init PROVE TypeInv
  OBVIOUS
<1>1. 0 \in Slots /\ 0 \in 0 .. MaxDepth /\ 0 \in 0 .. MaxEvents
  BY MaxDepthIsDepth, Bounds DEF Slots
<1>2. NoFile \in File
  BY NoFileType
<1>3. FileTypes /\ QueueTypes /\ ControlTypes /\ HistTypes
  BY <1>1, <1>2, Bounds
  DEF Init, FileTypes, QueueTypes, ControlTypes, HistTypes, NoEntries, NULL
<1>4. HeaderInv /\ OpenInv /\ ResizeInv /\ NoEmptySlot
  BY DEF Init, HeaderInv, OpenInv, ResizeInv, NoEmptySlot, NoFile, Running
<1> QED
  BY <1>3, <1>4 DEF TypeInv, TypeOK

(* What the types say of the file and of the queue, field by field. *)
LEMMA Fields ==
  ASSUME TypeInv
  PROVE  /\ file = [state |-> file.state, num |-> file.num, head |-> file.head,
                    length |-> file.length, entry |-> file.entry]
         /\ file.num \in Nat /\ file.head \in Nat /\ file.length \in Nat
         /\ file.entry \in [Slots -> 0 .. MaxEvents]
         /\ num \in Nat /\ head \in Nat /\ length \in Nat /\ depth \in Nat \ {0}
         /\ memory \in [Slots -> 0 .. MaxEvents]
         /\ read \in Nat /\ MaxEvents \in Nat
<1>1. file \in File /\ depth \in Depths
  BY DEF TypeInv, TypeOK, FileTypes, QueueTypes
<1>2. /\ file = [state |-> file.state, num |-> file.num, head |-> file.head,
                 length |-> file.length, entry |-> file.entry]
      /\ file.entry \in [Slots -> 0 .. MaxEvents]
  BY <1>1 DEF File
<1>3. file.num \in Depths \cup {0} /\ file.head \in Slots /\ file.length \in 0 .. MaxDepth
  BY <1>1 DEF File
<1>4. Depths \cup {0} \subseteq Nat /\ Slots \subseteq Nat /\ 0 .. MaxDepth \subseteq Nat
  BY MaxDepthIsDepth DEF Slots
<1>5. num \in Nat /\ head \in Nat /\ length \in Nat
  BY MaxDepthIsDepth DEF TypeInv, TypeOK, QueueTypes, Slots
<1>6. /\ memory \in [Slots -> 0 .. MaxEvents]
      /\ read \in Nat /\ MaxEvents \in Nat /\ depth \in Nat \ {0}
  BY <1>1, MaxDepthIsDepth, Bounds DEF TypeInv, TypeOK, QueueTypes, ControlTypes
<1> QED
  BY <1>2, <1>3, <1>4, <1>5, <1>6

(* The slot the next entry goes to. *)
LEMMA AppendSlot ==
  ASSUME TypeInv, pc # "down", length < num
  PROVE  /\ (head + length) % num \in Slots /\ (head + length) % num \in 0 .. num - 1
         /\ Offset((head + length) % num, head, num) = length
<1>1. num \in Depths /\ num \in Nat \ {0} /\ head \in 0 .. num - 1 /\ length \in 0 .. num - 1
  BY Fields, MaxDepthIsDepth DEF TypeInv, HeaderInv
<1>2. num <= MaxDepth
  BY <1>1, MaxDepthIsDepth
<1> QED
  BY <1>1, <1>2, SlotOf, MaxDepthIsDepth DEF Slots

(* The slots of a depth. *)
LEMMA SlotsOfDepth ==
  ASSUME NEW n \in Depths
  PROVE  n \in Nat \ {0} /\ 0 .. n - 1 \subseteq Slots /\ 0 .. n \subseteq 0 .. MaxDepth
  BY MaxDepthIsDepth DEF Slots

(* The head and the slots behind it exist, in struct queue and in the header. *)
LEMMA RingTypes ==
  ASSUME TypeInv
  PROVE  /\ pc # "down" =>
              /\ num \in Depths /\ num \in Nat \ {0}
              /\ head \in 0 .. num - 1 /\ length \in 0 .. num
         /\ file.state \in {"header", "ready"} =>
              /\ file.num \in Depths /\ file.num \in Nat \ {0}
              /\ file.head \in 0 .. file.num - 1 /\ file.length \in 0 .. file.num
  BY Fields, MaxDepthIsDepth DEF TypeInv, HeaderInv, HeaderOK

(* Where q_drop_head moves the head. *)
LEMMA NextHeadType ==
  ASSUME TypeInv, pc # "down"
  PROVE  NextHead \in 0 .. num - 1 /\ NextHead \in Slots
  BY RingTypes, SlotsOfDepth DEF NextHead

(* The files stay well formed. *)
LEMMA StepFileTypes == TypeInv /\ [Next]_vars => FileTypes'
<1> SUFFICES ASSUME TypeInv, [Next]_vars PROVE FileTypes'
  OBVIOUS
<1> USE DEF FileTypes
<1>0. file \in File /\ tmp \in File
  BY DEF TypeInv, TypeOK
<1> USE <1>0, NoFileType
<1>1. CASE Open
  BY <1>1 DEF Open, File
<1>2. CASE WriteHeader
  BY <1>2, RingTypes, SlotsOfDepth, Bounds DEF WriteHeader, OpenFails, NewHeader, NoEntries, NULL, File
<1>3. CASE Allocate
  BY <1>3 DEF Allocate, OpenFails, File
<1>4. CASE ResizeCopy
  <2>1. ASSUME NEW k \in Slots, k < length PROVE (head + k) % num \in Slots
    <3>1. num \in Depths /\ num \in Nat \ {0} /\ head \in 0 .. num - 1 /\ k \in 0 .. num - 1
      BY <1>4, <2>1, RingTypes DEF ResizeCopy, Slots
    <3>2. (head + k) % num \in 0 .. num - 1
      BY <3>1, SlotOf
    <3> QED
      BY <3>1, <3>2, SlotsOfDepth
  <2>2. CopyEntries \in [Slots -> 0 .. MaxEvents]
    BY <2>1, Fields, Bounds DEF CopyEntries, NULL
  <2>3. 0 \in Slots
    BY MaxDepthIsDepth DEF Slots
  <2> QED
    BY <1>4, <2>2, <2>3 DEF ResizeCopy, File, TypeInv, TypeOK, QueueTypes
<1>5. CASE ResizeRename
  BY <1>5 DEF ResizeRename, CloseFound, TypeInv, TypeOK
<1>6. CASE AppendEntry
  <2>1. (head + length) % num \in Slots /\ read + 1 \in 0 .. MaxEvents
    BY <1>6, AppendSlot, Fields DEF AppendEntry
  <2> QED
    BY <1>6, <2>1, Fields DEF AppendEntry, File
<1>7. CASE AppendSync
  BY <1>7, Fields DEF AppendSync, HeaderWritten, queueVars, File, TypeInv, TypeOK, QueueTypes
<1>8. CASE DropHead
  <2>1. head' \in Slots /\ length' \in 0 .. MaxDepth
    BY <1>8, NextHeadType, RingTypes, SlotsOfDepth DEF DropHead, TypeInv, OpenInv
  <2> QED
    BY <1>8, <2>1, Fields DEF DropHead, HeaderWritten, File
<1>9. CASE UNCHANGED <<file, tmp>>
  BY <1>9 DEF TypeInv, TypeOK
<1> QED
  BY <1>1, <1>2, <1>3, <1>4, <1>5, <1>6, <1>7, <1>8, <1>9 DEF Next, vars, CheckFile,
    ResizeOverrun, ResizeFails, CloseFound, AppendFull, Send, PeekFails, Exit, OpenFails

(* struct queue and the copies stay within the deepest queue. *)
LEMMA StepQueueTypes == TypeInv /\ [Next]_vars => QueueTypes'
<1> SUFFICES ASSUME TypeInv, [Next]_vars PROVE QueueTypes'
  OBVIOUS
<1> USE DEF QueueTypes, TypeInv, TypeOK
<1>1. CASE Open
  BY <1>1, MaxDepthIsDepth, NoFileType DEF Open, Slots
<1>2. CASE CheckFile
  BY <1>2, RingTypes, SlotsOfDepth DEF CheckFile, CloseFound, OpenFails, queueVars
<1>3. CASE ResizeCopy
  BY <1>3, StepFileTypes, MaxDepthIsDepth DEF ResizeCopy, FileTypes, File, Slots
<1>4. CASE AppendEntry
  <2>1. (head + length) % num \in Slots /\ read + 1 \in 0 .. MaxEvents
    BY <1>4, AppendSlot, Fields DEF AppendEntry
  <2>2. length < num => length + 1 \in 0 .. MaxDepth
    BY <1>4, RingTypes, SlotsOfDepth DEF AppendEntry
  <2> QED
    BY <1>4, <2>1, <2>2, Fields DEF AppendEntry
<1>5. CASE Send
  BY <1>5, RingTypes, SlotsOfDepth, Fields DEF Send
<1>6. CASE DropHead
  <2>1. head' \in Slots /\ length' \in 0 .. MaxDepth
    BY <1>6, NextHeadType, RingTypes, SlotsOfDepth DEF DropHead, TypeInv, OpenInv
  <2> QED
    BY <1>6, <2>1, Bounds DEF DropHead, NULL
<1>7. CASE UNCHANGED <<depth, queueVars>>
  BY <1>7 DEF queueVars
<1> QED
  BY <1>1, <1>2, <1>3, <1>4, <1>5, <1>6, <1>7 DEF Next, vars, WriteHeader, Allocate,
    ResizeOverrun, ResizeFails, CloseFound, ResizeRename, AppendFull, AppendSync, PeekFails, Exit, OpenFails,
    queueVars

(* Program counters, events read and the end of the process stay within bounds. *)
LEMMA StepControlTypes == TypeInv /\ [Next]_vars => ControlTypes'
<1> SUFFICES ASSUME TypeInv, [Next]_vars PROVE ControlTypes'
  OBVIOUS
<1> USE DEF ControlTypes, TypeInv, TypeOK
<1>1. CASE AppendFull
  BY <1>1, Fields DEF AppendFull
<1>2. CASE AppendEntry
  BY <1>2, Fields DEF AppendEntry, QueueError
<1>3. CASE AppendSync
  BY <1>3 DEF AppendSync, QueueError
<1>4. CASE Send
  BY <1>4 DEF Send, Draining
<1>5. CASE PeekFails
  BY <1>5 DEF PeekFails, SendError
<1>6. CASE DropHead
  BY <1>6 DEF DropHead, SendError
<1>7. CASE Exit
  BY <1>7, Bounds DEF Exit
<1> QED
  BY <1>1, <1>2, <1>3, <1>4, <1>5, <1>6, <1>7 DEF Next, vars, Open, WriteHeader,
    Allocate, CheckFile, ResizeCopy, ResizeOverrun, ResizeFails, CloseFound, ResizeRename, OpenFails

(* What is accepted and relayed are events, never an empty slot. *)
LEMMA StepHistTypes == TypeInv /\ [Next]_vars => HistTypes'
<1> SUFFICES ASSUME TypeInv, [Next]_vars PROVE HistTypes'
  OBVIOUS
<1> USE DEF HistTypes, TypeInv, TypeOK
<1>1. CASE AppendSync
  BY <1>1, Fields DEF AppendSync, OpenInv, ControlTypes
<1>2. CASE Send
  <2>1. head \in Slots /\ head \in 0 .. num - 1 /\ num \in Nat \ {0} /\ length \in Nat
    BY <1>2, RingTypes, SlotsOfDepth DEF Send
  <2>2. InQueue(head)
    BY <1>2, <2>1 DEF Send, InQueue, InWindow, Offset
  <2>3. file.entry[head] \in 1 .. MaxEvents
    BY <1>2, <2>1, <2>2, Fields DEF Send, NoEmptySlot, Running, NULL
  <2>4. last' \in 1 .. MaxEvents /\ sent' = sent \cup {last'} /\ accepted' = accepted
    BY <1>2, <2>1, <2>3, Fields DEF Send, NULL
  <2> QED
    BY <2>4
<1>3. CASE UNCHANGED history
  BY <1>3 DEF history
<1> QED
  BY <1>1, <1>2, <1>3 DEF Next, vars, Open, WriteHeader, Allocate, CheckFile, ResizeCopy,
    ResizeOverrun, ResizeFails, CloseFound, ResizeRename, AppendFull, AppendEntry, PeekFails, DropHead, Exit,
    OpenFails, history

(* Headers and struct queue always describe a window of their file. *)
LEMMA StepHeaderInv == TypeInv /\ [Next]_vars => HeaderInv'
<1> SUFFICES ASSUME TypeInv, [Next]_vars PROVE HeaderInv'
  OBVIOUS
<1> USE DEF HeaderInv, HeaderOK, TypeInv, TypeOK
<1>1. CASE Open
  BY <1>1, MaxDepthIsDepth, Fields DEF Open
<1>2. CASE WriteHeader
  BY <1>2, Fields, MaxDepthIsDepth DEF WriteHeader, OpenFails, NewHeader, OpenInv, queueVars
<1>3. CASE Allocate
  BY <1>3, Fields DEF Allocate, OpenFails, OpenInv, queueVars
<1>4. CASE CheckFile
  BY <1>4 DEF CheckFile, CloseFound, OpenFails, queueVars
<1>5. CASE ResizeCopy
  BY <1>5, Fields, MaxDepthIsDepth DEF ResizeCopy, ResizeInv, QueueTypes
<1>6. CASE ResizeRename
  BY <1>6, Fields DEF ResizeRename, CloseFound, ResizeInv, queueVars, OpenInv
<1>7. CASE AppendEntry
  BY <1>7, Fields, RingTypes DEF AppendEntry, OpenInv, Running
<1>8. CASE AppendSync
  BY <1>8, Fields DEF AppendSync, HeaderWritten, OpenInv, Running, queueVars
<1>9. CASE Send
  BY <1>9 DEF Send, OpenInv
<1>10. CASE DropHead
  <2>1. /\ num' = num /\ head' \in 0 .. num - 1 /\ length' \in 0 .. num /\ num \in Depths
        /\ file.num = num /\ file.state = "ready" /\ pc' = "idle" /\ depth' = depth
    BY <1>10, RingTypes, NextHeadType DEF DropHead, OpenInv, Running
  <2>2. /\ file'.num = file.num /\ file'.state = file.state
        /\ \/ file'.head = head' /\ file'.length = length'
           \/ file'.head = file.head /\ file'.length = file.length
    BY <1>10, Fields DEF DropHead, HeaderWritten
  <2>3. HeaderOK(file') /\ head' < num' /\ length' <= num'
    BY <2>1, <2>2, RingTypes
  <2> QED
    BY <2>1, <2>2, <2>3
<1>11. CASE UNCHANGED <<file, queueVars, depth>> /\ (pc # "down" \/ pc' = "down")
  BY <1>11 DEF queueVars
<1> QED
  BY <1>1, <1>2, <1>3, <1>4, <1>5, <1>6, <1>7, <1>8, <1>9, <1>10, <1>11 DEF Next, vars,
    ResizeOverrun, ResizeFails, CloseFound, AppendFull, PeekFails, Exit, OpenFails

(* q_open leaves struct queue and the file in step. *)
LEMMA StepOpenInv == TypeInv /\ [Next]_vars => OpenInv'
<1> SUFFICES ASSUME TypeInv, [Next]_vars PROVE OpenInv'
  OBVIOUS
<1> USE DEF OpenInv, Running, TypeInv, TypeOK
<1>1. CASE Open
  BY <1>1, Fields DEF Open, FileTypes, File
<1>2. CASE WriteHeader
  BY <1>2 DEF WriteHeader, OpenFails, NewHeader, queueVars
<1>3. CASE Allocate
  BY <1>3, Fields DEF Allocate, OpenFails, queueVars
<1>4. CASE CheckFile
  BY <1>4 DEF CheckFile, CloseFound, OpenFails, queueVars
<1>5. CASE ResizeCopy
  BY <1>5 DEF ResizeCopy
<1>6. CASE ResizeRename
  BY <1>6 DEF ResizeRename, CloseFound, ResizeInv, queueVars
<1>7. CASE AppendEntry
  BY <1>7, Fields DEF AppendEntry
<1>8. CASE AppendSync
  BY <1>8, Fields DEF AppendSync, HeaderWritten, queueVars
<1>9. CASE Send
  BY <1>9 DEF Send
<1>10. CASE DropHead
  BY <1>10, Fields DEF DropHead, HeaderWritten
<1>11. CASE /\ UNCHANGED <<file, queueVars, depth>>
            /\ (read' = read \/ pc = "idle") /\ (pc' = pc \/ pc' = "down")
  BY <1>11 DEF queueVars
<1> QED
  BY <1>1, <1>2, <1>3, <1>4, <1>5, <1>6, <1>7, <1>8, <1>9, <1>10, <1>11 DEF Next, vars,
    ResizeOverrun, ResizeFails, CloseFound, AppendFull, PeekFails, Exit, OpenFails

(* The new file of a resize holds what the old one does. *)
LEMMA StepResizeInv == TypeInv /\ [Next]_vars => ResizeInv'
<1> SUFFICES ASSUME TypeInv, [Next]_vars PROVE ResizeInv'
  OBVIOUS
<1> USE DEF ResizeInv, TypeInv, TypeOK
<1>1. CASE CheckFile
  BY <1>1 DEF CheckFile, CloseFound, OpenFails
<1>2. CASE ResizeCopy
  <2>1. length \in 0 .. depth /\ depth \in Depths
    BY <1>2, RingTypes, Fields DEF ResizeCopy, ResizeInv, QueueTypes
  <2>2. \A k \in 0 .. length - 1 : k \in Slots
    BY <2>1, MaxDepthIsDepth DEF Slots
  <2>3. \A k \in 0 .. length - 1 : CopyEntries[k] = file.entry[(head + k) % num]
    BY <2>1, <2>2, Fields DEF CopyEntries
  <2>4. \A k \in Slots : k >= length => CopyEntries[k] = NULL
    BY <2>1, MaxDepthIsDepth DEF CopyEntries, Slots
  <2> QED
    BY <1>2, <2>3, <2>4 DEF ResizeCopy
<1>3. CASE AppendEntry
  BY <1>3 DEF AppendEntry
<1>4. CASE UNCHANGED <<file, tmp, queueVars, depth>> /\ (pc' = pc \/ pc' \notin {"resize", "rename"})
  BY <1>4 DEF queueVars
<1> QED
  BY <1>1, <1>2, <1>3, <1>4 DEF Next, vars, Open, WriteHeader, Allocate, ResizeOverrun, ResizeFails, CloseFound,
    ResizeRename, AppendFull, AppendSync, Send, PeekFails, DropHead, Exit, OpenFails

(* The window of an unchanged header. *)
LEMMA HeaderWindow ==
  ASSUME file'.head = file.head, file'.length = file.length, file'.num = file.num
  PROVE  \A s : InHeader(s)' <=> InHeader(s)
  BY DEF InHeader, InWindow, Offset

(* The window of an unchanged struct queue. *)
LEMMA QueueWindow ==
  ASSUME head' = head, length' = length, num' = num
  PROVE  \A s : InQueue(s)' <=> InQueue(s)
  BY DEF InQueue, InWindow, Offset

(* A header that was just written knows what struct queue knows. *)
LEMMA SyncedWindow ==
  ASSUME file.head = head, file.length = length, file.num = num
  PROVE  \A s : InHeader(s) <=> InQueue(s)
  BY DEF InHeader, InQueue, InWindow, Offset

(* A queue of length 0 uses no slot. *)
LEMMA EmptyWindow ==
  ASSUME NEW n \in Nat
  PROVE  \A s \in Slots : ~InWindow(s, 0, 0, n)
  BY MaxDepthIsDepth DEF InWindow, Offset, Slots

(* The window after an append: one slot more. *)
LEMMA AppendWindow ==
  ASSUME TypeInv, pc = "idle", length < num, head' = head, num' = num, length' = length + 1
  PROVE  \A s \in Slots : InQueue(s)' <=> InQueue(s) \/ s = (head + length) % num
<1>1. num \in Nat \ {0} /\ head \in 0 .. num - 1 /\ length \in 0 .. num - 1
  BY RingTypes
<1>2. (head + length) % num = IF head + length < num THEN head + length ELSE head + length - num
  BY <1>1, SlotOf
<1> QED
  BY <1>1, <1>2 DEF InQueue, InWindow, Offset, Slots

(* The window after the head was dropped: without the head. *)
LEMMA DropWindow ==
  ASSUME TypeInv, DropHead
  PROVE  /\ \A s \in Slots : InQueue(s)' <=> InQueue(s) /\ s # head
         /\ \A s \in Slots : InQueue(s) /\ s # head =>
              Offset(s, head', num) = Offset(s, head, num) - 1
<1>1. /\ num \in Nat \ {0} /\ head \in 0 .. num - 1 /\ length \in 1 .. num
      /\ num' = num /\ length' = length - 1 /\ head' = IF head + 1 = num THEN 0 ELSE head + 1
  BY RingTypes DEF DropHead, NextHead, TypeInv, OpenInv
<1> QED
  BY <1>1 DEF InQueue, InWindow, Offset, Slots

(* The file a resize leaves holds the same entries, from slot 0 on. *)
LEMMA RenameWindow ==
  ASSUME TypeInv, ResizeRename
  PROVE  /\ file'.state = "ready" /\ file' = tmp
         /\ \A s \in Slots : InHeader(s)' <=> s < length
         /\ \A s \in Slots : InQueue(s)' <=> s < length
         /\ \A s \in Slots : s < length =>
              \E t \in Slots : /\ InHeader(t) /\ Offset(t, file.head, file.num) = s
                              /\ file'.entry[s] = file.entry[t]
         /\ \A t \in Slots : InHeader(t) =>
              LET s == Offset(t, file.head, file.num)
              IN  s \in Slots /\ s < length /\ file'.entry[s] = file.entry[t]
<1>1. /\ file' = tmp /\ tmp.state = "ready" /\ tmp.num = num /\ tmp.head = 0 /\ tmp.length = length
      /\ num' = num /\ head' = 0 /\ length' = length /\ length = file.length
  BY DEF ResizeRename, CloseFound, TypeInv, ResizeInv, queueVars
<1>2. \A k \in 0 .. length - 1 : tmp.entry[k] = file.entry[(file.head + k) % file.num]
  BY DEF ResizeRename, CloseFound, TypeInv, ResizeInv
<1>3. /\ num \in Depths /\ num \in Nat \ {0} /\ length \in 0 .. num
      /\ file.num \in Depths /\ file.num \in Nat \ {0}
      /\ file.head \in 0 .. file.num - 1 /\ length \in 0 .. file.num
  BY <1>1, RingTypes DEF ResizeRename, CloseFound, TypeInv, OpenInv
<1>4. \A s \in Slots : (InHeader(s)' <=> s < length) /\ (InQueue(s)' <=> s < length)
  BY <1>1, <1>3 DEF InHeader, InQueue, InWindow, Offset, Slots
<1>5. ASSUME NEW s \in Slots, s < length
      PROVE  \E t \in Slots : /\ InHeader(t) /\ Offset(t, file.head, file.num) = s
                             /\ file'.entry[s] = file.entry[t]
  <2>1. s \in 0 .. file.num - 1 /\ s \in 0 .. length - 1
    BY <1>3, <1>5 DEF Slots
  <2> DEFINE t == (file.head + s) % file.num
  <2>2. t \in 0 .. file.num - 1 /\ Offset(t, file.head, file.num) = s
    BY <1>3, <2>1, SlotOf
  <2>3. t \in Slots /\ file'.entry[s] = file.entry[t]
    BY <1>1, <1>2, <1>3, <2>1, <2>2, SlotsOfDepth
  <2>4. InHeader(t)
    BY <1>1, <1>5, <2>2 DEF InHeader, InWindow
  <2> QED
    BY <2>2, <2>3, <2>4
<1>6. ASSUME NEW t \in Slots, InHeader(t)
      PROVE  LET s == Offset(t, file.head, file.num)
             IN  s \in Slots /\ s < length /\ file'.entry[s] = file.entry[t]
  <2> DEFINE s == Offset(t, file.head, file.num)
  <2>1. t \in 0 .. file.num - 1 /\ s < length
    BY <1>1, <1>6 DEF InHeader, InWindow
  <2>2. s \in 0 .. file.num - 1 /\ (file.head + s) % file.num = t
    BY <1>3, <2>1, OffsetOf
  <2>3. s \in Slots /\ s \in 0 .. length - 1
    BY <1>3, <2>1, <2>2, SlotsOfDepth
  <2> QED
    BY <1>1, <1>2, <2>1, <2>2, <2>3
<1> QED
  BY <1>1, <1>4, <1>5, <1>6

(* A window never reaches a slot that was not written. *)
LEMMA StepNoEmptySlot == TypeInv /\ [Next]_vars => NoEmptySlot'
<1> SUFFICES ASSUME TypeInv, [Next]_vars PROVE NoEmptySlot'
  OBVIOUS
<1> USE DEF NoEmptySlot, Running, TypeInv, TypeOK
<1>1. CASE Open
  BY <1>1, HeaderWindow, Fields DEF Open
<1>2. CASE WriteHeader
  BY <1>2, HeaderWindow DEF WriteHeader, OpenFails, NewHeader
<1>3. CASE Allocate
  <2>1. file'.length = 0 \/ (file' = file /\ file.state = "header")
    BY <1>3, Fields DEF Allocate, OpenFails, OpenInv
  <2>2. pc' \in {"idle", "down"} /\ (pc' = "idle" => length' = 0)
    BY <1>3 DEF Allocate, OpenFails, OpenInv, queueVars
  <2>3. file'.num \in Nat /\ file'.head = 0 /\ num' \in Nat /\ head' = 0
    BY <1>3, Fields DEF Allocate, OpenFails, queueVars, OpenInv
  <2>4. file'.length = 0 => \A s \in Slots : ~InHeader(s)'
    BY <2>3, EmptyWindow DEF InHeader
  <2>5. length' = 0 => \A s \in Slots : ~InQueue(s)'
    BY <2>3, EmptyWindow DEF InQueue
  <2> QED
    BY <2>1, <2>2, <2>4, <2>5
<1>4. CASE CheckFile
  <2>1. file' = file
    BY <1>4 DEF CheckFile, CloseFound, OpenFails
  <2>2. Running' => num' = file.num /\ head' = file.head /\ length' = file.length
    BY <1>4 DEF CheckFile, CloseFound, OpenFails
  <2> QED
    BY <1>4, <2>1, <2>2, HeaderWindow DEF CheckFile, CloseFound, OpenFails, InHeader, InQueue
<1>5. CASE ResizeCopy
  BY <1>5, HeaderWindow DEF ResizeCopy
<1>6. CASE ResizeRename
  <2>1. \A t \in Slots : InHeader(t) => file.entry[t] # NULL
    BY <1>6 DEF ResizeRename, CloseFound, OpenInv
  <2>2. \A s \in Slots : s < length => file'.entry[s] # NULL
    BY <1>6, <2>1, RenameWindow
  <2> QED
    BY <1>6, <2>2, RenameWindow
<1>7. CASE AppendEntry
  <2>1. /\ file'.head = file.head /\ file'.length = file.length /\ file'.num = file.num
        /\ head' = head /\ num' = num /\ file'.state = file.state
    BY <1>7, Fields DEF AppendEntry
  <2> DEFINE k == (head + length) % num
  <2>2. k \in Slots /\ read + 1 # NULL
    BY <1>7, AppendSlot, Fields DEF AppendEntry, NULL
  <2>3. CASE file' = [file EXCEPT !.entry[k] = read + 1] /\ length' = length + 1
    <3>1. file'.entry = [file.entry EXCEPT ![k] = read + 1]
      BY <2>3, Fields
    <3>2. \A s \in Slots : file.entry[s] # NULL \/ s = k => file'.entry[s] # NULL
      BY <2>2, <3>1, Fields
    <3> QED
      BY <1>7, <2>1, <2>3, <3>2, AppendWindow, HeaderWindow DEF AppendEntry
  <2>4. CASE UNCHANGED <<file, length, pc>>
    BY <1>7, <2>1, <2>4, HeaderWindow, QueueWindow DEF AppendEntry
  <2> QED
    BY <1>7, <2>3, <2>4 DEF AppendEntry
<1>8. CASE AppendSync
  <2>1. /\ file'.entry = file.entry /\ file'.state = file.state /\ file'.num = file.num
        /\ head' = head /\ num' = num /\ length' = length /\ file.num = num
    BY <1>8, Fields DEF AppendSync, HeaderWritten, queueVars, OpenInv
  <2>2. CASE file'.head = head' /\ file'.length = length'
    BY <1>8, <2>1, <2>2, QueueWindow DEF AppendSync, InHeader, InQueue
  <2>3. CASE file' = file
    BY <1>8, <2>1, <2>3, HeaderWindow, QueueWindow DEF AppendSync
  <2> QED
    BY <1>8, <2>2, <2>3, Fields DEF AppendSync, HeaderWritten
<1>9. CASE Send
  BY <1>9, HeaderWindow, QueueWindow DEF Send
<1>10. CASE DropHead
  <2>1. /\ file'.entry = file.entry /\ file'.state = file.state /\ file'.num = file.num
        /\ num' = num /\ file.num = num
    BY <1>10, Fields DEF DropHead, HeaderWritten, OpenInv
  <2>2. CASE file'.head = head' /\ file'.length = length'
    BY <1>10, <2>1, <2>2, DropWindow DEF DropHead, InHeader, InQueue
  <2>3. CASE file' = file
    BY <1>10, <2>1, <2>3, HeaderWindow, DropWindow DEF DropHead
  <2> QED
    BY <1>10, <2>2, <2>3, Fields DEF DropHead, HeaderWritten
<1>11. CASE UNCHANGED <<file, queueVars>> /\ (pc' = pc \/ pc' \in {"down", "undefined"})
  BY <1>11, HeaderWindow, QueueWindow DEF queueVars
<1> QED
  BY <1>1, <1>2, <1>3, <1>4, <1>5, <1>6, <1>7, <1>8, <1>9, <1>10, <1>11 DEF Next, vars,
    ResizeOverrun, ResizeFails, CloseFound, AppendFull, PeekFails, Exit, OpenFails

(* The strengthened type invariant is inductive. *)
LEMMA StepTypeInv == TypeInv /\ [Next]_vars => TypeInv'
  BY StepFileTypes, StepQueueTypes, StepControlTypes, StepHistTypes, StepHeaderInv,
     StepOpenInv, StepResizeInv, StepNoEmptySlot DEF TypeInv, TypeOK

(* Type correctness: every header of the file describes a window of it, every index    *)
(* used by q_append, q_peek and q_drop_head lies in the file, and what send_one relays  *)
(* is an event, on a failing disk and after a resize too.                              *)
THEOREM TypeCorrect == Spec => []TypeOK
<1>1. TypeInv => TypeOK
  BY DEF TypeInv
<1> QED
  BY <1>1, InitTypeInv, StepTypeInv, PTL DEF Spec

-----------------------------------------------------------------------------
(* What is accepted is kept                                                *)

(* A write of an entry, and what it leaves alone. *)
LEMMA EntryWritten ==
  ASSUME TypeInv, AppendEntry
  PROVE  LET k == (head + length) % num
         IN  /\ k \in Slots /\ ~InQueue(k)
             /\ UNCHANGED <<env, num, head, accepted, sent, last>> /\ read' = read + 1
             /\ UNCHANGED <<file.state, file.num, file.head, file.length>>
             /\ \/ /\ file'.entry = [file.entry EXCEPT ![k] = read + 1]
                   /\ memory' = [memory EXCEPT ![k] = read + 1]
                   /\ length' = length + 1 /\ pc' = "append" /\ UNCHANGED stop
                \/ UNCHANGED <<file, memory, length, pc>>
<1> DEFINE k == (head + length) % num
<1>1. k \in Slots /\ Offset(k, head, num) = length
  BY AppendSlot DEF AppendEntry
<1>2. ~InQueue(k)
  BY <1>1, Fields DEF InQueue, InWindow
<1>3. /\ UNCHANGED <<file.state, file.num, file.head, file.length>>
      /\ \/ /\ file'.entry = [file.entry EXCEPT ![k] = read + 1]
            /\ memory' = [memory EXCEPT ![k] = read + 1]
            /\ length' = length + 1 /\ pc' = "append" /\ UNCHANGED stop
         \/ UNCHANGED <<file, memory, length, pc>>
  BY Fields DEF AppendEntry
<1> QED
  BY <1>1, <1>2, <1>3 DEF AppendEntry, history

(* A write of the header writes nothing else, if it succeeds. *)
LEMMA HeaderEffect ==
  ASSUME TypeInv, AppendSync \/ DropHead
  PROVE  /\ UNCHANGED <<file.state, file.num, file.entry, num>>
         /\ file.num = num /\ file.state = "ready"
         /\ \/ file'.head = head' /\ file'.length = length'
            \/ file' = file /\ IOFails
  BY Fields DEF AppendSync, DropHead, HeaderWritten, queueVars, TypeInv, OpenInv, Running

(* The copies in memory stay those of the file. *)
LEMMA StepCopyInv == TypeInv /\ CopyInv /\ [Next]_vars => CopyInv'
<1> SUFFICES ASSUME TypeInv /\ CopyInv, [Next]_vars PROVE CopyInv'
  OBVIOUS
<1> USE DEF CopyInv, Running
<1>1. CASE Allocate
  BY <1>1 DEF Allocate, OpenFails, TypeInv, OpenInv, NoEntries, queueVars
<1>2. CASE CheckFile
  BY <1>2 DEF CheckFile, CloseFound, OpenFails, TypeInv, OpenInv, NoEntries
<1>3. CASE ResizeRename
  BY <1>3, Fields DEF ResizeRename, CloseFound, TypeInv, ResizeInv, queueVars
<1>4. CASE AppendEntry
  BY <1>4, EntryWritten, Fields DEF AppendEntry
<1>5. CASE AppendSync
  BY <1>5, HeaderEffect DEF AppendSync, queueVars
<1>6. CASE Send
  BY <1>6, RingTypes, SlotsOfDepth, Fields DEF Send
<1>7. CASE DropHead
  BY <1>7, HeaderEffect, Fields DEF DropHead
<1>8. CASE UNCHANGED <<file, memory>> /\ (pc' = pc \/ ~Running')
  BY <1>8 
<1> QED
  BY <1>1, <1>2, <1>3, <1>4, <1>5, <1>6, <1>7, <1>8 DEF Next, vars, Open, WriteHeader,
    ResizeCopy, ResizeOverrun, ResizeFails, CloseFound, AppendFull, PeekFails, Exit, OpenFails, queueVars

(* A slot that leaves the queue, or is not in it yet, has no copy. *)
LEMMA StepSpareInv == TypeInv /\ SpareInv /\ [Next]_vars => SpareInv'
<1> SUFFICES ASSUME TypeInv /\ SpareInv, [Next]_vars PROVE SpareInv'
  OBVIOUS
<1> USE DEF SpareInv, Running
<1>1. CASE Allocate
  BY <1>1 DEF Allocate, OpenFails, TypeInv, OpenInv, NoEntries, queueVars
<1>2. CASE CheckFile
  BY <1>2 DEF CheckFile, CloseFound, OpenFails, TypeInv, OpenInv, NoEntries
<1>3. CASE ResizeRename
  <2>1. \A s \in Slots : s >= length => memory'[s] = NULL
    BY <1>3 DEF ResizeRename, CloseFound, TypeInv, ResizeInv, queueVars
  <2>2. \A s \in Slots : s \in Nat /\ length \in Nat
    BY Fields, MaxDepthIsDepth DEF Slots
  <2> QED
    BY <1>3, <2>1, <2>2, RenameWindow
<1>4. CASE AppendEntry
  <2> DEFINE k == (head + length) % num
  <2>1. k \in Slots /\ UNCHANGED <<head, num>> /\ pc = "idle" /\ length < num
    BY <1>4, EntryWritten DEF AppendEntry
  <2>2. CASE UNCHANGED <<memory, length>>
    BY <2>1, <2>2, QueueWindow
  <2>3. CASE memory' = [memory EXCEPT ![k] = read + 1] /\ length' = length + 1
    <3>1. \A s \in Slots : ~InQueue(s)' => ~InQueue(s) /\ s # k
      BY <2>1, <2>3, AppendWindow
    <3> QED
      BY <2>1, <2>3, <3>1, Fields
  <2> QED
    BY <1>4, <2>2, <2>3, EntryWritten
<1>5. CASE AppendSync
  BY <1>5, QueueWindow DEF AppendSync, queueVars
<1>6. CASE Send
  <2>1. head \in 0 .. num - 1 /\ num \in Nat \ {0} /\ length \in Nat /\ length > 0 /\ pc = "idle"
    BY <1>6, RingTypes DEF Send
  <2>2. InQueue(head) /\ UNCHANGED <<head, length, num>>
    BY <1>6, <2>1 DEF Send, InQueue, InWindow, Offset
  <2>3. \A s \in Slots : s # head => memory'[s] = memory[s]
    BY <1>6, Fields DEF Send
  <2> QED
    BY <2>1, <2>2, <2>3, QueueWindow
<1>7. CASE DropHead
  <2>1. \A s \in Slots : memory'[s] = IF s = head THEN NULL ELSE memory[s]
    BY <1>7, Fields DEF DropHead
  <2> QED
    BY <1>7, <2>1, DropWindow DEF DropHead
<1>8. CASE UNCHANGED <<head, length, num, memory>> /\ (pc' = pc \/ ~Running')
  BY <1>8, QueueWindow
<1> QED
  BY <1>1, <1>2, <1>3, <1>4, <1>5, <1>6, <1>7, <1>8 DEF Next, vars, Open, WriteHeader,
    ResizeCopy, ResizeOverrun, ResizeFails, CloseFound, AppendFull, PeekFails, Exit, OpenFails, queueVars

(* The entry being appended is the last of the queue, the one relayed its head. *)
LEMMA StepStepInv == TypeInv /\ CopyInv /\ StepInv /\ [Next]_vars => StepInv'
<1> SUFFICES ASSUME TypeInv /\ CopyInv /\ StepInv, [Next]_vars PROVE StepInv'
  OBVIOUS
<1> USE DEF StepInv
<1>1. CASE AppendEntry
  <2>1. file'.entry = [file.entry EXCEPT ![(head + length) % num] = read + 1] \/ pc' = "idle"
    BY <1>1, EntryWritten DEF AppendEntry
  <2>2. pc' # "idle" => head' + length' - 1 = head + length /\ num' = num /\ pc' = "append"
    BY <1>1, EntryWritten, Fields DEF AppendEntry
  <2> QED
    BY <1>1, <2>1, <2>2, EntryWritten, Fields DEF AppendEntry
<1>2. CASE AppendSync
  BY <1>2 DEF AppendSync
<1>3. CASE Send
  <2>1. head \in Slots
    BY <1>3, RingTypes, SlotsOfDepth DEF Send
  <2>2. memory[head] \in {NULL, file.entry[head]}
    BY <1>3, <2>1 DEF Send, CopyInv, Running
  <2> QED
    BY <1>3, <2>2 DEF Send
<1>4. CASE DropHead
  BY <1>4 DEF DropHead
<1>5. CASE /\ UNCHANGED <<file, head, length, num, last, sent>>
           /\ (read' = read \/ pc' = "idle") /\ (pc' = pc \/ pc' \notin {"append", "drop"})
  BY <1>5 
<1> QED
  BY <1>1, <1>2, <1>3, <1>4, <1>5 DEF Next, vars, Open, WriteHeader, Allocate, CheckFile,
    ResizeCopy, ResizeOverrun, ResizeFails, CloseFound, ResizeRename, AppendFull, PeekFails, Exit, OpenFails,
    queueVars, history

(* No step loses an accepted event. *)
LEMMA StepKept == TypeInv /\ LossInv /\ [Next]_vars => Kept'
<1> SUFFICES ASSUME TypeInv /\ LossInv, [Next]_vars PROVE Kept'
  OBVIOUS
<1> USE DEF LossInv, Kept, Running
<1>1. CASE Open
  BY <1>1, HeaderWindow, Fields DEF Open, history
<1>2. CASE WriteHeader
  BY <1>2, HeaderWindow, Fields DEF WriteHeader, OpenFails, TypeInv, OpenInv, history
<1>3. CASE Allocate
  BY <1>3, HeaderWindow, Fields DEF Allocate, OpenFails, TypeInv, OpenInv, history
<1>4. CASE CheckFile
  <2>1. file' = file /\ accepted' = accepted /\ sent' = sent
    BY <1>4 DEF CheckFile, CloseFound, OpenFails, history
  <2>2. Running' => num' = file.num /\ head' = file.head /\ length' = file.length
    BY <1>4 DEF CheckFile, CloseFound, OpenFails
  <2> QED
    BY <2>1, <2>2, HeaderWindow DEF InHeader, InQueue
<1>5. CASE ResizeCopy
  BY <1>5, HeaderWindow DEF ResizeCopy, history
<1>6. CASE ResizeRename
  <2>1. accepted' = accepted /\ sent' = sent
    BY <1>6 DEF ResizeRename, CloseFound, history
  <2> QED
    BY <1>6, <2>1, RenameWindow
<1>7. CASE AppendEntry
  <2>1. \A t \in Slots : t # (head + length) % num => file'.entry[t] = file.entry[t]
    BY <1>7, EntryWritten, Fields
  <2>2. \A t : InHeader(t)' <=> InHeader(t)
    BY <1>7, EntryWritten, HeaderWindow
  <2>3. \A t \in Slots : InQueue(t) => InQueue(t)'
    BY <1>7, EntryWritten, AppendWindow, QueueWindow DEF AppendEntry
  <2>4. accepted' = accepted /\ sent' = sent /\ file'.state = file.state
    BY <1>7, EntryWritten
  <2>5. \A t \in Slots : InQueue(t) => file'.entry[t] = file.entry[t]
    BY <1>7, <2>1, EntryWritten
  <2> QED
    BY <1>7, <2>2, <2>3, <2>4, <2>5 DEF AppendEntry
<1>8. CASE AppendSync
  <2>1. UNCHANGED <<head, length, num, sent, read>>
    BY <1>8 DEF AppendSync, queueVars
  <2>2. CASE file' = file /\ accepted' = accepted
    BY <1>8, <2>1, <2>2, HeaderWindow, QueueWindow DEF AppendSync
  <2>3. CASE file'.head = head' /\ file'.length = length' /\ accepted' = accepted \cup {read}
    <3> DEFINE s0 == (head + length - 1) % num
    <3>1. /\ num \in Depths /\ num \in Nat \ {0} /\ head \in 0 .. num - 1
          /\ length - 1 \in 0 .. num - 1 /\ length \in Nat /\ head + length - 1 = head + (length - 1)
      BY <1>8, RingTypes DEF AppendSync, TypeInv, OpenInv
    <3>2. s0 \in 0 .. num - 1 /\ Offset(s0, head, num) = length - 1
      BY <3>1, SlotOf
    <3>3. s0 \in Slots /\ InQueue(s0) /\ file.entry[s0] = read
      BY <1>8, <3>1, <3>2, SlotsOfDepth DEF InQueue, InWindow, AppendSync, StepInv
    <3>4. \A s : InQueue(s) => InHeader(s)' /\ InQueue(s)'
      BY <1>8, <2>1, <2>3, HeaderEffect DEF InHeader, InQueue
    <3> QED
      BY <1>8, <2>1, <2>3, <3>3, <3>4, HeaderEffect DEF AppendSync
  <2> QED
    BY <1>8, <2>2, <2>3, Fields DEF AppendSync, HeaderWritten
<1>9. CASE Send
  BY <1>9, HeaderWindow, QueueWindow DEF Send
<1>10. CASE DropHead
  <2>1. UNCHANGED <<accepted, sent>> /\ file'.entry = file.entry /\ file'.state = file.state
    BY <1>10, HeaderEffect DEF DropHead, history
  <2>2. ASSUME NEW e \in accepted \ sent, NEW s \in Slots, file.entry[s] = e, InQueue(s)
        PROVE  InQueue(s)'
    <3>1. s # head
      BY <1>10, <2>2 DEF DropHead, StepInv
    <3> QED
      BY <1>10, <2>2, <3>1, DropWindow
  <2>3. CASE file'.head = head' /\ file'.length = length'
    <3>1. \A s : InQueue(s)' <=> InHeader(s)'
      BY <1>10, <2>3, HeaderEffect DEF InHeader, InQueue
    <3> QED
      BY <1>10, <2>1, <2>2, <3>1 DEF DropHead
  <2>4. CASE file' = file
    BY <1>10, <2>1, <2>2, <2>4, HeaderWindow DEF DropHead
  <2> QED
    BY <1>10, <2>3, <2>4, HeaderEffect
<1>11. CASE UNCHANGED <<file, head, length, num, accepted, sent>> /\ (pc' = pc \/ ~Running')
  BY <1>11, HeaderWindow, QueueWindow
<1> QED
  BY <1>1, <1>2, <1>3, <1>4, <1>5, <1>6, <1>7, <1>8, <1>9, <1>10, <1>11 DEF Next, vars,
    ResizeOverrun, ResizeFails, CloseFound, AppendFull, PeekFails, Exit, OpenFails, queueVars, history

(* Before the first start nothing is accepted. *)
LEMMA InitLossInv == Init => LossInv
  BY DEF Init, LossInv, CopyInv, SpareInv, Kept, StepInv, Running

(* No accepted event is lost: it was relayed, or it is in the file, in a slot its header *)
(* and struct queue know, whenever the process ends, whatever write fails and whatever   *)
(* depth it is started with again.                                                       *)
THEOREM NothingLostHolds == Spec => []NothingLost
<1>1. Init => TypeInv /\ LossInv
  BY InitTypeInv, InitLossInv
<1>2. TypeInv /\ LossInv /\ [Next]_vars => (TypeInv /\ LossInv)'
  BY StepTypeInv, StepCopyInv, StepSpareInv, StepStepInv, StepKept DEF LossInv
<1>3. TypeInv /\ LossInv => NothingLost
  <2> SUFFICES ASSUME TypeInv, LossInv, NEW e \in accepted, e \notin sent
               PROVE  file.state = "ready" /\ e \in Held(file)
    BY DEF NothingLost
  <2>1. file.state = "ready" /\ \E s \in Slots : file.entry[s] = e /\ InHeader(s)
    BY DEF LossInv, Kept
  <2>2. PICK s \in Slots : file.entry[s] = e /\ InHeader(s)
    BY <2>1
  <2>3. /\ file.num \in Nat \ {0} /\ file.head \in 0 .. file.num - 1 /\ file.length \in Nat
        /\ s \in 0 .. file.num - 1 /\ Offset(s, file.head, file.num) < file.length
    BY <2>1, <2>2, RingTypes DEF InHeader, InWindow
  <2>4. /\ Offset(s, file.head, file.num) \in 0 .. file.num - 1
        /\ (file.head + Offset(s, file.head, file.num)) % file.num = s
    BY <2>3, OffsetOf
  <2>5. Offset(s, file.head, file.num) \in 0 .. file.length - 1
    BY <2>3, <2>4
  <2> QED
    BY <2>1, <2>2, <2>4, <2>5 DEF Held
<1> QED
  BY <1>1, <1>2, <1>3, PTL DEF Spec

(* The slot q_append writes to is free: it never finds a copy there and reports an error, *)
(* not after a resize, a restart or an access that failed.                               *)
THEOREM AppendSlotIsFree ==
  Spec => [](pc = "idle" /\ length < num => memory[(head + length) % num] = NULL)
<1>1. Init => TypeInv /\ SpareInv
  BY InitTypeInv, InitLossInv DEF LossInv
<1>2. TypeInv /\ SpareInv /\ [Next]_vars => (TypeInv /\ SpareInv)'
  BY StepTypeInv, StepSpareInv
<1>3. ASSUME TypeInv, SpareInv, pc = "idle", length < num
      PROVE  memory[(head + length) % num] = NULL
  <2>1. (head + length) % num \in Slots /\ Offset((head + length) % num, head, num) = length
    BY <1>3, AppendSlot
  <2>2. ~InQueue((head + length) % num)
    BY <1>3, <2>1, Fields DEF InQueue, InWindow
  <2> QED
    BY <1>3, <2>1, <2>2 DEF SpareInv, Running
<1>4. TypeInv /\ SpareInv => (pc = "idle" /\ length < num => memory[(head + length) % num] = NULL)
  BY <1>3
<1> QED
  BY <1>1, <1>2, <1>4, PTL DEF Spec

(* The copy of a slot in use, where there is one, is the entry of the file: q_peek *)
(* returns the same whether it finds a copy or reads the file.                     *)
THEOREM MemoryIsFileHolds == Spec => []MemoryIsFile
<1>1. Init => TypeInv /\ CopyInv
  BY InitTypeInv, InitLossInv DEF LossInv
<1>2. TypeInv /\ CopyInv /\ [Next]_vars => (TypeInv /\ CopyInv)'
  BY StepTypeInv, StepCopyInv
<1>3. TypeInv /\ CopyInv => MemoryIsFile
  <2> SUFFICES ASSUME TypeInv, CopyInv, pc \in {"idle", "append", "drop"},
                      NEW k \in 0 .. length - 1
               PROVE  LET s == (head + k) % num IN memory[s] \in {NULL, file.entry[s]}
    BY DEF MemoryIsFile
  <2>1. /\ num \in Depths /\ num \in Nat \ {0} /\ head \in 0 .. num - 1 /\ k \in 0 .. num - 1
    BY RingTypes
  <2>2. (head + k) % num \in 0 .. num - 1 /\ (head + k) % num \in Slots
    BY <2>1, SlotOf, SlotsOfDepth
  <2> QED
    BY <2>1, <2>2 DEF CopyInv, Running
<1> QED
  BY <1>1, <1>2, <1>3, PTL DEF Spec

-----------------------------------------------------------------------------
(* The order of the file                                                   *)

(* Order depends on the entries of the window and on where it lies. *)
LEMMA SameOrder ==
  ASSUME NEW f, NEW g, NEW h, NEW len, NEW n, Ordered(f, h, len, n),
         \A s \in Slots : InWindow(s, h, len, n) => g.entry[s] = f.entry[s]
  PROVE  Ordered(g, h, len, n)
  BY DEF Ordered

(* A queue with no entry is in order. *)
LEMMA EmptyOrder ==
  ASSUME NEW f, NEW n \in Nat
  PROVE  Ordered(f, 0, 0, n)
  BY EmptyWindow DEF Ordered

(* The disk and the configured error action never change. *)
LEMMA SameEnvironment ==
  ASSUME [Next]_vars
  PROVE  env' = env /\ (Trusted' <=> Trusted) /\ (IOFails' <=> IOFails)
<1>1. env' = env
  BY DEF Next, vars, Open, WriteHeader, Allocate, CheckFile, ResizeCopy, ResizeOverrun, ResizeFails, CloseFound, ResizeRename,
     AppendFull, AppendEntry, AppendSync, Send, PeekFails, DropHead, Exit, OpenFails
<1> QED
  BY <1>1 DEF Trusted, IOFails, StopOnError

(* Only younger events are appended, and only where no header still looks. *)
LEMMA StepOrderInv == TypeInv /\ Trusted /\ OrderInv /\ [Next]_vars => OrderInv'
<1> SUFFICES ASSUME TypeInv /\ Trusted /\ OrderInv, [Next]_vars PROVE OrderInv'
  OBVIOUS
<1> USE DEF OrderInv
<1>1. CASE Open
  <2>1. ~Running' /\ UNCHANGED <<file.entry, file.head, file.length, file.num, read>>
    BY <1>1, Fields DEF Open, Running
  <2>2. file'.state = "ready" => file.state = "ready"
    BY <1>1, Fields DEF Open
  <2> QED
    BY <2>1, <2>2, SameOrder
<1>2. CASE WriteHeader
  <2>1. ~Running' /\ read' = read /\ read \in Nat
    BY <1>2, Fields DEF WriteHeader, OpenFails, Running
  <2>2. CASE file' = file
    BY <2>1, <2>2
  <2>3. CASE file' = NewHeader(num)
    BY <2>1, <2>3 DEF NewHeader, NoEntries, NULL
  <2> QED
    BY <1>2, <2>2, <2>3 DEF WriteHeader, OpenFails
<1>3. CASE Allocate
  <2>1. CASE OpenFails
    BY <1>3, <2>1 DEF OpenFails, Running
  <2>2. CASE pc' = "idle" /\ file' = [file EXCEPT !.state = "ready"]
    <3>1. UNCHANGED <<file.head, file.length, file.num, file.entry, head, length, num, read>>
      BY <1>3, <2>2, Fields DEF Allocate, OpenFails, queueVars
    <3>2. file.head = 0 /\ file.length = 0 /\ head = 0 /\ length = 0
      BY <1>3 DEF Allocate, TypeInv, OpenInv
    <3>3. file.num \in Nat /\ num \in Nat
      BY Fields
    <3>4. Ordered(file', 0, 0, file.num) /\ Ordered(file', 0, 0, num)
      BY <3>3, EmptyOrder
    <3> QED
      BY <2>2, <3>1, <3>2, <3>4
  <2> QED
    BY <1>3, <2>1, <2>2 DEF Allocate
<1>4. CASE CheckFile
  <2>1. file' = file /\ read' = read
    BY <1>4 DEF CheckFile, CloseFound, OpenFails
  <2>2. Running' =>
          /\ num' = file.num /\ head' = file.head /\ length' = file.length
          /\ file.state = "ready" /\ pc' # "append" /\ length' \in Nat
    BY <1>4, Fields DEF CheckFile, CloseFound, OpenFails, Running
  <2> QED
    BY <2>1, <2>2
<1>5. CASE ResizeRename
  <2>1. /\ read' = read /\ file'.head = 0 /\ head' = 0 /\ file'.length = length /\ length' = length
        /\ file'.num = num /\ num' = num /\ file.state = "ready" /\ pc' # "append"
        /\ length \in Nat /\ num \in Nat /\ length = file.length
    BY <1>5, Fields DEF ResizeRename, CloseFound, TypeInv, ResizeInv, OpenInv, queueVars
  <2>2. ASSUME NEW s \in Slots PROVE file'.entry[s] <= read
    <3>1. CASE s < length
      BY <1>5, <3>1, RenameWindow
    <3>2. CASE s >= length
      BY <1>5, <3>2, Fields DEF ResizeRename, CloseFound, TypeInv, ResizeInv, NULL
    <3>3. s \in Nat
      BY MaxDepthIsDepth DEF Slots
    <3> QED
      BY <2>1, <3>1, <3>2, <3>3
  <2>3. Ordered(file', 0, length, num)
    <3> SUFFICES ASSUME NEW s \in Slots, NEW t \in Slots, InWindow(s, 0, length, num),
                        InWindow(t, 0, length, num), Offset(s, 0, num) < Offset(t, 0, num)
                 PROVE  file'.entry[s] < file'.entry[t]
      BY DEF Ordered
    <3>1. s < length /\ t < length /\ s < t
      BY <2>1 DEF InWindow, Offset
    <3>2. PICK u \in Slots : /\ InHeader(u) /\ Offset(u, file.head, file.num) = s
                             /\ file'.entry[s] = file.entry[u]
      BY <1>5, <3>1, RenameWindow
    <3>3. PICK v \in Slots : /\ InHeader(v) /\ Offset(v, file.head, file.num) = t
                             /\ file'.entry[t] = file.entry[v]
      BY <1>5, <3>1, RenameWindow
    <3> QED
      BY <2>1, <3>1, <3>2, <3>3 DEF Ordered, InHeader
  <2> QED
    BY <2>1, <2>2, <2>3
<1>6. CASE AppendFull
  <2>1. UNCHANGED <<file, head, length, num, pc, stop>> /\ read' = read + 1
    BY <1>6 DEF AppendFull, queueVars
  <2>2. \A s \in Slots : file.entry[s] <= read + 1
    BY Fields
  <2> QED
    BY <2>1, <2>2 DEF Running
<1>7. CASE AppendEntry
  <2> DEFINE k == (head + length) % num
  <2>1. /\ k \in Slots /\ ~InQueue(k) /\ UNCHANGED <<num, head>> /\ read' = read + 1
        /\ UNCHANGED <<file.state, file.num, file.head, file.length>> /\ file.num = num
        /\ stop # "flush" /\ pc = "idle" /\ length < num
    BY <1>7, EntryWritten DEF AppendEntry, TypeInv, OpenInv, Running
  <2>2. file.head = head /\ file.length <= length
    BY <2>1 DEF Running
  <2>3. CASE UNCHANGED <<file, length, pc>>
    <3>1. \A s \in Slots : file.entry[s] <= read + 1
      BY Fields
    <3>2. stop' # "flush"
      BY <1>7, <2>1 DEF AppendEntry, QueueError
    <3> QED
      BY <2>1, <2>2, <2>3, <3>1 DEF Running
  <2>4. CASE file'.entry = [file.entry EXCEPT ![k] = read + 1] /\ length' = length + 1 /\ pc' = "append"
    <3>1. \A s \in Slots : file'.entry[s] = IF s = k THEN read + 1 ELSE file.entry[s]
      BY <2>1, <2>4, Fields
    <3>2. \A s \in Slots : file'.entry[s] <= read + 1
      BY <3>1, Fields
    <3>3. Offset(k, head, num) = length /\ num \in Nat \ {0} /\ length \in Nat
      BY <2>1, AppendSlot, Fields, RingTypes
    <3>4. ~InWindow(k, file.head, file.length, file.num)
      BY <2>1, <2>2, <3>3, Fields DEF InWindow
    <3>5. file.state = "ready" => Ordered(file', file.head, file.length, file.num)
      BY <3>1, <3>4, SameOrder
    <3>6. Ordered(file', head, length + 1, num)
      <4> SUFFICES ASSUME NEW s \in Slots, NEW t \in Slots, InWindow(s, head, length + 1, num),
                          InWindow(t, head, length + 1, num), Offset(s, head, num) < Offset(t, head, num)
                   PROVE  file'.entry[s] < file'.entry[t]
        BY DEF Ordered
      <4>1. InQueue(s)' /\ InQueue(t)'
        BY <2>1, <2>4 DEF InQueue
      <4>2. (InQueue(s) \/ s = k) /\ (InQueue(t) \/ t = k)
        BY <2>1, <2>4, <4>1, AppendWindow
      <4>3. s # k
        <5>1. Offset(t, head, num) < length + 1 /\ Offset(t, head, num) \in Int
          BY <3>3, Fields, OffsetType DEF InWindow
        <5> QED
          BY <3>3, <5>1
      <4>4. CASE t = k
        BY <3>1, <4>3, <4>4, Fields
      <4>5. CASE t # k
        BY <2>1, <3>1, <4>2, <4>3, <4>5 DEF Ordered, InQueue, Running
      <4> QED
        BY <4>4, <4>5
    <3> QED
      BY <2>1, <2>2, <2>4, <3>2, <3>3, <3>5, <3>6 DEF Running
  <2> QED
    BY <1>7, <2>3, <2>4, EntryWritten
<1>8. CASE AppendSync
  <2>1. UNCHANGED <<head, length, num, read>> /\ pc = "append" /\ pc' = "idle" /\ length \in Nat
    BY <1>8, Fields DEF AppendSync, queueVars
  <2>2. /\ UNCHANGED <<file.state, file.num, file.entry>> /\ file.num = num /\ file.state = "ready"
    BY <1>8, HeaderEffect
  <2>3. Ordered(file', head, length, num) /\ Ordered(file', file.head, file.length, num)
    BY <2>1, <2>2, SameOrder DEF Running
  <2>4. stop' # "flush" => stop # "flush"
    BY <1>8 DEF AppendSync, QueueError
  <2>5. CASE file'.head = head' /\ file'.length = length'
    BY <2>1, <2>2, <2>3, <2>5 DEF Running
  <2>6. CASE file' = file
    BY <2>1, <2>2, <2>3, <2>4, <2>6, Fields DEF Running
  <2> QED
    BY <1>8, <2>5, <2>6, HeaderEffect
<1>9. CASE Send
  <2>1. UNCHANGED <<file, head, length, num, read>> /\ pc = "idle" /\ pc' = "drop"
    BY <1>9 DEF Send
  <2>2. stop' # "flush" => stop # "flush"
    BY <1>9 DEF Send, Draining
  <2> QED
    BY <2>1, <2>2 DEF Running
<1>10. CASE PeekFails
  BY <1>10 DEF PeekFails, SendError, Running, queueVars
<1>11. CASE DropHead
  <2>1. /\ UNCHANGED <<num, read>> /\ pc = "drop" /\ pc' = "idle" /\ length' = length - 1
        /\ length \in Nat /\ num \in Nat \ {0}
    BY <1>11, Fields, RingTypes DEF DropHead
  <2>2. /\ UNCHANGED <<file.state, file.num, file.entry>> /\ file.num = num /\ file.state = "ready"
    BY <1>11, HeaderEffect
  <2>3. Ordered(file', file.head, file.length, num)
    BY <2>1, <2>2, SameOrder DEF Running
  <2>4. Ordered(file', head', length', num)
    <3> SUFFICES ASSUME NEW s \in Slots, NEW t \in Slots, InWindow(s, head', length', num),
                        InWindow(t, head', length', num), Offset(s, head', num) < Offset(t, head', num)
                 PROVE  file'.entry[s] < file'.entry[t]
      BY DEF Ordered
    <3>1. InQueue(s) /\ s # head /\ InQueue(t) /\ t # head
      BY <1>11, <2>1, DropWindow DEF InQueue
    <3>2. Offset(s, head, num) - 1 < Offset(t, head, num) - 1
      BY <1>11, <3>1, DropWindow
    <3>3. Offset(s, head, num) < Offset(t, head, num)
      BY <2>1, <3>2, Fields, OffsetType
    <3> QED
      BY <2>1, <2>2, <3>1, <3>3 DEF Ordered, InQueue, Running
  <2>5. CASE file'.head = head' /\ file'.length = length'
    BY <2>1, <2>2, <2>4, <2>5 DEF Running
  <2>6. CASE file' = file /\ IOFails
    <3>1. (file'.head = head' /\ file'.length = length') \/ stop' = "flush"
      BY <1>11, <2>6, Fields DEF DropHead, SendError, Trusted, HeaderWritten
    <3> QED
      BY <2>1, <2>2, <2>3, <2>4, <2>6, <3>1 DEF Running
  <2> QED
    BY <1>11, <2>5, <2>6, HeaderEffect
<1>12. CASE UNCHANGED <<file, head, length, num, read>> /\ (pc' = pc \/ ~Running') /\ (stop' = stop \/ ~Running')
  BY <1>12 DEF Running
<1> QED
  BY <1>1, <1>2, <1>3, <1>4, <1>5, <1>6, <1>7, <1>8, <1>9, <1>10, <1>11, <1>12 DEF Next,
    vars, ResizeCopy, ResizeOverrun, ResizeFails, CloseFound, Exit, OpenFails, queueVars, Running

(* Before the first start the file holds nothing. *)
LEMMA InitOrderInv == Init => OrderInv /\ HealthyInv
<1> SUFFICES ASSUME Init PROVE OrderInv /\ HealthyInv
  OBVIOUS
<1>1. /\ file = NoFile /\ ~Running /\ read = 0 /\ stop = "run" /\ last = 0
  BY DEF Init, Running
<1>2. file.state = "none" /\ \A s \in Slots : file.entry[s] = 0
  BY <1>1 DEF NoFile, NoEntries, NULL
<1> QED
  BY <1>1, <1>2 DEF OrderInv, HealthyInv

(* What a restart finds in the file is in the order the events were read, each once, if  *)
(* no access fails or a failed one stops the plugin.                                     *)
THEOREM FileInOrderHolds == Spec => []FileInOrder
<1>1. Init => TypeInv /\ (Trusted => OrderInv)
  BY InitTypeInv, InitOrderInv
<1>2. TypeInv /\ (Trusted => OrderInv) /\ [Next]_vars => (TypeInv /\ (Trusted => OrderInv))'
  BY StepTypeInv, StepOrderInv, SameEnvironment
<1>3. TypeInv /\ (Trusted => OrderInv) => FileInOrder
  <2> SUFFICES ASSUME TypeInv, OrderInv, file.state = "ready",
                      NEW j \in 1 .. file.length, NEW k \in 1 .. file.length, j < k
               PROVE  Contents(file)[j] < Contents(file)[k]
    BY DEF FileInOrder, Trusted
  <2>1. /\ file.num \in Depths /\ file.num \in Nat \ {0}
        /\ file.head \in 0 .. file.num - 1 /\ file.length \in 0 .. file.num
        /\ j - 1 \in 0 .. file.num - 1 /\ k - 1 \in 0 .. file.num - 1
        /\ file.head + j - 1 = file.head + (j - 1) /\ file.head + k - 1 = file.head + (k - 1)
    BY RingTypes
  <2> DEFINE s == (file.head + j - 1) % file.num
  <2> DEFINE t == (file.head + k - 1) % file.num
  <2>2. /\ s \in 0 .. file.num - 1 /\ Offset(s, file.head, file.num) = j - 1
        /\ t \in 0 .. file.num - 1 /\ Offset(t, file.head, file.num) = k - 1
    BY <2>1, SlotOf
  <2>3. InWindow(s, file.head, file.length, file.num) /\ InWindow(t, file.head, file.length, file.num)
    BY <2>1, <2>2 DEF InWindow
  <2>4. s \in Slots /\ t \in Slots
    BY <2>1, <2>2, SlotsOfDepth
  <2>5. j - 1 < k - 1
    OBVIOUS
  <2>6. file.entry[s] < file.entry[t]
    BY <2>2, <2>3, <2>4, <2>5 DEF OrderInv, Ordered
  <2> QED
    BY <2>6 DEF Contents
<1> QED
  BY <1>1, <1>2, <1>3, PTL DEF Spec

-----------------------------------------------------------------------------
(* A healthy disk                                                          *)

(* What holds together while no access fails. *)
Sound == TypeInv /\ LossInv /\ OrderInv /\ HealthyInv /\ ~IOFails

(* The head of a queue that is not empty is its oldest entry, and known to the header. *)
LEMMA HeadIsOldest ==
  ASSUME Sound, pc \in {"idle", "drop"}, length > 0
  PROVE  /\ head \in Slots /\ InHeader(head) /\ InQueue(head)
         /\ \A s \in Slots : InHeader(s) => file.entry[head] <= file.entry[s]
<1>1. /\ num \in Depths /\ num \in Nat \ {0} /\ head \in 0 .. num - 1 /\ length \in Nat
      /\ file.head = head /\ file.length = length /\ file.num = num
  BY RingTypes DEF Sound, HealthyInv, TypeInv, OpenInv, Running
<1>2. head \in Slots /\ Offset(head, head, num) = 0
  BY <1>1, SlotsOfDepth DEF Offset
<1>3. InQueue(head) /\ InHeader(head)
  BY <1>1, <1>2 DEF InQueue, InHeader, InWindow
<1>4. ASSUME NEW s \in Slots, InHeader(s), s # head PROVE file.entry[head] <= file.entry[s]
  <2>1. InQueue(s) /\ s \in 0 .. num - 1
    BY <1>1, <1>4 DEF InHeader, InQueue, InWindow
  <2>2. Offset(s, head, num) > 0
    BY <1>1, <1>4, <2>1 DEF Offset
  <2>3. file.entry[head] < file.entry[s]
    BY <1>2, <1>3, <2>1, <2>2 DEF InQueue, Sound, OrderInv, Ordered, Running
  <2>4. file.entry[head] \in Int /\ file.entry[s] \in Int
    BY <1>2, Fields DEF Sound
  <2> QED
    BY <2>3, <2>4
<1>5. file.entry[head] <= file.entry[head]
  BY <1>2, Fields DEF Sound
<1> QED
  BY <1>2, <1>3, <1>4, <1>5

(* The header stays at most one append behind, and nothing older than what was relayed is queued. *)
LEMMA StepHealthyInv == Sound /\ [Next]_vars => HealthyInv'
<1> SUFFICES ASSUME Sound, [Next]_vars PROVE HealthyInv'
  OBVIOUS
<1> USE DEF Sound, HealthyInv, TypeInv
<1>1. CASE Open
  <2>1. ~Running' /\ UNCHANGED <<file.entry, file.head, file.length, file.num, read, last>> /\ stop' = "run"
    BY <1>1, Fields DEF Open, Running, history
  <2>2. file'.state = "ready" => file.state = "ready"
    BY <1>1, Fields DEF Open
  <2> QED
    BY <2>1, <2>2, HeaderWindow
<1>2. CASE WriteHeader
  BY <1>2 DEF WriteHeader, OpenFails, NewHeader, Running, history
<1>3. CASE Allocate
  <2>1. UNCHANGED <<file.head, file.length, file.num, head, length, num, read, last, stop>> /\ pc' = "idle"
    BY <1>3, Fields DEF Allocate, OpenFails, queueVars, history
  <2>2. file.head = 0 /\ file.length = 0 /\ head = 0 /\ length = 0 /\ file.num \in Nat
    BY <1>3, Fields DEF Allocate, OpenInv
  <2>3. \A s \in Slots : ~InHeader(s)'
    BY <2>1, <2>2, EmptyWindow DEF InHeader
  <2> QED
    BY <2>1, <2>2, <2>3
<1>4. CASE CheckFile
  <2>1. UNCHANGED <<file, read, last, stop>> /\ pc' # "append"
    BY <1>4 DEF CheckFile, CloseFound, OpenFails, history
  <2>2. Running' => num' = file.num /\ head' = file.head /\ length' = file.length
    BY <1>4 DEF CheckFile, CloseFound, OpenFails, Running
  <2> QED
    BY <2>1, <2>2, HeaderWindow
<1>5. CASE ResizeCopy
  BY <1>5, HeaderWindow DEF ResizeCopy, Running, history
<1>6. CASE ResizeRename
  <2>1. /\ UNCHANGED <<read, last, stop, head, length>> /\ file.state = "ready" /\ pc' # "append"
        /\ file'.head = head /\ file'.length = length
    BY <1>6 DEF ResizeRename, CloseFound, ResizeInv, OpenInv, queueVars, history
  <2>2. \A s \in Slots : s < length => last <= file'.entry[s]
    BY <1>6, <2>1, RenameWindow
  <2> QED
    BY <1>6, <2>1, <2>2, RenameWindow
<1>7. CASE AppendFull
  BY <1>7, Fields, HeaderWindow DEF AppendFull, Running, queueVars, history, HistTypes, TypeOK
<1>8. CASE AppendEntry
  <2> DEFINE k == (head + length) % num
  <2>1. /\ k \in Slots /\ ~InQueue(k) /\ UNCHANGED <<head, num, last>> /\ read' = read + 1
        /\ UNCHANGED <<file.state, file.num, file.head, file.length>> /\ pc = "idle"
    BY <1>8, EntryWritten DEF AppendEntry
  <2>2. \A s : InHeader(s) <=> InQueue(s)
    BY <2>1, SyncedWindow DEF Running, OpenInv
  <2>3. \A s \in Slots : InHeader(s) => file'.entry[s] = file.entry[s]
    BY <1>8, <2>1, <2>2, EntryWritten, Fields
  <2>4. last <= read + 1 /\ \A s : InHeader(s)' <=> InHeader(s)
    BY <2>1, Fields, HeaderWindow DEF HistTypes, TypeOK
  <2>5. memory[k] = NULL /\ stop = "run"
    BY <2>1 DEF LossInv, SpareInv, Running
  <2>6. stop' = "run" /\ length' = length + 1 /\ pc' = "append" /\ length \in Nat
    BY <1>8, <2>5, Fields DEF AppendEntry
  <2> QED
    BY <2>1, <2>3, <2>4, <2>6 DEF Running
<1>9. CASE AppendSync
  <2>1. /\ UNCHANGED <<head, length, num, read, last, stop>> /\ pc = "append" /\ pc' = "idle"
        /\ length \in Nat /\ num \in Nat \ {0} /\ head \in 0 .. num - 1 /\ length \in 1 .. num
    BY <1>9, Fields, RingTypes DEF AppendSync, queueVars, OpenInv
  <2>2. /\ UNCHANGED <<file.state, file.num, file.entry>> /\ file.num = num
        /\ file'.head = head /\ file'.length = length
        /\ file.head = head /\ file.length = length - 1
    BY <1>9, <2>1, HeaderEffect DEF Running
  <2>3. ASSUME NEW s \in Slots, InHeader(s)' PROVE last <= file.entry[s]
    <3>1. s \in 0 .. num - 1 /\ Offset(s, head, num) < length
      BY <2>1, <2>2, <2>3 DEF InHeader, InWindow
    <3>2. CASE Offset(s, head, num) < length - 1
      BY <1>9, <2>1, <2>2, <3>1, <3>2 DEF InHeader, InWindow, AppendSync, OpenInv, Running
    <3>3. CASE Offset(s, head, num) = length - 1
      <4>1. (head + Offset(s, head, num)) % num = s
        BY <2>1, <3>1, OffsetOf
      <4>2. head + (length - 1) = head + length - 1
        BY <2>1
      <4>3. file.entry[s] = read
        BY <2>1, <3>3, <4>1, <4>2 DEF LossInv, StepInv
      <4> QED
        BY <4>3
    <3>4. Offset(s, head, num) \in Int
      BY <2>1, OffsetType
    <3> QED
      BY <2>1, <3>1, <3>2, <3>3, <3>4
  <2> QED
    BY <2>1, <2>2, <2>3
<1>10. CASE Send
  <2>1. /\ UNCHANGED <<file, head, length, num, read>> /\ pc = "idle" /\ pc' = "drop" /\ stop' = "run"
        /\ length > 0
    BY <1>10 DEF Send, Draining
  <2>2. head \in Slots /\ \A s \in Slots : InHeader(s) => file.entry[head] <= file.entry[s]
    BY <2>1, HeadIsOldest DEF Sound
  <2>3. last' = file.entry[head]
    BY <1>10, <2>2 DEF Send, LossInv, CopyInv, Running
  <2>4. last' <= read
    BY <2>2, <2>3 DEF OrderInv
  <2> QED
    BY <2>1, <2>2, <2>3, <2>4, HeaderWindow DEF Running
<1>11. CASE PeekFails
  BY <1>11 DEF PeekFails, IOFails
<1>12. CASE DropHead
  <2>1. /\ UNCHANGED <<num, read, last, stop>> /\ pc = "drop" /\ pc' = "idle"
    BY <1>12 DEF DropHead, history
  <2>2. /\ UNCHANGED <<file.state, file.num, file.entry>> /\ file.num = num
        /\ file'.head = head' /\ file'.length = length'
    BY <1>12, HeaderEffect
  <2>3. \A s \in Slots : InHeader(s)' => InQueue(s)
    <3>1. \A s \in Slots : InHeader(s)' <=> InQueue(s)'
      BY <2>1, <2>2 DEF InHeader, InQueue
    <3> QED
      BY <1>12, <3>1, DropWindow
  <2>4. \A s : InQueue(s) <=> InHeader(s)
    BY <2>1, <2>2, SyncedWindow DEF Running
  <2> QED
    BY <2>1, <2>2, <2>3, <2>4 DEF OpenInv, Running
<1>13. CASE UNCHANGED <<file, head, length, num, read, last, stop>> /\ (pc' = pc \/ ~Running')
  BY <1>13, HeaderWindow DEF Running
<1> QED
  BY <1>1, <1>2, <1>3, <1>4, <1>5, <1>6, <1>7, <1>8, <1>9, <1>10, <1>11, <1>12, <1>13 DEF
    Next, vars, ResizeOverrun, ResizeFails, CloseFound, Exit, OpenFails, queueVars, Running, history

(* The whole invariant holds at the start. *)
LEMMA InitInv == Init => Inv
  BY InitTypeInv, InitLossInv, InitOrderInv DEF Inv

(* The whole invariant is inductive. *)
LEMMA StepInvariant == Inv /\ [Next]_vars => Inv'
<1> SUFFICES ASSUME Inv, [Next]_vars PROVE Inv'
  OBVIOUS
<1>1. TypeInv' /\ LossInv'
  BY StepTypeInv, StepCopyInv, StepSpareInv, StepStepInv, StepKept DEF Inv, LossInv
<1>2. (Trusted => OrderInv)'
  BY StepOrderInv, SameEnvironment DEF Inv
<1>3. (~IOFails => HealthyInv)'
  BY StepHealthyInv, SameEnvironment DEF Inv, Sound, Trusted
<1> QED
  BY <1>1, <1>2, <1>3 DEF Inv

(* The whole invariant holds in every behaviour. *)
LEMMA InvHolds == Spec => []Inv
  BY InitInv, StepInvariant, PTL DEF Spec

(* While no access fails events are relayed in the order they were read, and after a     *)
(* restart only the one relayed last may be relayed again.                               *)
THEOREM RelayOrderHolds == Spec => RelayOrder
<1>1. Inv /\ [Next]_vars => [IOFails \/ last' >= last]_vars
  <2> SUFFICES ASSUME Inv, Next, ~IOFails PROVE last' >= last
    BY DEF vars
  <2>1. Sound /\ last \in Int
    BY Bounds DEF Inv, Sound, Trusted, TypeInv, TypeOK, HistTypes
  <2>2. CASE Send
    <3>1. head \in Slots /\ InHeader(head) /\ pc = "idle"
      BY <2>1, <2>2, HeadIsOldest DEF Send
    <3>2. last' = file.entry[head]
      BY <2>1, <2>2, <3>1 DEF Send, Sound, LossInv, CopyInv, Running
    <3>3. last <= file.entry[head] /\ file.entry[head] \in Int
      BY <2>1, <3>1, Fields DEF Sound, HealthyInv, TypeInv, OpenInv, Running
    <3> QED
      BY <2>1, <3>2, <3>3
  <2>3. CASE last' = last
    BY <2>1, <2>3
  <2> QED
    BY <2>2, <2>3 DEF Next, Open, WriteHeader, Allocate, CheckFile, ResizeCopy, ResizeOverrun, ResizeFails, CloseFound,
      ResizeRename, AppendFull, AppendEntry, AppendSync, PeekFails, DropHead, Exit, OpenFails, history
<1> QED
  BY <1>1, InvHolds, PTL DEF Spec, RelayOrder

-----------------------------------------------------------------------------
(* The file implements a durable FIFO queue                                *)

(* What the refinement mapping makes of a state. *)
Queued == IF file.state = "ready" /\ ~IOFails THEN Contents(file) ELSE << >>

(* The contents of a file as a sequence. *)
LEMMA ContentsSeq ==
  ASSUME NEW f, f.length \in Nat, f.num \in Depths, f.head \in Nat,
         f.entry \in [Slots -> 0 .. MaxEvents]
  PROVE  /\ Contents(f) \in Seq(0 .. MaxEvents) /\ Len(Contents(f)) = f.length
         /\ \A k \in 1 .. f.length : Contents(f)[k] = f.entry[(f.head + k - 1) % f.num]
<1>1. ASSUME NEW k \in 1 .. f.length PROVE f.entry[(f.head + k - 1) % f.num] \in 0 .. MaxEvents
  <2>1. f.num \in Nat \ {0}
    BY SlotsOfDepth
  <2>2. (f.head + k - 1) % f.num \in 0 .. f.num - 1
    BY <2>1
  <2> QED
    BY <2>2, SlotsOfDepth
<1>2. Contents(f) \in [1 .. f.length -> 0 .. MaxEvents]
  BY <1>1 DEF Contents
<1>3. Contents(f) \in Seq(0 .. MaxEvents)
  BY <1>2, SeqDef
<1>4. Len(Contents(f)) = f.length
  BY <1>2, <1>3, LenProperties
<1> QED
  BY <1>3, <1>4 DEF Contents

(* Files with the same entries in their windows hold the same. *)
LEMMA SameContents ==
  ASSUME NEW f, NEW g, f.length = g.length,
         \A k \in 1 .. f.length : f.entry[(f.head + k - 1) % f.num] = g.entry[(g.head + k - 1) % g.num]
  PROVE  Contents(f) = Contents(g)
  BY DEF Contents

(* The k-th element of the contents lies in the window of the header. *)
LEMMA HeaderSlot ==
  ASSUME TypeInv, file.state = "ready", NEW k \in 1 .. file.length
  PROVE  LET s == (file.head + k - 1) % file.num
         IN  /\ s \in Slots /\ InHeader(s) /\ Offset(s, file.head, file.num) = k - 1
             /\ file.head + k - 1 \in Nat
<1> DEFINE s == (file.head + k - 1) % file.num
<1>1. /\ file.num \in Depths /\ file.num \in Nat \ {0} /\ file.head \in 0 .. file.num - 1
      /\ file.length \in Nat /\ k - 1 \in 0 .. file.num - 1
      /\ file.head + k - 1 = file.head + (k - 1)
  BY RingTypes
<1>2. s \in 0 .. file.num - 1 /\ Offset(s, file.head, file.num) = k - 1
  BY <1>1, SlotOf
<1> QED
  BY <1>1, <1>2, SlotsOfDepth DEF InHeader, InWindow

(* The files of a state and of the next one as sequences. *)
LEMMA FileSeq ==
  ASSUME TypeInv, file.state = "ready"
  PROVE  /\ Contents(file) \in Seq(0 .. MaxEvents) /\ Len(Contents(file)) = file.length
         /\ \A k \in 1 .. file.length : Contents(file)[k] = file.entry[(file.head + k - 1) % file.num]
  BY Fields, RingTypes, ContentsSeq

(* q_append puts its event behind all others. *)
LEMMA SyncPuts ==
  ASSUME Sound, TypeInv', AppendSync
  PROVE  /\ Len(Contents(file)) < MaxDepth /\ read \in Events
         /\ Contents(file') = Append(Contents(file), read)
<1>1. /\ UNCHANGED <<head, length, num, read>> /\ pc = "append"
      /\ num \in Depths /\ num \in Nat \ {0} /\ length \in 1 .. num /\ head \in 0 .. num - 1
  BY RingTypes DEF AppendSync, queueVars, Sound, TypeInv, OpenInv
<1>2. /\ UNCHANGED <<file.state, file.num, file.entry>> /\ file.num = num /\ file.state = "ready"
      /\ file'.head = head /\ file'.length = length
      /\ file.head = head /\ file.length = length - 1
  BY <1>1, HeaderEffect DEF Sound, HealthyInv, Running
<1>3. read \in Events /\ read \in 0 .. MaxEvents
  BY <1>1, Bounds DEF Sound, TypeInv, OpenInv, TypeOK, ControlTypes, Events
<1>4. /\ Contents(file) \in Seq(0 .. MaxEvents) /\ Len(Contents(file)) = length - 1
      /\ \A k \in 1 .. length - 1 : Contents(file)[k] = file.entry[(head + k - 1) % num]
  BY <1>2, FileSeq DEF Sound
<1>5. /\ Contents(file') \in Seq(0 .. MaxEvents) /\ Len(Contents(file')) = length
      /\ \A k \in 1 .. length : Contents(file')[k] = file.entry[(head + k - 1) % num]
  <2>1. file'.entry \in [Slots -> 0 .. MaxEvents] /\ file'.head \in Nat /\ file'.length \in Nat
    BY <1>1, <1>2, Fields DEF Sound
  <2> QED
    BY <1>1, <1>2, <2>1, ContentsSeq
<1>6. file.entry[(head + length - 1) % num] = read
  BY <1>1 DEF Sound, LossInv, StepInv
<1> DEFINE a == Append(Contents(file), read)
<1>7. /\ a \in Seq(0 .. MaxEvents) /\ Len(a) = length
      /\ \A k \in 1 .. length - 1 : a[k] = Contents(file)[k]
      /\ a[length] = read
  BY <1>1, <1>3, <1>4, AppendProperties
<1>8. ASSUME NEW k \in 1 .. length PROVE Contents(file')[k] = a[k]
  <2>1. CASE k = length
    BY <1>5, <1>6, <1>7, <2>1
  <2>2. CASE k \in 1 .. length - 1
    BY <1>4, <1>5, <1>7, <2>2
  <2>3. k = length \/ k \in 1 .. length - 1
    BY <1>1
  <2> QED
    BY <2>1, <2>2, <2>3
<1>9. Contents(file') = a
  BY <1>5, <1>7, <1>8, SeqEqual
<1>10. length - 1 < MaxDepth
  BY <1>1, MaxDepthIsDepth
<1> QED
  BY <1>3, <1>4, <1>9, <1>10

(* q_drop_head takes the oldest. *)
LEMMA DropTakes ==
  ASSUME Sound, TypeInv', DropHead
  PROVE  Contents(file) # << >> /\ Contents(file') = Tail(Contents(file))
<1>1. /\ UNCHANGED num /\ pc = "drop" /\ head' = NextHead /\ length' = length - 1
      /\ num \in Depths /\ num \in Nat \ {0} /\ length \in 1 .. num /\ head \in 0 .. num - 1
  BY RingTypes DEF DropHead, Sound, TypeInv, OpenInv
<1>2. /\ UNCHANGED <<file.state, file.num, file.entry>> /\ file.num = num /\ file.state = "ready"
      /\ file'.head = NextHead /\ file'.length = length - 1
      /\ file.head = head /\ file.length = length
  BY <1>1, HeaderEffect DEF Sound, HealthyInv, Running
<1>3. /\ Contents(file) \in Seq(0 .. MaxEvents) /\ Len(Contents(file)) = length
      /\ \A k \in 1 .. length : Contents(file)[k] = file.entry[(head + k - 1) % num]
  BY <1>2, FileSeq DEF Sound
<1>4. /\ Contents(file') \in Seq(0 .. MaxEvents) /\ Len(Contents(file')) = length - 1
      /\ \A k \in 1 .. length - 1 : Contents(file')[k] = file.entry[(NextHead + k - 1) % num]
  <2>1. file'.entry \in [Slots -> 0 .. MaxEvents] /\ file'.head \in Nat /\ length - 1 \in Nat
    BY <1>1, <1>2, Fields, NextHeadType DEF Sound
  <2> QED
    BY <1>1, <1>2, <2>1, ContentsSeq
<1>5. Contents(file) # << >>
  BY <1>1, <1>3
<1>6. /\ Tail(Contents(file)) \in Seq(0 .. MaxEvents) /\ Len(Tail(Contents(file))) = length - 1
      /\ \A k \in 1 .. length - 1 : Tail(Contents(file))[k] = Contents(file)[k + 1]
  BY <1>1, <1>3, <1>5, HeadTailProperties
<1>7. ASSUME NEW k \in 1 .. length - 1
      PROVE  (NextHead + k - 1) % num = (head + (k + 1) - 1) % num
  <2>1. k \in 0 .. num - 1 /\ k - 1 \in 0 .. num - 1 /\ head + (k + 1) - 1 = head + k
    BY <1>1
  <2>2. NextHead \in 0 .. num - 1 /\ NextHead + k - 1 = NextHead + (k - 1)
    BY <1>1, <2>1 DEF NextHead
  <2>3. (head + k) % num = IF head + k < num THEN head + k ELSE head + k - num
    BY <1>1, <2>1, SlotOf
  <2>4. (NextHead + (k - 1)) % num =
          IF NextHead + (k - 1) < num THEN NextHead + (k - 1) ELSE NextHead + (k - 1) - num
    BY <1>1, <2>1, <2>2, SlotOf
  <2> QED
    BY <1>1, <2>1, <2>2, <2>3, <2>4 DEF NextHead
<1>8. ASSUME NEW k \in 1 .. length - 1 PROVE Contents(file')[k] = Tail(Contents(file))[k]
  <2>1. k + 1 \in 1 .. length
    BY <1>1
  <2>2. Contents(file)[k + 1] = file.entry[(head + (k + 1) - 1) % num]
    BY <1>3, <2>1
  <2> QED
    BY <1>4, <1>6, <1>7, <2>2
<1>9. Contents(file') = Tail(Contents(file))
  BY <1>1, <1>4, <1>6, <1>8, SeqEqual
<1> QED
  BY <1>5, <1>9

(* Every other step leaves what is queued as it is. *)
LEMMA OthersKeep ==
  ASSUME Sound, TypeInv', Next, ~AppendSync, ~DropHead
  PROVE  Queued' = Queued
<1> USE DEF Sound
<1>0. IOFails' <=> IOFails
  BY SameEnvironment
<1>1. CASE file' = file
  BY <1>0, <1>1 DEF Queued
<1>2. CASE Open
  <2>1. /\ UNCHANGED <<file.entry, file.head, file.length, file.num>>
        /\ file'.state = "ready" <=> file.state = "ready"
    BY <1>2, Fields DEF Open
  <2>2. Contents(file') = Contents(file)
    BY <2>1, SameContents
  <2> QED
    BY <1>0, <2>1, <2>2 DEF Queued
<1>3. CASE WriteHeader
  <2>1. file.state # "ready" /\ (file' = file \/ file'.state # "ready")
    BY <1>3 DEF WriteHeader, OpenFails, NewHeader, TypeInv, OpenInv
  <2> QED
    BY <1>0, <2>1 DEF Queued
<1>4. CASE Allocate
  <2>1. file.state # "ready" /\ file.length = 0 /\ (file' = file \/ file'.length = 0)
    BY <1>4, Fields DEF Allocate, OpenFails, TypeInv, OpenInv
  <2>2. file'.length = 0 => Contents(file') = << >>
    BY DEF Contents
  <2> QED
    BY <1>0, <2>1, <2>2 DEF Queued
<1>5. CASE ResizeRename
  <2>1. /\ file' = tmp /\ tmp.state = "ready" /\ tmp.num = num /\ tmp.head = 0 /\ tmp.length = length
        /\ length = file.length /\ num \in Nat \ {0} /\ length \in 0 .. num /\ file.state = "ready"
    BY <1>5, RingTypes DEF ResizeRename, CloseFound, TypeInv, ResizeInv, OpenInv
  <2>2. \A j \in 0 .. length - 1 : tmp.entry[j] = file.entry[(file.head + j) % file.num]
    BY <1>5 DEF ResizeRename, CloseFound, TypeInv, ResizeInv
  <2>3. ASSUME NEW k \in 1 .. length
        PROVE  tmp.entry[(tmp.head + k - 1) % tmp.num] = file.entry[(file.head + k - 1) % file.num]
    <3>1. k - 1 \in 0 .. length - 1 /\ file.head + (k - 1) = file.head + k - 1 /\ 0 + k - 1 = k - 1
      BY <2>1, Fields
    <3>2. (k - 1) % num = k - 1
      BY <2>1
    <3> QED
      BY <2>1, <2>2, <3>1, <3>2
  <2>4. Contents(tmp) = Contents(file)
    BY <2>1, <2>3, SameContents
  <2> QED
    BY <1>0, <2>1, <2>4 DEF Queued
<1>6. CASE AppendEntry
  <2>1. pc = "idle" /\ file.state = "ready" /\ file.num = num /\ file.head = head /\ file.length = length
    BY <1>6 DEF AppendEntry, HealthyInv, Running, TypeInv, OpenInv
  <2>2. ASSUME NEW k \in 1 .. file.length
        PROVE  file'.entry[(file.head + k - 1) % file.num] = file.entry[(file.head + k - 1) % file.num]
    <3>1. (file.head + k - 1) % file.num \in Slots /\ InQueue((file.head + k - 1) % file.num)
      BY <2>1, HeaderSlot, SyncedWindow
    <3> QED
      BY <1>6, <3>1, EntryWritten, Fields
  <2>3. UNCHANGED <<file.state, file.num, file.head, file.length>>
    BY <1>6, EntryWritten
  <2>4. Contents(file') = Contents(file)
    BY <2>2, <2>3, SameContents
  <2> QED
    BY <1>0, <2>3, <2>4 DEF Queued
<1> QED
  BY <1>1, <1>2, <1>3, <1>4, <1>5, <1>6
  DEF Next, CheckFile, ResizeCopy, ResizeOverrun, ResizeFails, CloseFound, AppendFull, Send, PeekFails, Exit, OpenFails

(* On a healthy disk the file is a FIFO queue that outlives the process: every step of   *)
(* the plugin, of an end of the process and of a restart with another depth is a Put, a  *)
(* Take or nothing at all for what the file holds.                                       *)
THEOREM DurableFifo == Spec => ImplementsDurableFifo
<1>1. Init => Fifo!Init
  BY DEF Init, Fifo!Init, NoFile
<1>2. Inv /\ Inv' /\ [Next]_vars => [Fifo!Put \/ Fifo!Take]_Queued
  <2> SUFFICES ASSUME Inv, Inv', [Next]_vars, Queued' # Queued
               PROVE  Fifo!Put \/ Fifo!Take
    OBVIOUS
  <2>0. IOFails' <=> IOFails
    BY SameEnvironment
  <2>1. ~IOFails
    BY <2>0 DEF Queued
  <2>2. Sound /\ TypeInv'
    BY <2>1 DEF Inv, Sound, Trusted
  <2>3. Next
    BY <2>0 DEF vars, Queued
  <2>4. AppendSync \/ DropHead
    BY <2>2, <2>3, OthersKeep
  <2>5. file.state = "ready" /\ file'.state = "ready"
    BY <2>2, <2>4, HeaderEffect DEF Sound
  <2>6. CASE AppendSync
    BY <2>0, <2>1, <2>2, <2>5, <2>6, SyncPuts DEF Fifo!Put
  <2>7. CASE DropHead
    BY <2>0, <2>1, <2>2, <2>5, <2>7, DropTakes DEF Fifo!Take
  <2> QED
    BY <2>4, <2>6, <2>7
<1>3. [Fifo!Put \/ Fifo!Take]_Queued => [Fifo!Put \/ Fifo!Take]_(
          IF file.state = "ready" /\ ~IOFails THEN Contents(file) ELSE << >>)
  BY DEF Queued
<1> QED
  BY <1>1, <1>2, <1>3, InvHolds, PTL DEF Spec, ImplementsDurableFifo, Fifo!DurableSpec

=============================================================================
