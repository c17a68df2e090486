---------------------------- MODULE RemoteQueue ----------------------------
(***************************************************************************)
(* The queue file of audisp-remote (mode = forward): queue.c of the plugin *)
(* and its use by main and send_one of audisp-remote.c.  The process may   *)
(* end at any moment, also between the write of an entry and the write of  *)
(* the header, and is started again on the file it left, possibly with     *)
(* another queue_depth.  A read or write of the file may fail (not with    *)
(* ENOSPC: its blocks are allocated).                                      *)
(*                                                                         *)
(* Writes reach the file in the order they are made (no Q_SYNC: the plugin *)
(* does not set it, and a crash here is one of the process).  Events are   *)
(* numbered in the order they are read from auditd.  What the network does *)
(* is left to another module: an event is relayed, or it stays queued.     *)
(*                                                                         *)
(* q_open allocates the array of copies for the queue_depth it is given    *)
(* and then takes num_entries from the file.  If queue_depth was lowered,  *)
(* q_peek, q_drop_head_memory_only and q_close use the array beyond its    *)
(* end, which is undefined: what they find there may be 0, and all goes    *)
(* well, or the behaviour ends in the state "undefined".                   *)
(***************************************************************************)
EXTENDS Integers, Sequences

CONSTANTS
  Depths,       \* the values of queue_depth an administrator may choose
  MaxEvents,    \* bound: number of events read
  MaxCrashes,   \* bound: number of times the process ends
  Disks,        \* subset of {"healthy", "failing"}: may file accesses fail?
  ErrorActions  \* queue_error_action, subset of {"stop", "go on"}: stop is the default

ASSUME DepthsAssumption ==
  Depths \subseteq Nat \ {0} /\ \E m \in Depths : \A n \in Depths : n <= m
ASSUME BoundsAssumption ==
  /\ MaxEvents \in Nat /\ MaxCrashes \in Nat
  /\ Disks \subseteq {"healthy", "failing"} /\ ErrorActions \subseteq {"stop", "go on"}

MaxDepth == CHOOSE m \in Depths : \A n \in Depths : n <= m
Slots == 0 .. MaxDepth - 1
Events == 1 .. MaxEvents
NULL == 0

VARIABLES
  env,       \* the disk and the queue_error_action of this behaviour
  file,      \* the queue file: state ("none", "empty": created, "header": header
             \* written, "ready": allocated), num_entries, queue_head,
             \* queue_length of the header, and the entries
  tmp,       \* the file a resize is building, or NoFile
  pc,        \* where the plugin is; "down" when it does not run, "undefined" when C
             \* no longer says what it does
  depth,     \* config.queue_depth
  num, head, length,  \* num_entries, queue_head, queue_length of struct queue
  memory,    \* copies of the entries, NULL where not known
  read,      \* number of events read from auditd
  stop,      \* "run"; "stop": queue_error has set it, but lines already read are
             \* still queued; "flush": main has left its loop and empties the queue
  crashes,   \* number of times the process ended
  accepted,  \* history: events for which q_append returned 0
  sent,      \* history: events relayed
  last       \* history: the event relayed last

queueVars == <<num, head, length, memory>>
history == <<accepted, sent, last>>
vars == <<env, file, tmp, pc, depth, queueVars, read, stop, crashes, history>>

IOFails == env.disk = "failing"
StopOnError == env.action = "stop"

NoEntries == [k \in Slots |-> NULL]
NoFile == [state |-> "none", num |-> 0, head |-> 0, length |-> 0, entry |-> NoEntries]
NewHeader(n) == [state |-> "header", num |-> n, head |-> 0, length |-> 0, entry |-> NoEntries]

\* What a file holds, oldest first
Contents(f) == [k \in 1 .. f.length |-> f.entry[(f.head + k - 1) % f.num]]

\* the entries of a file in use
Held(f) == {f.entry[(f.head + k) % f.num] : k \in 0 .. f.length - 1}

Init ==
  /\ env \in [disk : Disks, action : ErrorActions]
  /\ file = NoFile /\ tmp = NoFile
  /\ pc = "down"
  /\ depth \in Depths
  /\ num = 0 /\ head = 0 /\ length = 0 /\ memory = NoEntries
  /\ read = 0 /\ stop = "run" /\ crashes = 0
  /\ accepted = {} /\ sent = {} /\ last = 0

-----------------------------------------------------------------------------
(* q_open                                                                  *)

\* open(2) with O_CREAT; the queue starts empty and its memory has queue_depth
\* places.  An existing file goes to its checks, a new one gets its header.
Open ==
  /\ pc = "down"
  /\ depth' \in Depths
  /\ file' = IF file.state = "none" THEN [file EXCEPT !.state = "empty"] ELSE file
  /\ pc' = IF file.state \in {"none", "empty"} THEN "create" ELSE "check"
  /\ memory' = NoEntries /\ num' = depth' /\ head' = 0 /\ length' = 0
  /\ stop' = "run" /\ tmp' = NoFile
  /\ UNCHANGED <<env, read, crashes, history>>

\* q_open failed: main returns 1
OpenFails ==
  /\ pc' = "down"
  /\ UNCHANGED <<env, file, tmp, depth, queueVars, read, stop, crashes, history>>

WriteHeader ==
  /\ pc = "create"
  /\ \/ /\ file' = NewHeader(num)
        /\ pc' = "allocate"
        /\ UNCHANGED <<env, tmp, depth, queueVars, read, stop, crashes, history>>
     \/ IOFails /\ OpenFails

\* posix_fallocate gives the file its full size
Allocate ==
  /\ pc = "allocate"
  /\ \/ /\ file' = [file EXCEPT !.state = "ready"]
        /\ pc' = "idle"
        /\ UNCHANGED <<env, tmp, depth, queueVars, read, stop, crashes, history>>
     \/ IOFails /\ OpenFails

\* q_close of the queue found: it frees as many copies as num_entries says, and
\* the array holds depth of them.
CloseFound(next) ==
  \/ pc' = next
  \/ file.num > depth /\ pc' = "undefined"

\* An existing file: the header cannot be read, or the size is wrong, EINVAL; too
\* many entries for the depth asked for, ENOSPC; another depth, resize.
CheckFile ==
  /\ pc = "check"
  /\ \/ /\ IOFails \/ file.state # "ready"
        /\ OpenFails
     \/ /\ file.state = "ready"
        /\ file.num # depth /\ file.length > depth
        /\ CloseFound("down")
        /\ UNCHANGED <<env, file, tmp, depth, queueVars, read, stop, crashes, history>>
     \/ /\ file.state = "ready"
        /\ file.num = depth \/ file.length <= depth
        /\ num' = file.num /\ head' = file.head /\ length' = file.length
        /\ pc' = IF file.num = depth THEN "idle" ELSE "resize"
        /\ UNCHANGED <<env, file, tmp, depth, memory, read, stop, crashes, history>>

\* the entries in use, oldest first
CopyEntries == [k \in Slots |-> IF k < length THEN file.entry[(head + k) % num] ELSE NULL]

\* mutant: the copy starts at the first slot, not at the head
ResizeCopyFromZero ==
  /\ pc = "resize"
  /\ LET entries == [k \in Slots |-> IF k < length THEN file.entry[k] ELSE NULL]
     IN  /\ tmp' = [state |-> "ready", num |-> depth, head |-> 0, length |-> length,
                    entry |-> entries]
         /\ memory' = entries
  /\ num' = depth /\ head' = 0
  /\ pc' = "rename"
  /\ UNCHANGED <<env, file, depth, length, read, stop, crashes, history>>

\* mutant: the header of the new file is not written before the rename
ResizeCopyNoSync ==
  /\ pc = "resize"
  /\ tmp' = [state |-> "ready", num |-> depth, head |-> 0, length |-> 0, entry |-> CopyEntries]
  /\ memory' = CopyEntries
  /\ num' = depth /\ head' = 0
  /\ pc' = "rename"
  /\ UNCHANGED <<env, file, depth, length, read, stop, crashes, history>>

\* The entries are copied into a new file, and into the memory of its queue;
\* its header is written last.
ResizeCopy ==
  /\ pc = "resize"
  /\ tmp' = [state |-> "ready", num |-> depth, head |-> 0, length |-> length, entry |-> CopyEntries]
  /\ memory' = CopyEntries
  /\ num' = depth /\ head' = 0
  /\ pc' = "rename"
  /\ UNCHANGED <<env, file, depth, length, read, stop, crashes, history>>

\* The loop that copies comes to a slot beyond the array of copies
ResizeOverrun ==
  /\ pc = "resize"
  /\ \E k \in 0 .. length - 1 : (head + k) % num >= depth
  /\ pc' = "undefined"
  /\ UNCHANGED <<env, file, tmp, depth, queueVars, read, stop, crashes, history>>

\* The copy, a write or the rename fails: the old file is left as it was
ResizeFails ==
  /\ pc \in {"resize", "rename"} /\ IOFails
  /\ CloseFound("down")
  /\ UNCHANGED <<env, file, tmp, depth, queueVars, read, stop, crashes, history>>

ResizeRename ==
  /\ pc = "rename"
  /\ file' = tmp /\ tmp' = NoFile
  /\ CloseFound("idle")
  /\ UNCHANGED <<env, depth, queueVars, read, stop, crashes, history>>

-----------------------------------------------------------------------------
(* q_append                                                                *)

\* queue_error: the default action stops the plugin, others go on
QueueError == stop' = IF StopOnError /\ stop = "run" THEN "stop" ELSE stop

\* The queue is full: ENOSPC, and the event is dropped (do_overflow_action)
AppendFull ==
  /\ pc = "idle" /\ stop # "flush" /\ read < MaxEvents
  /\ length = num
  /\ read' = read + 1
  /\ UNCHANGED <<env, file, tmp, pc, depth, queueVars, stop, crashes, history>>

\* mutant: the entry after the next is written
AppendEntryOffByOne ==
  /\ pc = "idle" /\ stop # "flush" /\ read < MaxEvents
  /\ length < num
  /\ read' = read + 1
  /\ LET k == (head + length + 1) % num
     IN  /\ file' = [file EXCEPT !.entry[k] = read + 1]
         /\ memory' = [memory EXCEPT ![k] = read + 1]
         /\ length' = length + 1
         /\ pc' = "append"
  /\ UNCHANGED <<env, tmp, depth, num, head, stop, crashes, history>>

\* mutant: the copy is kept at the length of the queue, not at the entry's index
AppendEntryCopyAstray ==
  /\ pc = "idle" /\ stop # "flush" /\ read < MaxEvents
  /\ length < num
  /\ read' = read + 1
  /\ file' = [file EXCEPT !.entry[(head + length) % num] = read + 1]
  /\ memory' = [memory EXCEPT ![length] = read + 1]
  /\ length' = length + 1
  /\ pc' = "append"
  /\ UNCHANGED <<env, tmp, depth, num, head, stop, crashes, history>>

\* The entry is written behind the last one; the header does not know it yet.
AppendEntry ==
  /\ pc = "idle" /\ stop # "flush" /\ read < MaxEvents
  /\ length < num
  /\ read' = read + 1
  /\ LET k == (head + length) % num
     IN  \/ /\ memory[k] = NULL
            /\ file' = [file EXCEPT !.entry[k] = read + 1]
            /\ memory' = [memory EXCEPT ![k] = read + 1]
            /\ length' = length + 1
            /\ pc' = "append"
            /\ UNCHANGED stop
         \/ /\ memory[k] # NULL \/ IOFails
            /\ QueueError
            /\ UNCHANGED <<file, memory, length, pc>>
  /\ UNCHANGED <<env, tmp, depth, num, head, crashes, history>>

\* sync_fh_state
HeaderWritten == file' = [file EXCEPT !.head = head', !.length = length']

\* The header is written: q_append returns 0.  If it cannot be, the entry stays
\* in the queue although q_append reports an error.
AppendSync ==
  /\ pc = "append" /\ pc' = "idle"
  /\ UNCHANGED queueVars
  /\ \/ HeaderWritten /\ accepted' = accepted \cup {read} /\ UNCHANGED stop
     \/ IOFails /\ QueueError /\ UNCHANGED <<file, accepted>>
  /\ UNCHANGED <<env, tmp, depth, read, crashes, sent, last>>

-----------------------------------------------------------------------------
(* send_one                                                                *)

\* Once main has left its loop nothing is read from auditd any more
Draining == stop' = IF stop = "run" THEN "run" ELSE "flush"

\* q_peek: the copy in memory, else the entry in the file (which is then copied,
\* if there is memory for it); the event is relayed.
Send ==
  /\ pc = "idle" /\ length > 0
  /\ LET e == IF memory[head] # NULL THEN memory[head] ELSE file.entry[head]
     IN  /\ last' = e /\ sent' = sent \cup {e}
         /\ \/ memory' = [memory EXCEPT ![head] = e]
            \/ UNCHANGED memory
  /\ pc' = "drop"
  /\ Draining
  /\ UNCHANGED <<env, file, tmp, depth, num, head, length, read, crashes, accepted>>

\* An error while sending: if it stops the plugin, main leaves its loop
SendError == stop' = IF StopOnError THEN "flush" ELSE stop

\* The entry cannot be read: it stays the head of the queue
PeekFails ==
  /\ pc = "idle" /\ length > 0 /\ memory[head] = NULL /\ IOFails
  /\ SendError
  /\ UNCHANGED <<env, file, tmp, pc, depth, queueVars, read, crashes, history>>

\* mutant: the head does not wrap around
NextHeadNoWrap == head + 1

NextHead == IF head + 1 = num THEN 0 ELSE head + 1

\* mutant: the head moves in memory only
DropHeadMemoryOnly ==
  /\ pc = "drop" /\ pc' = "idle"
  /\ memory' = [memory EXCEPT ![head] = NULL]
  /\ head' = NextHead /\ length' = length - 1
  /\ UNCHANGED <<env, file, tmp, depth, num, read, stop, crashes, history>>

\* q_drop_head: the head moves on, in memory and then in the file
DropHead ==
  /\ pc = "drop" /\ pc' = "idle"
  /\ memory' = [memory EXCEPT ![head] = NULL]
  /\ head' = NextHead /\ length' = length - 1
  /\ \/ HeaderWritten /\ UNCHANGED stop
     \/ IOFails /\ SendError /\ UNCHANGED file
  /\ UNCHANGED <<env, tmp, depth, num, read, crashes, history>>

-----------------------------------------------------------------------------

\* The process ends: killed, or at the end of main
Exit ==
  /\ pc \notin {"down", "undefined"} /\ crashes < MaxCrashes
  /\ crashes' = crashes + 1 /\ pc' = "down"
  /\ UNCHANGED <<env, file, tmp, depth, queueVars, read, stop, history>>

Next ==
  \/ Open
  \/ WriteHeader
  \/ Allocate
  \/ CheckFile
  \/ ResizeCopy
  \/ ResizeOverrun
  \/ ResizeFails
  \/ ResizeRename
  \/ AppendFull
  \/ AppendEntry
  \/ AppendSync
  \/ Send
  \/ PeekFails
  \/ DropHead
  \/ Exit

Spec == Init /\ [][Next]_vars

-----------------------------------------------------------------------------
(* Properties                                                              *)

File == [state : {"none", "empty", "header", "ready"}, num : Depths \cup {0}, head : Slots,
         length : 0 .. MaxDepth, entry : [Slots -> 0 .. MaxEvents]]

FileTypes == file \in File /\ tmp \in File

QueueTypes ==
  /\ depth \in Depths
  /\ num \in Depths \cup {0}
  /\ head \in Slots
  /\ length \in 0 .. MaxDepth
  /\ memory \in [Slots -> 0 .. MaxEvents]

ControlTypes ==
  /\ env \in [disk : Disks, action : ErrorActions]
  /\ pc \in {"down", "create", "allocate", "check", "resize", "rename", "idle", "append", "drop",
            "undefined"}
  /\ read \in 0 .. MaxEvents
  /\ stop \in {"run", "stop", "flush"}
  /\ crashes \in 0 .. MaxCrashes

HistTypes ==
  /\ accepted \subseteq 1 .. MaxEvents
  /\ sent \subseteq 1 .. MaxEvents
  /\ last \in 0 .. MaxEvents

\* Type correctness; an event relayed is one that was read, never an empty slot.
TypeOK == FileTypes /\ QueueTypes /\ ControlTypes /\ HistTypes

\* What a restart would find in the file is in the order the events were read,
\* each once, whenever the process ends: on a healthy disk, or if a failed access
\* stops the plugin.
FileInOrder ==
  file.state = "ready" /\ (IOFails => StopOnError) =>
    \A j, k \in 1 .. file.length : j < k => Contents(file)[j] < Contents(file)[k]

\* An event q_append accepted is relayed or in the file: no end of the process,
\* resize or failed write loses it.
NothingLost ==
  accepted \subseteq sent \cup (IF file.state = "ready" THEN Held(file) ELSE {})

\* While no access fails events are relayed in the order they were read, and after
\* a restart only the one relayed last may be relayed again.
RelayOrder == [][IOFails \/ last' >= last]_vars

\* The copy of a slot in use, where there is one, is the entry of the file, also
\* after appends and drops whose header could not be written: what q_peek
\* returns does not depend on which of the two it finds.
MemoryIsFile ==
  pc \in {"idle", "append", "drop"} =>
    \A k \in 0 .. length - 1 :
      LET s == (head + k) % num IN memory[s] \in {NULL, file.entry[s]}

Fifo == INSTANCE FifoQueue
          WITH Element <- Events, Capacity <- MaxDepth,
               fifo <- IF file.state = "ready" /\ ~IOFails THEN Contents(file) ELSE << >>

\* On a healthy disk the file is a FIFO queue that outlives the process: it changes only when
\* q_append has put an event behind all others or q_drop_head has taken the
\* oldest; opening, resizing and the end of the process change nothing.
ImplementsDurableFifo == Fifo!DurableSpec

=============================================================================
