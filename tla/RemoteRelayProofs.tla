-------------------------- MODULE RemoteRelayProofs --------------------------
(***************************************************************************)
(* Proofs about the relay of audisp-remote.  Every exchange that fails     *)
(* closes its connection, so that the wire in use carries at most the      *)
(* request that waits for an answer or that answer (WireInv).  From this   *)
(* follow that answers match their requests, and, for configurations whose *)
(* actions do not make the plugin go on after an event was refused, that   *)
(* nothing leaves the queue before the server has it, and that the first   *)
(* copies in its log are in order.                                         *)
(***************************************************************************)
EXTENDS RemoteRelay, SequenceTheorems, WellFoundedInduction, TLAPS

PCs == {"top", "select", "check", "read", "drain", "flush", "close", "exit", "try", "send", "recv"}
Callers == {"heartbeat", "drain", "flush"}
Sequence == 0 .. SeqModulus - 1
Message == [type : Answers, seq : Sequence]
Conn == [req : Events \cup {NONE, HEARTBEAT}, rseq : Sequence, answers : Seq(Message),
         state : {"open", "fin", "reset"}]

\* The control state of the plugin
ControlInv ==
  /\ pc \in PCs /\ ready \subseteq {"in", "sock", "out"} /\ caller \in Callers
  /\ tries \in 0 .. MaxTries + 1 /\ seq \in Sequence
  /\ sock \in Conns \cup {NONE} /\ read \in 0 .. MaxEvents
  /\ faults \in 0 .. MaxFaults /\ signals \in 0 .. MaxSignals /\ server \in {"up", "down"}
  /\ pc \in {"send", "recv"} => sock # NONE
  /\ pc = "check" /\ "sock" \in ready => sock # NONE

\* The data it holds
DataInv ==
  /\ conns \in [Conns -> Conn]
  /\ queue \in Seq(Events) /\ Len(queue) <= QueueDepth
  /\ log \in Seq(Events) /\ dequeued \subseteq Events
  /\ pc \in {"try", "send", "recv"} /\ caller # "heartbeat" => queue # <<>>

\* The flags
FlagInv ==
  /\ conf \in Confs /\ warned \subseteq {1, 2}
  /\ stop \in BOOLEAN /\ hup \in BOOLEAN /\ suspend \in BOOLEAN
  /\ remote_ended \in BOOLEAN /\ connected_once \in BOOLEAN

-----------------------------------------------------------------------------
(* The bounds are natural numbers. *)
LEMMA Bounds ==
  /\ MaxTries \in Nat \ {0} /\ QueueDepth \in Nat \ {0} /\ SeqModulus \in Nat \ {0}
  /\ MaxEvents \in Nat /\ MaxConns \in Nat \ {0} /\ MaxFaults \in Nat /\ MaxSignals \in Nat
BY Zenon, RelayAssumption DEF RelayAssumption

(* sequence_id stays below its modulus. *)
LEMMA SeqStep == \A n \in Nat : (n + 1) % SeqModulus \in Sequence
BY Bounds DEF Sequence

(* The sequence numbers start at zero. *)
LEMMA ZeroSeq == 0 \in Sequence
BY Bounds DEF Sequence

(* init_sock takes a connection that carries nothing. *)
LEMMA NewConnIsFree == FreeConns # {} => NewConn \in Conns /\ conns[NewConn].req = NONE
<1> SUFFICES ASSUME FreeConns # {} PROVE NewConn \in FreeConns
  BY DEF FreeConns
<1>1. FreeConns \subseteq Nat /\ FreeConns # {}
  BY Bounds DEF FreeConns, Conns
<1>2. \E c \in FreeConns : \A d \in FreeConns : c <= d
  <2> DEFINE R == OpToRel(<, Nat)
  <2>1. PICK c \in FreeConns : \A d \in FreeConns : ~ (<<d, c>> \in R)
    <3>1. IsWellFoundedOn(R, Nat)
      BY NatLessThanWellFounded
    <3> HIDE DEF R
    <3> QED
      BY <1>1, <3>1, WFMin
  <2>2. \A d \in FreeConns : ~ (d < c)
    BY <1>1, <2>1 DEF OpToRel
  <2> QED
    BY <1>1, <2>2
<1> QED
  BY <1>2 DEF NewConn

(* ConnectForRecord leaves the control state alone, but for the socket and the faults. *)
LEMMA ConnectForRecordControl ==
  ASSUME ControlInv, NEW overflow, ConnectForRecord(overflow)
  PROVE  sock' \in Conns \cup {NONE} /\ server' = server /\ faults' \in 0 .. MaxFaults
<1>1. /\ (UNCHANGED <<sock, network>> \/ Connects \/ ConnectFails)
      /\ (NoFault \/ ConnectFails)
  BY Zenon DEF ConnectForRecord
<1>2. sock' \in Conns \cup {NONE} /\ server' = server
  BY <1>1, NewConnIsFree DEF Connects, ConnectFails, ControlInv, network
<1>3. faults' \in 0 .. MaxFaults
  BY <1>1, Bounds DEF NoFault, Fault, ConnectFails, ControlInv
<1> QED
  BY <1>2, <1>3

(* relay_event returns to the loop that called it. *)
LEMMA ReturnControl ==
  ASSUME ControlInv, NEW done, Return(done)
  PROVE  /\ pc' \in {"top", "drain", "flush"} /\ pc' \in PCs /\ caller' \in Callers
         /\ tries' \in 0 .. MaxTries + 1 /\ seq' = seq /\ read' = read
<1>1. /\ caller' = "drain" /\ tries' = 0 /\ UNCHANGED <<seq, read>>
      /\ (caller = "heartbeat" /\ pc' = "top") \/ (caller # "heartbeat" /\ pc' = caller)
  BY Zenon DEF Return
<1> QED
  BY <1>1, Bounds DEF ControlInv, Callers, PCs

(* Every action keeps the control state *)
LEMMA ControlStep == ControlInv /\ [Next]_vars => ControlInv'
<1> SUFFICES ASSUME ControlInv, [Next]_vars PROVE ControlInv'
  OBVIOUS
<1>1. CASE Top
  BY <1>1, Bounds, SeqStep, ZeroSeq, NewConnIsFree DEF ControlInv, PCs, Callers, Top, stop_sock, relay, network
<1>2. CASE SelectInput
  BY <1>2, Bounds, SeqStep, ZeroSeq, NewConnIsFree DEF ControlInv, PCs, Callers, SelectInput, SelectReady, SockReadable, relay, network
<1>3. CASE SelectSocket
  BY <1>3, Bounds, SeqStep, ZeroSeq, NewConnIsFree DEF ControlInv, PCs, Callers, SelectSocket, SelectReady, SockReadable, relay, network
<1>4. CASE SelectTimeout
  <2>1. /\ pc = "select" /\ UNCHANGED <<ready, sock, read, server, faults, signals>>
        /\ \/ RelayEvent("heartbeat")
           \/ pc' = "top" /\ UNCHANGED relay
    BY Zenon, <1>4 DEF SelectTimeout, network
  <2> QED
    BY <2>1, Bounds, SeqStep DEF ControlInv, PCs, Callers, RelayEvent, relay, Sequence
<1>5. CASE CheckMessage
  <2>1. pc' \in {"top", "read", "drain"} /\ ready' \subseteq ready
    BY <1>5 DEF CheckMessage
  <2>2. sock' \in {sock, NONE} /\ server' = server
    BY Zenon, <1>5 DEF CheckMessage, stop_sock, TakeAnswer, network
  <2>3. UNCHANGED <<relay, read, faults, signals>>
    BY Zenon, <1>5 DEF CheckMessage
  <2> QED
    BY <2>1, <2>2, <2>3, Bounds DEF ControlInv, PCs, Callers, relay
<1>6. CASE ReadEvent
  <2>1. PICK overflow : ConnectForRecord(overflow)
    BY Zenon, <1>6 DEF ReadEvent
  <2>2. sock' \in Conns \cup {NONE} /\ server' = server /\ faults' \in 0 .. MaxFaults
    BY <2>1, ConnectForRecordControl
  <2>3. pc' \in {"read", "drain"} /\ UNCHANGED <<ready, relay, signals>> /\ read' \in 0 .. MaxEvents
    BY <1>6, Bounds DEF ReadEvent, ControlInv
  <2> QED
    BY <2>2, <2>3 DEF ControlInv, PCs, Callers, relay
<1>7. CASE ReadEOE
  <2>1. PICK overflow : ConnectForRecord(overflow)
    BY Zenon, <1>7 DEF ReadEOE
  <2>2. sock' \in Conns \cup {NONE} /\ server' = server /\ faults' \in 0 .. MaxFaults
    BY <2>1, ConnectForRecordControl
  <2>3. pc' \in {"read", "drain"} /\ UNCHANGED <<ready, relay, signals>> /\ read' \in 0 .. MaxEvents
    BY <1>7, Bounds DEF ReadEOE, ControlInv
  <2> QED
    BY <2>2, <2>3 DEF ControlInv, PCs, Callers, relay
<1>8. CASE ReadEof
  BY <1>8, Bounds, SeqStep, ZeroSeq, NewConnIsFree DEF ControlInv, PCs, Callers, ReadEof, relay, network
<1>9. CASE Drain
  <2>1. /\ UNCHANGED <<sock, read, server, faults, signals>> /\ ready' \in {ready, {}}
        /\ (RelayEvent("drain") \/ (pc' = "top" /\ UNCHANGED relay))
    BY Zenon, <1>9 DEF Drain, network
  <2> QED
    BY <2>1, Bounds, SeqStep DEF ControlInv, PCs, Callers, RelayEvent, relay, Sequence
<1>10. CASE Flush
  <2>1. /\ UNCHANGED <<ready, sock, read, server, faults, signals>>
        /\ (RelayEvent("flush") \/ (pc' = "close" /\ UNCHANGED relay))
    BY Zenon, <1>10 DEF Flush, network
  <2> QED
    BY <2>1, Bounds, SeqStep DEF ControlInv, PCs, Callers, RelayEvent, relay, Sequence
<1>27. CASE CloseSock
  <2>1. /\ UNCHANGED <<ready, relay, read, server, faults, signals>>
        /\ pc' = "exit" /\ sock' = NONE
    BY Zenon, <1>27 DEF CloseSock, stop_sock
  <2> QED
    BY <2>1 DEF ControlInv, PCs, relay
<1>11. CASE GiveUp
  <2>1. /\ Return(FALSE) /\ UNCHANGED <<ready, sock, network, faults, signals>>
    BY Zenon, <1>11 DEF GiveUp
  <2> QED
    BY <2>1, ReturnControl DEF ControlInv, network
<1>12. CASE Try
  <2>1. /\ tries <= MaxTries /\ tries' = tries + 1
        /\ UNCHANGED <<ready, caller, seq, read, signals>>
        /\ \/ sock # NONE /\ pc' = "send" /\ NoFault /\ UNCHANGED <<sock, network>>
           \/ Connects /\ pc' = "send" /\ NoFault
           \/ ConnectFails /\ pc' = "try"
    BY Zenon, <1>12 DEF Try
  <2>2. sock' \in Conns \cup {NONE} /\ server' = server /\ (pc' = "send" => sock' # NONE) /\ pc' \in {"try", "send"}
    BY <2>1, NewConnIsFree, Bounds DEF Connects, ConnectFails, ControlInv, network, Conns, NONE
  <2>3. faults' \in 0 .. MaxFaults
    BY <2>1, Bounds DEF NoFault, Fault, ConnectFails, ControlInv
  <2> QED
    BY <2>1, <2>2, <2>3, Bounds DEF ControlInv, PCs
<1>13. CASE Send
  <2>1. /\ UNCHANGED <<ready, relay, read, server, faults, signals>>
        /\ (pc' = "recv" /\ sock' = sock) \/ (pc' = "try" /\ sock' = NONE)
    BY Zenon, <1>13 DEF Send, stop_sock, network
  <2> QED
    BY <1>13, <2>1 DEF Send, ControlInv, PCs, relay
<1>14. CASE NoAnswer
  <2>1. /\ UNCHANGED <<ready, relay, read, server, signals>> /\ pc' = "try" /\ sock' = NONE
    BY Zenon, <1>14 DEF NoAnswer, stop_sock
  <2>2. faults' \in 0 .. MaxFaults
    BY <1>14, Bounds DEF NoAnswer, Fault, NoFault, ControlInv
  <2> QED
    BY <2>1, <2>2 DEF ControlInv, PCs, relay
<1>15. CASE Answer
  <2>1. /\ UNCHANGED <<ready, server, faults, signals>> /\ sock' \in {sock, NONE}
        /\ (\E done : Return(done)) \/ (pc' = "try" /\ UNCHANGED <<relay, read>>)
    BY Zenon, <1>15 DEF Answer, ReturnAfter, stop_sock, TakeAnswer
  <2>2. CASE \E done : Return(done)
    <3>1. PICK done : Return(done)
      BY <2>2
    <3> QED
      BY <2>1, <3>1, ReturnControl DEF ControlInv
  <2>3. CASE pc' = "try" /\ UNCHANGED <<relay, read>>
    BY <2>1, <2>3 DEF ControlInv, PCs, relay
  <2> QED
    BY <2>1, <2>2, <2>3
<1>16. CASE term_handler
  <2>1. Signal
    BY Zenon, <1>16 DEF term_handler
  <2> QED
    BY <2>1, Bounds DEF Signal, ControlInv, PCs, relay, network
<1>17. CASE hup_handler
  <2>1. Signal
    BY Zenon, <1>17 DEF hup_handler
  <2> QED
    BY <2>1, Bounds DEF Signal, ControlInv, PCs, relay, network
<1>18. CASE user2_handler
  <2>1. Signal
    BY Zenon, <1>18 DEF user2_handler
  <2> QED
    BY <2>1, Bounds DEF Signal, ControlInv, PCs, relay, network
<1>19. CASE ServerReads
  <2>1. UNCHANGED <<envVars, read>> /\ server' \in {"up", "down"} /\ (Fault \/ NoFault)
    BY Zenon, <1>19 DEF ServerReads, ServerLogs, envVars, ControlInv
  <2> QED
    BY <2>1, Bounds DEF ControlInv, envVars, relay, Fault, NoFault
<1>20. CASE \E c \in Conns : ServerFails(c)
  <2>1. UNCHANGED <<envVars, read>> /\ server' \in {"up", "down"} /\ (Fault \/ NoFault)
    BY Zenon, <1>20 DEF ServerFails, envVars, ControlInv
  <2> QED
    BY <2>1, Bounds DEF ControlInv, envVars, relay, Fault, NoFault
<1>21. CASE \E c \in Conns : RequestLost(c)
  <2>1. UNCHANGED <<envVars, read>> /\ server' \in {"up", "down"} /\ (Fault \/ NoFault)
    BY Zenon, <1>21 DEF RequestLost, envVars, ControlInv
  <2> QED
    BY <2>1, Bounds DEF ControlInv, envVars, relay, Fault, NoFault
<1>22. CASE ServerEnds
  <2>1. UNCHANGED <<envVars, read>> /\ server' \in {"up", "down"} /\ (Fault \/ NoFault)
    BY Zenon, <1>22 DEF ServerEnds, envVars, ControlInv
  <2> QED
    BY <2>1, Bounds DEF ControlInv, envVars, relay, Fault, NoFault
<1>23. CASE ServerStarts
  <2>1. UNCHANGED <<envVars, read>> /\ server' \in {"up", "down"} /\ (Fault \/ NoFault)
    BY Zenon, <1>23 DEF ServerStarts, envVars, ControlInv
  <2> QED
    BY <2>1, Bounds DEF ControlInv, envVars, relay, Fault, NoFault
<1>24. CASE ServerClosesIdle
  <2>1. UNCHANGED <<envVars, read>> /\ server' \in {"up", "down"} /\ (Fault \/ NoFault)
    BY Zenon, <1>24 DEF ServerClosesIdle, envVars, ControlInv
  <2> QED
    BY <2>1, Bounds DEF ControlInv, envVars, relay, Fault, NoFault
<1>25. CASE ConnectionReset
  <2>1. UNCHANGED <<envVars, read>> /\ server' \in {"up", "down"} /\ (Fault \/ NoFault)
    BY Zenon, <1>25 DEF ConnectionReset, envVars, ControlInv
  <2> QED
    BY <2>1, Bounds DEF ControlInv, envVars, relay, Fault, NoFault
<1>26. CASE UNCHANGED vars
  BY <1>26 DEF vars, relay, flags, network, ControlInv
<1> QED
  BY <1>1, <1>2, <1>3, <1>4, <1>5, <1>6, <1>7, <1>8, <1>9, <1>10, <1>11, <1>12, <1>13, <1>14, <1>15, <1>16, <1>17, <1>18, <1>19, <1>20, <1>21, <1>22, <1>23, <1>24, <1>25, <1>26, <1>27 DEF
    Next, vars

-----------------------------------------------------------------------------
(* What a step does to the wire, the queue and the log                     *)

Relaying == {"try", "send", "recv"}
kept == <<queue, dequeued, read, seq, caller>>

\* Nothing happens to the wire and the queue
Idle ==
  /\ UNCHANGED <<sock, conns, log, kept>>
  /\ pc' = pc \/ (pc # "recv" /\ (pc' \in Relaying => pc \in Relaying))

\* The connection is closed without an answer
Close == stop_sock /\ UNCHANGED kept /\ (pc' \in Relaying => pc \in Relaying)

\* A connection for a try
Reconnect == pc = "try" /\ sock = NONE /\ Connects /\ UNCHANGED kept /\ pc' = "send"

\* A record is read
Record ==
  /\ pc = "read" /\ pc' \in {"read", "drain"}
  /\ (sock = NONE /\ Connects) \/ UNCHANGED <<sock, conns, log>>
  /\ \/ queue' = queue /\ read' \in {read, read + 1}
     \/ Len(queue) < QueueDepth /\ queue' = Append(queue, read + 1) /\ read' = read + 1
  /\ UNCHANGED <<dequeued, seq, caller>>

\* relay_event begins
Begin ==
  /\ pc \in {"select", "drain", "flush"} /\ pc' = "try"
  /\ caller' # "heartbeat" => queue # <<>>
  /\ UNCHANGED <<sock, conns, log, queue, dequeued, read>>

\* The request is written to the connection
Post ==
  /\ pc = "send" /\ conns[sock].state = "open" /\ pc' = "recv"
  /\ conns' = [conns EXCEPT ![sock].req = Request, ![sock].rseq = seq]
  /\ UNCHANGED <<sock, log, kept>>

\* relay_event returns after an answer that says the server has the event
Accepted ==
  /\ pc = "recv" /\ conns[sock].answers # <<>>
  /\ Head(conns[sock].answers).type \in {"ACK", "DISKLOW"}
  /\ TakeAnswer /\ \E done : Return(done)

\* ... after one that says it does not, or that it ends
Refused ==
  /\ pc = "recv" /\ stop_sock
  /\ \E condition \in {"remote_ending", "disk_full", "disk_error"} :
       Return(do_action(conf[condition]).done)

\* ... or without one
GivenUp == pc = "try" /\ UNCHANGED <<sock, conns, log>> /\ Return(FALSE)

\* An answer is read outside of relay_event
Skim ==
  /\ pc = "check" /\ sock # NONE /\ conns[sock].answers # <<>>
  /\ Head(conns[sock].answers).type # "ENDING"
  /\ TakeAnswer /\ UNCHANGED kept /\ pc' \notin Relaying

(* These are all the steps the plugin makes. *)
LEMMA PluginSteps ==
  ASSUME ControlInv,
         \/ Top \/ SelectInput \/ SelectSocket \/ SelectTimeout \/ CheckMessage
         \/ ReadEvent \/ ReadEOE \/ ReadEof \/ Drain \/ Flush \/ CloseSock
         \/ GiveUp \/ Try \/ Send \/ NoAnswer \/ Answer
         \/ term_handler \/ hup_handler \/ user2_handler
  PROVE  \/ Idle \/ Close \/ Reconnect \/ Record \/ Begin \/ Post
         \/ Accepted \/ Refused \/ GivenUp \/ Skim
<1>1. CASE Top
  BY <1>1 DEF Top, Idle, Close, Relaying, kept, relay, network
<1>2. CASE SelectInput
  BY <1>2 DEF SelectInput, SelectReady, Idle, Relaying, kept, relay, network
<1>3. CASE SelectSocket
  BY <1>3 DEF SelectSocket, SelectReady, Idle, Relaying, kept, relay, network
<1>4. CASE SelectTimeout
  <2>1. /\ pc = "select" /\ UNCHANGED <<sock, queue, read, network, dequeued>>
        /\ RelayEvent("heartbeat") \/ (pc' = "top" /\ UNCHANGED relay)
    BY Zenon, <1>4 DEF SelectTimeout
  <2> QED
    BY <2>1 DEF RelayEvent, Idle, Begin, Relaying, kept, relay, network
<1>5. CASE CheckMessage
  <2>1. pc = "check" /\ pc' \in {"top", "read", "drain"}
    BY <1>5 DEF CheckMessage
  <2>2. UNCHANGED kept
    BY Zenon, <1>5 DEF CheckMessage, kept, relay
  <2>3. \/ UNCHANGED <<sock, network>>
        \/ stop_sock
        \/ /\ "sock" \in ready /\ conns[sock].answers # <<>> /\ TakeAnswer
           /\ Head(conns[sock].answers).type \in {"DISKLOW", "ACK"}
    BY <1>5 DEF CheckMessage
  <2>4. "sock" \in ready => sock # NONE
    BY <2>1 DEF ControlInv
  <2> QED
    BY <2>1, <2>2, <2>3, <2>4 DEF Idle, Close, Skim, Relaying, kept, network
<1>6. CASE ReadEvent
  <2>1. PICK overflow : ConnectForRecord(overflow)
    BY Zenon, <1>6 DEF ReadEvent
  <2>2. (sock = NONE /\ Connects) \/ UNCHANGED <<sock, conns, log>>
    BY Zenon, <2>1 DEF ConnectForRecord, ConnectFails, WantsConnection, network
  <2> QED
    BY <1>6, <2>2 DEF ReadEvent, Record, relay
<1>7. CASE ReadEOE
  <2>1. ConnectForRecord(FALSE)
    BY Zenon, <1>7 DEF ReadEOE
  <2>2. (sock = NONE /\ Connects) \/ UNCHANGED <<sock, conns, log>>
    BY Zenon, <2>1 DEF ConnectForRecord, ConnectFails, WantsConnection, network
  <2> QED
    BY <1>7, <2>2 DEF ReadEOE, Record, relay
<1>8. CASE ReadEof
  BY <1>8 DEF ReadEof, Idle, Relaying, kept, relay, network
<1>9. CASE Drain
  <2>1. /\ pc = "drain" /\ UNCHANGED <<sock, queue, read, network, dequeued>>
        /\ (RelayEvent("drain") /\ queue # <<>>) \/ (pc' = "top" /\ UNCHANGED relay)
    BY Zenon, <1>9 DEF Drain
  <2> QED
    BY <2>1 DEF RelayEvent, Idle, Begin, Relaying, kept, relay, network
<1>10. CASE Flush
  <2>1. /\ pc = "flush" /\ UNCHANGED <<sock, queue, read, network, dequeued>>
        /\ (RelayEvent("flush") /\ queue # <<>>) \/ (pc' = "close" /\ UNCHANGED relay)
    BY Zenon, <1>10 DEF Flush
  <2> QED
    BY <2>1 DEF RelayEvent, Idle, Begin, Relaying, kept, relay, network
<1>19. CASE CloseSock
  BY <1>19 DEF CloseSock, Close, Relaying, kept, relay
<1>11. CASE GiveUp
  <2>1. GivenUp
    BY Zenon, <1>11 DEF GiveUp, GivenUp, network
  <2> QED
    BY <2>1
<1>12. CASE Try
  <2>1. /\ pc = "try" /\ UNCHANGED kept
        /\ \/ pc' = "send" /\ UNCHANGED <<sock, conns, log>>
           \/ sock = NONE /\ Connects /\ pc' = "send"
           \/ pc' = "try" /\ UNCHANGED <<sock, conns, log>>
    BY Zenon, <1>12 DEF Try, ConnectFails, kept, network
  <2> QED
    BY <2>1 DEF Idle, Reconnect, Relaying
<1>13. CASE Send
  <2>1. /\ pc = "send" /\ UNCHANGED kept
        /\ \/ /\ conns[sock].state = "open" /\ pc' = "recv" /\ UNCHANGED <<sock, log>>
              /\ conns' = [conns EXCEPT ![sock].req = Request, ![sock].rseq = seq]
           \/ pc' = "recv" /\ UNCHANGED <<sock, conns, log>>
           \/ pc' = "try" /\ stop_sock
    BY Zenon, <1>13 DEF Send, kept, relay, network
  <2> QED
    BY <2>1 DEF Idle, Post, Close, Relaying
<1>14. CASE NoAnswer
  <2>1. pc = "recv" /\ pc' = "try" /\ stop_sock /\ UNCHANGED kept
    BY Zenon, <1>14 DEF NoAnswer, kept, relay
  <2> QED
    BY <2>1 DEF Close, Relaying
<1>15. CASE Answer
  <2> DEFINE type == Head(conns[sock].answers).type
  <2>1. pc = "recv" /\ conns[sock].answers # <<>>
    BY Zenon, <1>15 DEF Answer
  <2>2. \/ stop_sock /\ ReturnAfter("remote_ending")
        \/ stop_sock /\ pc' = "try" /\ UNCHANGED kept
        \/ type = "DISKLOW" /\ TakeAnswer /\ ReturnAfter("disk_low")
        \/ stop_sock /\ ReturnAfter("disk_full")
        \/ stop_sock /\ ReturnAfter("disk_error")
        \/ type = "ACK" /\ TakeAnswer /\ Return(TRUE)
    BY Zenon, <1>15 DEF Answer, kept, relay
  <2>3. \A condition : ReturnAfter(condition) => Return(do_action(conf[condition]).done)
    BY Zenon DEF ReturnAfter
  <2>4. CASE stop_sock /\ \E condition \in {"remote_ending", "disk_full", "disk_error"} : ReturnAfter(condition)
    BY Zenon, <2>1, <2>3, <2>4 DEF Refused
  <2>5. CASE stop_sock /\ pc' = "try" /\ UNCHANGED kept
    BY <2>1, <2>5 DEF Close, Relaying
  <2>6. CASE type = "DISKLOW" /\ TakeAnswer /\ ReturnAfter("disk_low")
    BY Zenon, <2>1, <2>3, <2>6 DEF Accepted
  <2>7. CASE type = "ACK" /\ TakeAnswer /\ Return(TRUE)
    BY Zenon, <2>1, <2>7 DEF Accepted
  <2> QED
    BY Zenon, <2>2, <2>4, <2>5, <2>6, <2>7
<1>16. CASE term_handler
  <2>1. UNCHANGED <<sock, conns, log, kept>> /\ (pc' = pc \/ (pc = "select" /\ pc' = "top"))
    BY <1>16 DEF term_handler, Signal, kept, relay, network
  <2> QED
    BY <2>1 DEF Idle, Relaying
<1>17. CASE hup_handler
  <2>1. UNCHANGED <<sock, conns, log, kept>> /\ (pc' = pc \/ (pc = "select" /\ pc' = "top"))
    BY <1>17 DEF hup_handler, Signal, kept, relay, network
  <2> QED
    BY <2>1 DEF Idle, Relaying
<1>18. CASE user2_handler
  <2>1. UNCHANGED <<sock, conns, log, kept>> /\ (pc' = pc \/ (pc = "select" /\ pc' = "top"))
    BY <1>18 DEF user2_handler, Signal, kept, relay, network
  <2> QED
    BY <2>1 DEF Idle, Relaying
<1> QED
  BY <1>1, <1>2, <1>3, <1>4, <1>5, <1>6, <1>7, <1>8, <1>9, <1>10,
     <1>11, <1>12, <1>13, <1>14, <1>15, <1>16, <1>17, <1>18, <1>19

-----------------------------------------------------------------------------
(* The wire                                                                *)

\* The connection in use carries at most the request under way or its answer; an answer
\* that says the server ends is the last thing on it
OnWire(k) ==
  /\ \A i \in 1 .. Len(k.answers) : k.answers[i].type # "ENDING" =>
        i = 1 /\ pc = "recv" /\ k.answers[i].seq = seq /\ k.req = NONE
  /\ k.state = "open" => \A i \in 1 .. Len(k.answers) : k.answers[i].type # "ENDING"
  /\ k.req # NONE => pc = "recv" /\ k.rseq = seq /\ k.req = Request /\ k.answers = <<>>

WireInv == sock # NONE => OnWire(conns[sock])

\* A connection whose request may be gone, but is no other
SameOrGone(c) == conns'[c].req \in {conns[c].req, NONE}

(* A connection's fields have their types. *)
LEMMA ConnFields ==
  ASSUME DataInv, NEW c \in Conns
  PROVE  /\ conns[c] \in Conn /\ conns[c].req \in Events \cup {NONE, HEARTBEAT}
         /\ conns[c].rseq \in Sequence /\ conns[c].answers \in Seq(Message)
         /\ conns[c].state \in {"open", "fin", "reset"}
<1>1. conns[c] \in Conn
  BY DEF DataInv
<1> QED
  BY <1>1 DEF Conn

(* A new connection is empty. *)
LEMMA Fresh ==
  /\ Opened \in Conn /\ Closed \in Conn
  /\ Opened.req = NONE /\ Opened.answers = <<>> /\ Opened.state = "open"
  /\ \A r \in Events \cup {NONE, HEARTBEAT}, n \in Sequence :
       LET k == [Closed EXCEPT !.req = r, !.rseq = n]
       IN  k \in Conn /\ k.req = r
<1>1. <<>> \in Seq(Message)
  OBVIOUS
<1> QED
  BY <1>1, ZeroSeq DEF Opened, Closed, Conn

(* stop_sock: the answers are gone, a request may still arrive. *)
LEMMA StopSock ==
  ASSUME ControlInv, DataInv, stop_sock
  PROVE  /\ sock' = NONE /\ log' = log /\ conns' \in [Conns -> Conn]
         /\ \A c \in Conns : SameOrGone(c)
<1>1. sock' = NONE /\ log' = log
  BY DEF stop_sock
<1>2. CASE sock = NONE
  BY <1>1, <1>2 DEF stop_sock, DataInv, SameOrGone
<1>3. CASE sock # NONE
  <2> DEFINE k == [Closed EXCEPT !.req = conns[sock].req, !.rseq = conns[sock].rseq]
  <2>1. sock \in Conns
    BY <1>3 DEF ControlInv
  <2>2. k \in Conn /\ k.req = conns[sock].req
    BY <2>1, ConnFields, Fresh
  <2>3. conns' = [conns EXCEPT ![sock] = k]
    BY <1>3 DEF stop_sock
  <2> HIDE DEF k
  <2> QED
    BY <1>1, <2>1, <2>2, <2>3 DEF DataInv, SameOrGone
<1> QED
  BY <1>2, <1>3

(* init_sock: a new connection, in place of one that carried nothing. *)
LEMMA NewSock ==
  ASSUME ControlInv, DataInv, Connects
  PROVE  /\ sock' \in Conns /\ log' = log /\ conns' \in [Conns -> Conn]
         /\ conns'[sock'] = Opened /\ \A c \in Conns : SameOrGone(c)
<1>1. NewConn \in Conns /\ conns[NewConn].req = NONE
  BY NewConnIsFree DEF Connects
<1>2. sock' = NewConn /\ log' = log /\ conns' = [conns EXCEPT ![NewConn] = Opened]
  BY DEF Connects
<1> QED
  BY <1>1, <1>2, Fresh DEF DataInv, SameOrGone

(* An answer is taken off the wire. *)
LEMMA TakenAnswer ==
  ASSUME ControlInv, DataInv, TakeAnswer, sock # NONE, conns[sock].answers # <<>>
  PROVE  /\ sock' = sock /\ log' = log /\ conns' \in [Conns -> Conn]
         /\ conns'[sock].answers = Tail(conns[sock].answers)
         /\ conns'[sock].req = conns[sock].req /\ conns'[sock].state = conns[sock].state
         /\ \A c \in Conns : SameOrGone(c)
<1>1. sock \in Conns
  BY DEF ControlInv
<1>2. conns[sock] \in Conn /\ conns[sock].answers \in Seq(Message)
  BY <1>1, ConnFields
<1>3. Tail(conns[sock].answers) \in Seq(Message)
  BY <1>2
<1>4. sock' = sock /\ log' = log /\ conns' = [conns EXCEPT ![sock].answers = Tail(conns[sock].answers)]
  BY DEF TakeAnswer
<1> QED
  BY <1>1, <1>2, <1>3, <1>4 DEF DataInv, Conn, SameOrGone

(* The head of the queue is an event, and there is one while an event is relayed. *)
LEMMA HeadOfQueue ==
  ASSUME DataInv, pc \in Relaying, caller # "heartbeat"
  PROVE  /\ queue # <<>> /\ Len(queue) >= 1 /\ queue[1] \in Events
         /\ Tail(queue) \in Seq(Events) /\ Len(Tail(queue)) = Len(queue) - 1
         /\ \A i \in 1 .. Len(Tail(queue)) : Tail(queue)[i] = queue[i + 1]
BY DEF DataInv, Relaying

(* relay_event returns: an event leaves the queue only as done. *)
LEMMA Returned ==
  ASSUME ControlInv, DataInv, pc \in Relaying, NEW done, Return(done)
  PROVE  /\ queue' \in Seq(Events) /\ Len(queue') <= QueueDepth /\ dequeued' \subseteq Events
         /\ pc' \notin Relaying /\ read' = read
         /\ \/ UNCHANGED <<queue, dequeued>>
            \/ /\ done /\ caller # "heartbeat" /\ queue' = Tail(queue)
               /\ dequeued' = dequeued \cup {queue[1]}
<1>1. pc' \notin Relaying /\ read' = read
  BY ReturnControl DEF Relaying
<1>2. \/ UNCHANGED <<queue, dequeued>>
      \/ /\ done /\ caller # "heartbeat" /\ queue' = Tail(queue)
         /\ dequeued' = dequeued \cup {queue[1]}
  BY Zenon DEF Return
<1>3. queue \in Seq(Events) /\ Len(queue) <= QueueDepth /\ dequeued \subseteq Events
  BY DEF DataInv
<1>4. CASE UNCHANGED <<queue, dequeued>>
  BY <1>1, <1>2, <1>3, <1>4
<1>5. CASE caller # "heartbeat" /\ queue' = Tail(queue) /\ dequeued' = dequeued \cup {queue[1]}
  <2>1. queue[1] \in Events /\ Tail(queue) \in Seq(Events) /\ Len(Tail(queue)) = Len(queue) - 1 /\ Len(queue) >= 1
    BY <1>5, HeadOfQueue
  <2>2. Len(queue') <= QueueDepth
    BY <1>3, <1>5, <2>1, Bounds
  <2> QED
    BY <1>1, <1>2, <1>3, <1>5, <2>1, <2>2
<1> QED
  BY <1>2, <1>4, <1>5

(* The server answers: the request is gone, and the answer is the last one on the wire. *)
LEMMA AnswerSent ==
  ASSUME ControlInv, DataInv, NEW c \in Conns, NEW type \in Answers, conns' = Answered(c, type)
  PROVE  /\ conns' \in [Conns -> Conn] /\ \A b \in Conns : SameOrGone(b)
         /\ conns'[c].req = NONE /\ conns'[c].state = conns[c].state
         /\ \A b \in Conns : b # c => conns'[b] = conns[b]
         /\ IF c = sock /\ conns[c].state = "open"
            THEN conns'[c].answers = Append(conns[c].answers, [type |-> type, seq |-> conns[c].rseq])
            ELSE conns'[c].answers = conns[c].answers
<1> DEFINE a == [type |-> type, seq |-> conns[c].rseq]
           more == [conns[c] EXCEPT !.req = NONE, !.rseq = 0, !.answers = Append(conns[c].answers, a)]
           less == [conns[c] EXCEPT !.req = NONE, !.rseq = 0]
<1>1. /\ conns[c] \in Conn /\ conns[c].rseq \in Sequence /\ conns[c].answers \in Seq(Message)
      /\ conns \in [Conns -> Conn]
  BY ConnFields DEF DataInv
<1>2. a \in Message
  BY <1>1 DEF Message
<1>3. Append(conns[c].answers, a) \in Seq(Message)
  <2> HIDE DEF a
  <2> QED
    BY <1>1, <1>2
<1>4. conns' = [conns EXCEPT ![c] = IF c = sock /\ conns[c].state = "open" THEN more ELSE less]
  BY DEF Answered
<1> HIDE DEF a
<1>5. /\ more \in Conn /\ more.req = NONE /\ more.state = conns[c].state
      /\ more.answers = Append(conns[c].answers, a)
  BY <1>1, <1>3, ZeroSeq DEF Conn
<1>6. less \in Conn /\ less.req = NONE /\ less.state = conns[c].state /\ less.answers = conns[c].answers
  BY <1>1, ZeroSeq DEF Conn
<1> HIDE DEF more, less
<1>7. conns'[c] = IF c = sock /\ conns[c].state = "open" THEN more ELSE less
  BY <1>1, <1>4
<1>8. \A b \in Conns : b # c => conns'[b] = conns[b]
  BY <1>1, <1>4
<1>9. conns' \in [Conns -> Conn]
  BY <1>1, <1>4, <1>5, <1>6
<1>10. conns'[c].req = NONE /\ conns'[c].state = conns[c].state
  BY <1>5, <1>6, <1>7
<1>11. \A b \in Conns : SameOrGone(b)
  BY <1>8, <1>10 DEF SameOrGone
<1>12. IF c = sock /\ conns[c].state = "open"
       THEN conns'[c].answers = Append(conns[c].answers, a)
       ELSE conns'[c].answers = conns[c].answers
  BY <1>5, <1>6, <1>7
<1> QED
  BY <1>8, <1>9, <1>10, <1>11, <1>12 DEF a

(* The server ends: requests are lost, and the plugin is told on the connection in use. *)
LEMMA EndSent ==
  ASSUME ControlInv, DataInv, ServerEnds
  PROVE  /\ conns' \in [Conns -> Conn] /\ \A c \in Conns : conns'[c].req = NONE
         /\ sock # NONE =>
              IF conns[sock].state = "open"
              THEN /\ conns'[sock].state = "fin"
                   /\ conns'[sock].answers = Append(conns[sock].answers, [type |-> "ENDING", seq |-> 0])
              ELSE UNCHANGED conns[sock].state /\ UNCHANGED conns[sock].answers
<1> DEFINE a == [type |-> "ENDING", seq |-> 0]
           more(c) == [conns[c] EXCEPT !.req = NONE, !.rseq = 0, !.state = "fin",
                                       !.answers = Append(conns[c].answers, a)]
           less(c) == [conns[c] EXCEPT !.req = NONE, !.rseq = 0]
<1>1. a \in Message
  BY ZeroSeq DEF Message, Answers
<1>2. ASSUME NEW c \in Conns PROVE conns[c] \in Conn /\ Append(conns[c].answers, a) \in Seq(Message)
  <2>1. conns[c] \in Conn /\ conns[c].answers \in Seq(Message)
    BY ConnFields
  <2> HIDE DEF a
  <2> QED
    BY <1>1, <2>1
<1>3. conns' = [c \in Conns |-> IF c = sock /\ conns[c].state = "open" THEN more(c) ELSE less(c)]
  BY DEF ServerEnds
<1> HIDE DEF a
<1>4. ASSUME NEW c \in Conns
      PROVE  /\ more(c) \in Conn /\ more(c).req = NONE /\ more(c).state = "fin"
             /\ more(c).answers = Append(conns[c].answers, a)
             /\ less(c) \in Conn /\ less(c).req = NONE /\ less(c).state = conns[c].state
             /\ less(c).answers = conns[c].answers
  BY <1>2, ZeroSeq DEF Conn
<1> HIDE DEF more, less
<1>5. \A c \in Conns : conns'[c] = IF c = sock /\ conns[c].state = "open" THEN more(c) ELSE less(c)
  BY <1>3
<1>6. conns' \in [Conns -> Conn]
  BY <1>3, <1>4
<1>7. \A c \in Conns : conns'[c].req = NONE
  BY <1>4, <1>5
<1>8. sock # NONE => sock \in Conns /\ sock' = sock
  BY DEF ControlInv, ServerEnds, envVars
<1> QED
  BY <1>4, <1>5, <1>6, <1>7, <1>8 DEF a

(* A request is lost, a connection is closed or reset. *)
LEMMA ConnectionEnds ==
  ASSUME ControlInv, DataInv,
         (\E c \in Conns : RequestLost(c)) \/ ServerClosesIdle \/ ConnectionReset
  PROVE  /\ conns' \in [Conns -> Conn] /\ \A c \in Conns : SameOrGone(c)
         /\ sock # NONE =>
              /\ conns'[sock].answers \in {conns[sock].answers, <<>>}
              /\ conns'[sock].state = "open" => conns[sock].state = "open"
              /\ conns'[sock].req # NONE => UNCHANGED conns[sock].rseq
<1>1. <<>> \in Seq(Message)
  OBVIOUS
<1>2. sock # NONE => sock \in Conns
  BY DEF ControlInv
<1>3. \A c \in Conns : conns[c] \in Conn
  BY ConnFields
<1>4. conns \in [Conns -> Conn] 
  BY DEF DataInv
<1>5. CASE \E c \in Conns : RequestLost(c)
  <2>1. PICK c \in Conns : RequestLost(c)
    BY <1>5
  <2> DEFINE k == [conns[c] EXCEPT !.req = NONE, !.rseq = 0]
  <2>2. k \in Conn /\ k.req = NONE /\ k.answers = conns[c].answers /\ k.state = conns[c].state
    BY <1>3, ZeroSeq DEF Conn
  <2>3. conns' = [conns EXCEPT ![c] = k] /\ sock' = sock
    BY <1>4, <2>1 DEF RequestLost, envVars
  <2> HIDE DEF k
  <2> QED
    BY <1>2, <1>4, <2>2, <2>3 DEF SameOrGone
<1>6. CASE ServerClosesIdle
  <2> DEFINE k == [conns[sock] EXCEPT !.state = "fin"]
  <2>1. sock \in Conns
    BY <1>2, <1>6 DEF ServerClosesIdle
  <2>2. k \in Conn /\ k.req = conns[sock].req /\ k.answers = conns[sock].answers /\ k.state = "fin" /\ k.rseq = conns[sock].rseq
    BY <1>3, <2>1 DEF Conn
  <2>3. conns' = [conns EXCEPT ![sock] = k] /\ sock' = sock
    BY <1>4, <1>6 DEF ServerClosesIdle, envVars
  <2> HIDE DEF k
  <2> QED
    BY <1>4, <2>1, <2>2, <2>3 DEF SameOrGone
<1>7. CASE ConnectionReset
  <2> DEFINE k == [conns[sock] EXCEPT !.state = "reset", !.answers = <<>>]
  <2>1. sock \in Conns
    BY <1>2, <1>7 DEF ConnectionReset
  <2>2. k \in Conn /\ k.req = conns[sock].req /\ k.answers = <<>> /\ k.state = "reset" /\ k.rseq = conns[sock].rseq
    BY <1>1, <1>3, <2>1 DEF Conn
  <2>3. conns' = [conns EXCEPT ![sock] = k] /\ sock' = sock
    BY <1>4, <1>7 DEF ConnectionReset, envVars
  <2> HIDE DEF k
  <2> QED
    BY <1>4, <2>1, <2>2, <2>3 DEF SameOrGone
<1> QED
  BY <1>5, <1>6, <1>7

(* A new connection carries nothing. *)
LEMMA FreshWire == ASSUME conns'[sock'] = Opened PROVE WireInv'
<1>1. Opened.req = NONE /\ Opened.answers = <<>> /\ Opened.state = "open"
  BY Fresh
<1>2. conns'[sock'].req = NONE /\ conns'[sock'].answers = <<>>
  BY <1>1
<1>3. \A i \in 1 .. Len(conns'[sock'].answers) : FALSE
  BY <1>2
<1> QED
  BY <1>2, <1>3 DEF WireInv, OnWire

(* An answer to the request under way leaves the wire as it should be. *)
LEMMA AnswerKeepsWire ==
  ASSUME ControlInv, DataInv, WireInv, NEW c \in Conns, NEW type \in Answers, type # "ENDING",
         conns[c].req # NONE, conns' = Answered(c, type), UNCHANGED <<pc, seq, caller, queue, sock>>
  PROVE  WireInv'
<1> DEFINE a == [type |-> type, seq |-> conns[c].rseq]
<1>1. /\ conns'[c].req = NONE /\ conns'[c].state = conns[c].state
      /\ \A b \in Conns : b # c => conns'[b] = conns[b]
      /\ IF c = sock /\ conns[c].state = "open"
         THEN conns'[c].answers = Append(conns[c].answers, a)
         ELSE conns'[c].answers = conns[c].answers
  BY AnswerSent
<1>2. a.type = type /\ a.seq = conns[c].rseq
  OBVIOUS
<1> HIDE DEF a
<1>3. SUFFICES ASSUME sock # NONE PROVE OnWire(conns[sock])'
  BY DEF WireInv
<1>4. sock \in Conns /\ OnWire(conns[sock]) /\ Request' = Request
  BY <1>3 DEF WireInv, ControlInv, Request
<1>5. CASE c # sock
  BY <1>1, <1>4, <1>5 DEF OnWire
<1>6. CASE c = sock /\ conns[c].state # "open"
  BY <1>1, <1>4, <1>6 DEF OnWire
<1>7. CASE c = sock /\ conns[c].state = "open"
  <2>1. pc = "recv" /\ conns[c].rseq = seq /\ conns[c].answers = <<>>
    BY <1>4, <1>7 DEF OnWire
  <2>2. conns'[c].answers = Append(<<>>, a)
    BY <1>1, <1>7, <2>1
  <2>3. Len(conns'[c].answers) = 1 /\ conns'[c].answers[1] = a
    BY <2>2
  <2>4. \A i \in 1 .. Len(conns'[c].answers) :
          i = 1 /\ conns'[c].answers[i].type # "ENDING" /\ conns'[c].answers[i].seq = seq
    BY <1>2, <2>1, <2>3
  <2> QED
    BY <1>1, <1>7, <2>1, <2>4 DEF OnWire
<1> QED
  BY <1>5, <1>6, <1>7

(* Every step keeps the types of the data, and the wire as it should be *)
LEMMA WireStep == ControlInv /\ DataInv /\ WireInv /\ [Next]_vars => DataInv' /\ WireInv'
<1> SUFFICES ASSUME ControlInv /\ DataInv /\ WireInv, [Next]_vars PROVE DataInv' /\ WireInv'
  OBVIOUS
<1>1. CASE Idle
  <2>1. UNCHANGED <<sock, conns, log, queue, dequeued, read, seq, caller>>
    BY <1>1 DEF Idle, kept
  <2>2. pc' = pc \/ (pc # "recv" /\ (pc' \in Relaying => pc \in Relaying))
    BY <1>1 DEF Idle
  <2>3. DataInv'
    BY <2>1, <2>2 DEF DataInv, Relaying
  <2>4. WireInv'
    BY <2>1, <2>2 DEF WireInv, OnWire, Request
  <2> QED
    BY <2>3, <2>4
<1>2. CASE Close
  <2>1. /\ sock' = NONE /\ log' = log /\ conns' \in [Conns -> Conn]
    BY <1>2, StopSock DEF Close
  <2>2. UNCHANGED <<queue, dequeued, caller>> /\ (pc' \in Relaying => pc \in Relaying)
    BY <1>2 DEF Close, kept
  <2> QED
    BY <2>1, <2>2 DEF DataInv, WireInv, Relaying
<1>3. CASE Reconnect
  <2>1. /\ sock' \in Conns /\ log' = log /\ conns' \in [Conns -> Conn] /\ conns'[sock'] = Opened
    BY <1>3, NewSock DEF Reconnect
  <2>2. UNCHANGED <<queue, dequeued, caller>> /\ pc = "try" /\ pc' = "send"
    BY <1>3 DEF Reconnect, kept
  <2>3. DataInv'
    BY <2>1, <2>2 DEF DataInv, Relaying
  <2>4. WireInv'
    BY <2>1, FreshWire
  <2> QED
    BY <2>3, <2>4
<1>4. CASE Record
  <2>1. /\ conns' \in [Conns -> Conn] /\ log' = log
        /\ sock' # NONE => conns'[sock'] = Opened \/ (sock' = sock /\ conns' = conns)
    <3>1. CASE Connects
      BY <3>1, NewSock
    <3>2. CASE UNCHANGED <<sock, conns, log>>
      BY <3>2 DEF DataInv
    <3> QED
      BY <1>4, <3>1, <3>2 DEF Record
  <2>2. pc = "read" /\ pc' \in {"read", "drain"} /\ UNCHANGED <<dequeued, seq, caller>>
    BY <1>4 DEF Record
  <2>3. queue' \in Seq(Events) /\ Len(queue') <= QueueDepth
    <3>1. queue \in Seq(Events) /\ Len(queue) <= QueueDepth /\ Len(queue) \in Nat
      BY DEF DataInv
    <3>2. CASE queue' = queue
      BY <3>1, <3>2
    <3>3. CASE Len(queue) < QueueDepth /\ queue' = Append(queue, read + 1) /\ read' = read + 1
      <4>1. read + 1 \in Events
        BY <3>3, ControlStep, Bounds DEF ControlInv, Events
      <4> QED
        BY <3>1, <3>3, <4>1, Bounds
    <3> QED
      BY <1>4, <3>2, <3>3 DEF Record
  <2>4. DataInv'
    BY <2>1, <2>2, <2>3 DEF DataInv
  <2>5. WireInv'
    <3>1. CASE sock' # NONE /\ conns'[sock'] = Opened
      BY <3>1, FreshWire
    <3>2. CASE sock' # NONE /\ sock' = sock /\ conns' = conns
      BY <2>2, <3>2 DEF WireInv, OnWire
    <3> QED
      BY <2>1, <3>1, <3>2 DEF WireInv
  <2> QED
    BY <2>4, <2>5
<1>5. CASE Begin
  <2>1. /\ UNCHANGED <<sock, conns, log, queue, dequeued>> /\ pc # "recv"
        /\ caller' # "heartbeat" => queue # <<>>
    BY <1>5 DEF Begin
  <2> QED
    BY <2>1 DEF DataInv, WireInv, OnWire
<1>6. CASE Post
  <2> DEFINE k == [conns[sock] EXCEPT !.req = Request, !.rseq = seq]
  <2>1. /\ pc = "send" /\ pc' = "recv" /\ conns[sock].state = "open"
        /\ UNCHANGED <<sock, log, queue, dequeued, seq, caller>>
    BY <1>6 DEF Post, kept
  <2>2. sock \in Conns /\ sock # NONE /\ seq \in Sequence /\ caller \in Callers
    BY <2>1 DEF ControlInv
  <2>3. Request \in Events \cup {HEARTBEAT}
    BY <2>1, HeadOfQueue DEF Request, Relaying
  <2>4. conns[sock] \in Conn /\ conns \in [Conns -> Conn]
    BY <2>2, ConnFields DEF DataInv
  <2>5. conns' = [conns EXCEPT ![sock] = k]
    BY <1>6, <2>4 DEF Post
  <2>6. k \in Conn /\ k.req = Request /\ k.rseq = seq /\ k.answers = conns[sock].answers
    BY <2>2, <2>3, <2>4 DEF Conn
  <2>7. conns[sock].answers = <<>>
    <3>1. \A i \in 1 .. Len(conns[sock].answers) : FALSE
      BY <2>1, <2>2 DEF WireInv, OnWire
    <3>2. conns[sock].answers \in Seq(Message)
      BY <2>2, ConnFields
    <3> QED
      BY <3>1, <3>2
  <2> HIDE DEF k
  <2>8. conns'[sock] = k /\ conns' \in [Conns -> Conn]
    BY <2>2, <2>4, <2>5, <2>6
  <2>9. DataInv'
    BY <2>1, <2>8 DEF DataInv
  <2>10. Request' = Request
    BY <2>1 DEF Request
  <2>11. WireInv'
    BY <2>1, <2>6, <2>7, <2>8, <2>10 DEF WireInv, OnWire
  <2> QED
    BY <2>9, <2>11
<1>7. CASE Accepted
  <2>1. /\ pc = "recv" /\ sock # NONE /\ sock \in Conns /\ conns[sock].answers # <<>> /\ TakeAnswer
        /\ Head(conns[sock].answers).type # "ENDING"
    BY <1>7 DEF Accepted, ControlInv
  <2>2. PICK done : Return(done)
    BY <1>7 DEF Accepted
  <2>3. /\ queue' \in Seq(Events) /\ Len(queue') <= QueueDepth /\ dequeued' \subseteq Events
        /\ pc' \notin Relaying
    BY <2>1, <2>2, Returned DEF Relaying
  <2>4. /\ sock' = sock /\ log' = log /\ conns' \in [Conns -> Conn]
        /\ conns'[sock].answers = Tail(conns[sock].answers)
        /\ conns'[sock].req = conns[sock].req /\ conns'[sock].state = conns[sock].state
    BY <2>1, TakenAnswer
  <2>5. conns[sock].answers \in Seq(Message)
    BY <2>1, ConnFields
  <2>6. \A i \in 1 .. Len(Tail(conns[sock].answers)) :
          Tail(conns[sock].answers)[i] = conns[sock].answers[i + 1] /\ i + 1 \in 1 .. Len(conns[sock].answers)
    BY <2>1, <2>5
  <2>7. \A i \in 1 .. Len(conns'[sock].answers) : conns'[sock].answers[i].type = "ENDING"
    BY <2>1, <2>4, <2>6 DEF WireInv, OnWire
  <2>8. conns[sock].req = NONE
    BY <2>1 DEF WireInv, OnWire
  <2>9. conns'[sock].state = "open" => \A i \in 1 .. Len(conns'[sock].answers) : FALSE
    BY <2>1, <2>4, <2>6, <2>7 DEF WireInv, OnWire
  <2>10. DataInv'
    BY <2>3, <2>4 DEF DataInv, Relaying
  <2>11. WireInv'
    BY <2>4, <2>7, <2>8, <2>9 DEF WireInv, OnWire
  <2> QED
    BY <2>10, <2>11
<1>8. CASE Refused
  <2>1. pc = "recv" /\ sock' = NONE /\ log' = log /\ conns' \in [Conns -> Conn]
    BY <1>8, StopSock DEF Refused
  <2>2. PICK done : Return(done)
    BY Zenon, <1>8 DEF Refused
  <2>3. /\ queue' \in Seq(Events) /\ Len(queue') <= QueueDepth /\ dequeued' \subseteq Events
        /\ pc' \notin Relaying
    BY <2>1, <2>2, Returned DEF Relaying
  <2> QED
    BY <2>1, <2>3 DEF DataInv, WireInv, Relaying
<1>9. CASE GivenUp
  <2>1. pc = "try" /\ UNCHANGED <<sock, conns, log>> /\ Return(FALSE)
    BY Zenon, <1>9 DEF GivenUp
  <2>2. /\ queue' \in Seq(Events) /\ Len(queue') <= QueueDepth /\ dequeued' \subseteq Events
        /\ pc' \notin Relaying
    BY <2>1, Returned DEF Relaying
  <2>3. DataInv'
    BY <2>1, <2>2 DEF DataInv, Relaying
  <2>4. WireInv'
    BY <2>1, <2>2 DEF WireInv, OnWire
  <2> QED
    BY <2>3, <2>4
<1>10. CASE Skim
  <2>1. /\ pc = "check" /\ sock # NONE /\ sock \in Conns /\ conns[sock].answers # <<>>
        /\ Head(conns[sock].answers).type # "ENDING"
    BY <1>10 DEF Skim, ControlInv
  <2>2. conns[sock].answers \in Seq(Message)
    BY <2>1, ConnFields
  <2>3. 1 \in 1 .. Len(conns[sock].answers) /\ conns[sock].answers[1].type # "ENDING"
    BY <2>1, <2>2
  <2> QED
    BY <2>1, <2>3 DEF WireInv, OnWire
<1>11. CASE ServerReads
  <2>1. PICK c \in Conns : ServerLogs(c)
    BY <1>11 DEF ServerReads
  <2>2. PICK type \in Answers : type # "ENDING" /\ conns' = Answered(c, type)
    BY <2>1 DEF ServerLogs, Answers
  <2>3. conns[c].req # NONE /\ UNCHANGED <<pc, seq, caller, queue, dequeued, sock>>
    BY <2>1 DEF ServerLogs, envVars, relay
  <2>4. log' \in Seq(Events)
    <3>1. log' = log \/ (log' = Append(log, conns[c].req) /\ conns[c].req \in Events)
      BY <2>1, <2>3, ConnFields DEF ServerLogs
    <3> QED
      BY <3>1 DEF DataInv
  <2>5. DataInv'
    BY <2>2, <2>3, <2>4, AnswerSent DEF DataInv
  <2>6. WireInv'
    BY <2>2, <2>3, AnswerKeepsWire
  <2> QED
    BY <2>5, <2>6
<1>12. CASE \E c \in Conns : ServerFails(c)
  <2>1. PICK c \in Conns : ServerFails(c)
    BY <1>12
  <2>2. PICK type \in Answers : type # "ENDING" /\ conns' = Answered(c, type)
    BY <2>1 DEF ServerFails, Answers
  <2>3. conns[c].req # NONE /\ UNCHANGED <<pc, seq, caller, queue, dequeued, sock>>
    BY <2>1 DEF ServerFails, envVars, relay
  <2>4. log' \in Seq(Events)
    BY <2>1 DEF ServerFails, DataInv
  <2>5. DataInv'
    BY <2>2, <2>3, <2>4, AnswerSent DEF DataInv
  <2>6. WireInv'
    BY <2>2, <2>3, AnswerKeepsWire
  <2> QED
    BY <2>5, <2>6
<1>13. CASE \E c \in Conns : RequestLost(c)
  <2>1. /\ conns' \in [Conns -> Conn] /\ \A c \in Conns : SameOrGone(c)
        /\ sock # NONE =>
             /\ conns'[sock].answers \in {conns[sock].answers, <<>>}
             /\ conns'[sock].state = "open" => conns[sock].state = "open"
             /\ conns'[sock].req # NONE => UNCHANGED conns[sock].rseq
    BY <1>13, ConnectionEnds
  <2>2. UNCHANGED <<pc, seq, caller, queue, dequeued, sock, log>>
    BY <1>13 DEF RequestLost, envVars, relay
  <2>3. DataInv'
    BY <2>1, <2>2 DEF DataInv
  <2>4. sock # NONE => sock \in Conns
    BY DEF ControlInv
  <2>5. Request' = Request
    BY <2>2 DEF Request
  <2>6. WireInv'
    BY <2>1, <2>2, <2>4, <2>5 DEF WireInv, OnWire, SameOrGone
  <2> QED
    BY <2>3, <2>6
<1>14. CASE ServerEnds
  <2> DEFINE a == [type |-> "ENDING", seq |-> 0]
  <2>1. /\ conns' \in [Conns -> Conn] /\ \A c \in Conns : conns'[c].req = NONE
        /\ sock # NONE =>
             IF conns[sock].state = "open"
             THEN conns'[sock].state = "fin" /\ conns'[sock].answers = Append(conns[sock].answers, a)
             ELSE UNCHANGED conns[sock].state /\ UNCHANGED conns[sock].answers
    BY <1>14, EndSent
  <2>2. UNCHANGED <<pc, seq, caller, queue, dequeued, sock, log>>
    BY <1>14 DEF ServerEnds, envVars, relay
  <2>3. DataInv'
    BY <2>1, <2>2 DEF DataInv
  <2>4. SUFFICES ASSUME sock # NONE PROVE OnWire(conns[sock])'
    BY <2>2, <2>3 DEF WireInv
  <2>5. sock \in Conns /\ conns[sock].answers \in Seq(Message)
    BY <2>4, ConnFields DEF ControlInv
  <2>6. conns'[sock].req = NONE /\ OnWire(conns[sock])
    BY <2>1, <2>4, <2>5 DEF WireInv
  <2>7. CASE conns[sock].state = "open"
    <3>1. conns'[sock].state = "fin" /\ conns'[sock].answers = Append(conns[sock].answers, a)
      BY <2>1, <2>4, <2>7
    <3>2. a.type = "ENDING"
      OBVIOUS
    <3> HIDE DEF a
    <3>3. \A i \in 1 .. Len(Append(conns[sock].answers, a)) :
            IF i \in 1 .. Len(conns[sock].answers)
            THEN Append(conns[sock].answers, a)[i] = conns[sock].answers[i]
            ELSE Append(conns[sock].answers, a)[i] = a
      BY <2>5
    <3> QED
      BY <2>2, <2>6, <3>1, <3>2, <3>3 DEF OnWire
  <2>8. CASE conns[sock].state # "open"
    <3>1. conns'[sock].state = conns[sock].state /\ conns'[sock].answers = conns[sock].answers
      BY <2>1, <2>2, <2>4, <2>8
    <3> QED
      BY <2>2, <2>6, <2>8, <3>1 DEF OnWire
  <2> QED
    BY <2>7, <2>8
<1>15. CASE ServerStarts
  <2>1. UNCHANGED <<pc, seq, caller, queue, dequeued, sock, log, conns>>
    BY <1>15 DEF ServerStarts, envVars, relay
  <2> QED
    BY <2>1 DEF DataInv, WireInv, OnWire, Request
<1>16. CASE ServerClosesIdle
  <2>1. /\ conns' \in [Conns -> Conn] /\ \A c \in Conns : SameOrGone(c)
        /\ sock # NONE =>
             /\ conns'[sock].answers \in {conns[sock].answers, <<>>}
             /\ conns'[sock].state = "open" => conns[sock].state = "open"
             /\ conns'[sock].req # NONE => UNCHANGED conns[sock].rseq
    BY <1>16, ConnectionEnds
  <2>2. UNCHANGED <<pc, seq, caller, queue, dequeued, sock, log>>
    BY <1>16 DEF ServerClosesIdle, envVars, relay
  <2>3. DataInv'
    BY <2>1, <2>2 DEF DataInv
  <2>4. sock # NONE => sock \in Conns
    BY DEF ControlInv
  <2>5. Request' = Request
    BY <2>2 DEF Request
  <2>6. WireInv'
    BY <2>1, <2>2, <2>4, <2>5 DEF WireInv, OnWire, SameOrGone
  <2> QED
    BY <2>3, <2>6
<1>17. CASE ConnectionReset
  <2>1. /\ conns' \in [Conns -> Conn] /\ \A c \in Conns : SameOrGone(c)
        /\ sock # NONE =>
             /\ conns'[sock].answers \in {conns[sock].answers, <<>>}
             /\ conns'[sock].state = "open" => conns[sock].state = "open"
             /\ conns'[sock].req # NONE => UNCHANGED conns[sock].rseq
    BY <1>17, ConnectionEnds
  <2>2. UNCHANGED <<pc, seq, caller, queue, dequeued, sock, log>>
    BY <1>17 DEF ConnectionReset, envVars, relay
  <2>3. DataInv'
    BY <2>1, <2>2 DEF DataInv
  <2>4. sock # NONE => sock \in Conns
    BY DEF ControlInv
  <2>5. Request' = Request
    BY <2>2 DEF Request
  <2>6. WireInv'
    BY <2>1, <2>2, <2>4, <2>5 DEF WireInv, OnWire, SameOrGone
  <2> QED
    BY <2>3, <2>6
<1>18. CASE UNCHANGED vars
  <2>1. UNCHANGED <<pc, seq, caller, queue, dequeued, sock, log, conns>>
    BY <1>18 DEF vars, relay, network
  <2> QED
    BY <2>1 DEF DataInv, WireInv, OnWire, Request
<1> QED
  BY <1>1, <1>2, <1>3, <1>4, <1>5, <1>6, <1>7, <1>8, <1>9, <1>10,
     <1>11, <1>12, <1>13, <1>14, <1>15, <1>16, <1>17, <1>18, PluginSteps DEF Next

-----------------------------------------------------------------------------
(* The queue and the server's log                                          *)

\* do_action lets the plugin go on after these
GoOn == {"ignore", "syslog", "exec", "warn_once_continue"}

\* The configurations in which no event is dropped that the server has refused
Careful == \A f \in Confs : \A condition \in {"remote_ending", "disk_full", "disk_error"} : f[condition] \notin GoOn

Logged(e) == \E k \in 1 .. Len(log) : log[k] = e

\* An answer that lets the head of the queue go is there only if the server has it
AnswersLogged ==
  sock # NONE /\ caller # "heartbeat" =>
    \A i \in 1 .. Len(conns[sock].answers) :
      conns[sock].answers[i].type \in {"ACK", "DISKLOW"} => Logged(queue[1])

\* The queue is in order, nothing in the log is younger than its head, and a request that
\* may still arrive is one of the head, or one the server has already
Increasing ==
  /\ \A i \in 1 .. Len(queue) : queue[i] <= read
  /\ \A i, j \in 1 .. Len(queue) : i < j => queue[i] < queue[j]
LogBehind ==
  \A k \in 1 .. Len(log) : log[k] <= read /\ (queue # <<>> => log[k] <= queue[1])
LateRequests ==
  \A c \in Conns : conns[c].req \in Events =>
    Logged(conns[c].req) \/ (queue # <<>> /\ conns[c].req = queue[1])
QueueInv ==
  Increasing /\ LogBehind /\ LateRequests /\ DequeuedIsLogged /\ FirstCopiesInOrder

(* A step that leaves the queue and the log alone, and sends nothing. *)
LEMMA QueueKept ==
  ASSUME QueueInv, UNCHANGED <<queue, read, log, dequeued>>, \A c \in Conns : SameOrGone(c)
  PROVE  QueueInv'
<1>1. NONE \notin Events
  BY Bounds DEF NONE, Events
<1>2. LateRequests'
  BY <1>1 DEF QueueInv, LateRequests, Logged, SameOrGone
<1> QED
  BY <1>2 DEF QueueInv, Increasing, LogBehind, DequeuedIsLogged, FirstCopiesInOrder

(* The head of the queue leaves it once the server has it. *)
LEMMA QueueAdvances ==
  ASSUME DataInv, QueueInv, queue # <<>>, Logged(queue[1]), queue' = Tail(queue),
         dequeued' = dequeued \cup {queue[1]}, UNCHANGED <<read, log>>,
         \A c \in Conns : SameOrGone(c)
  PROVE  QueueInv'
<1>1. /\ queue \in Seq(Events) /\ Len(queue) \in Nat \ {0} /\ Len(queue') = Len(queue) - 1
      /\ \A i \in 1 .. Len(queue') : queue'[i] = queue[i + 1] /\ i + 1 \in 1 .. Len(queue)
  BY DEF DataInv
<1>2. /\ \A i \in 1 .. Len(queue) : queue[i] <= read /\ queue[i] \in Nat
      /\ \A i, j \in 1 .. Len(queue) : i < j => queue[i] < queue[j]
      /\ \A k \in 1 .. Len(log) : log[k] <= read /\ log[k] <= queue[1] /\ log[k] \in Nat
  BY <1>1, Bounds DEF QueueInv, Increasing, LogBehind, DataInv, Events
<1>3. Increasing'
  BY <1>1, <1>2 DEF Increasing
<1>4. LogBehind'
  <2>1. queue' # <<>> => 1 \in 1 .. Len(queue') /\ 2 \in 1 .. Len(queue) /\ queue'[1] = queue[2]
    BY <1>1
  <2>2. queue' # <<>> => queue[1] < queue'[1] /\ queue'[1] \in Nat /\ queue[1] \in Nat
    BY <1>1, <1>2, <2>1
  <2> QED
    BY <1>2, <2>2 DEF LogBehind
<1>5. LateRequests'
  <2>1. NONE \notin Events
    BY Bounds DEF NONE, Events
  <2> QED
    BY <2>1 DEF QueueInv, LateRequests, Logged, SameOrGone
<1>6. DequeuedIsLogged' /\ FirstCopiesInOrder'
  BY DEF QueueInv, DequeuedIsLogged, FirstCopiesInOrder, Logged
<1> QED
  BY <1>3, <1>4, <1>5, <1>6 DEF QueueInv

(* A record joins the queue: it is younger than all there was. *)
LEMMA QueueGrows ==
  ASSUME ControlInv, DataInv, QueueInv, queue' = Append(queue, read + 1), read' = read + 1,
         UNCHANGED <<log, dequeued>>, \A c \in Conns : SameOrGone(c)
  PROVE  QueueInv'
<1>1. read \in Nat /\ queue \in Seq(Events) /\ Len(queue) \in Nat
  BY Bounds DEF ControlInv, DataInv
<1>2. /\ Len(queue') = Len(queue) + 1 /\ queue'[Len(queue) + 1] = read + 1
      /\ \A i \in 1 .. Len(queue) : queue'[i] = queue[i]
  BY <1>1
<1>3. /\ \A i \in 1 .. Len(queue) : queue[i] <= read /\ queue[i] \in Nat
      /\ \A i, j \in 1 .. Len(queue) : i < j => queue[i] < queue[j]
  BY <1>1, Bounds DEF QueueInv, Increasing, DataInv, Events
<1>4. \A k \in 1 .. Len(log) : log[k] <= read /\ (queue # <<>> => log[k] <= queue[1]) /\ log[k] \in Nat
  BY Bounds DEF QueueInv, LogBehind, DataInv, Events
<1>5. Increasing'
  BY <1>1, <1>2, <1>3 DEF Increasing
<1>6. queue # <<>> => queue'[1] = queue[1]
  BY <1>1, <1>2
<1>7. queue = <<>> => queue'[1] = read + 1
  BY <1>1, <1>2
<1>8. LogBehind'
  <2>1. SUFFICES ASSUME NEW k \in 1 .. Len(log) PROVE log[k] <= read + 1 /\ log[k] <= queue'[1]
    BY DEF LogBehind
  <2>2. log[k] \in Nat /\ log[k] <= read /\ (queue # <<>> => log[k] <= queue[1])
    BY <1>4, <2>1
  <2>3. CASE queue = <<>>
    BY <1>1, <1>7, <2>2, <2>3
  <2>4. CASE queue # <<>>
    BY <1>1, <1>6, <2>2, <2>4
  <2> QED
    BY <2>3, <2>4
<1>9. LateRequests'
  <2>1. NONE \notin Events
    BY Bounds DEF NONE, Events
  <2>2. queue' # <<>>
    BY <1>1, <1>2
  <2> QED
    BY <1>6, <2>1, <2>2 DEF QueueInv, LateRequests, Logged, SameOrGone
<1>10. DequeuedIsLogged' /\ FirstCopiesInOrder'
  BY DEF QueueInv, DequeuedIsLogged, FirstCopiesInOrder
<1> QED
  BY <1>5, <1>8, <1>9, <1>10 DEF QueueInv

(* The server logs a request: if it is older than something in the log, it is a copy. *)
LEMMA LogGrows ==
  ASSUME ControlInv, DataInv, QueueInv, NEW c \in Conns, conns[c].req \in Events,
         log' = Append(log, conns[c].req), UNCHANGED <<queue, read, dequeued>>,
         \A b \in Conns : SameOrGone(b)
  PROVE  /\ QueueInv'
         /\ \A x : Logged(x) \/ x = conns[c].req => \E k \in 1 .. Len(log') : log'[k] = x
<1> DEFINE e == conns[c].req
           n == Len(log) + 1
<1>1. e \in Nat /\ e \in Events /\ read \in Nat /\ Len(log) \in Nat /\ log \in Seq(Events)
  BY Bounds DEF DataInv, ControlInv, Events
<1>2. log' = Append(log, e) /\ (Logged(e) \/ (queue # <<>> /\ e = queue[1]))
  BY DEF QueueInv, LateRequests
<1> HIDE DEF e
<1>3. Len(log') = n /\ log'[n] = e /\ \A k \in 1 .. Len(log) : log'[k] = log[k]
  BY <1>1, <1>2
<1>4. n \in Nat /\ \A k \in 1 .. Len(log) : k \in 1 .. n /\ log[k] \in Nat
  BY <1>1, Bounds DEF Events
<1>5. \A x : Logged(x) => \E k \in 1 .. Len(log') : log'[k] = x
  BY <1>3, <1>4 DEF Logged
<1>6. \E k \in 1 .. Len(log') : log'[k] = e
  BY <1>1, <1>3, <1>4
<1>7. Increasing' /\ DequeuedIsLogged' /\ LateRequests'
  <2>1. NONE \notin Events
    BY Bounds DEF NONE, Events
  <2>2. Increasing'
    BY DEF QueueInv, Increasing
  <2>3. DequeuedIsLogged'
    BY <1>5 DEF QueueInv, DequeuedIsLogged, Logged
  <2>4. LateRequests'
    <3>1. SUFFICES ASSUME NEW b \in Conns, conns'[b].req \in Events
                   PROVE (\E k \in 1 .. Len(log') : log'[k] = conns'[b].req) \/ (queue # <<>> /\ conns'[b].req = queue[1])
      BY DEF LateRequests, Logged
    <3>2. conns'[b].req = conns[b].req
      BY <2>1, <3>1 DEF SameOrGone
    <3>3. Logged(conns[b].req) \/ (queue # <<>> /\ conns[b].req = queue[1])
      BY <3>1, <3>2 DEF QueueInv, LateRequests
    <3> QED
      BY <1>5, <3>2, <3>3
  <2> QED
    BY <2>2, <2>3, <2>4
<1>8. \A k \in 1 .. Len(log) : log[k] <= read /\ (queue # <<>> => log[k] <= queue[1])
  BY DEF QueueInv, LogBehind
<1>9. e <= read /\ (queue # <<>> => e <= queue[1])
  <2>1. CASE Logged(e)
    BY <1>8, <2>1 DEF Logged
  <2>2. CASE queue # <<>> /\ e = queue[1]
    <3>1. 1 \in 1 .. Len(queue)
      BY <2>2 DEF DataInv
    <3> QED
      BY <1>1, <2>2, <3>1 DEF QueueInv, Increasing
  <2> QED
    BY <1>2, <2>1, <2>2
<1>10. LogBehind'
  <2>1. SUFFICES ASSUME NEW k \in 1 .. Len(log') PROVE log'[k] <= read /\ (queue # <<>> => log'[k] <= queue[1])
    BY DEF LogBehind
  <2>2. k = n \/ k \in 1 .. Len(log)
    BY <1>1, <1>3, <2>1
  <2> QED
    BY <1>3, <1>8, <1>9, <2>2
<1>11. FirstCopiesInOrder'
  <2>1. SUFFICES ASSUME NEW i \in 1 .. Len(log'), NEW j \in 1 .. Len(log'), i < j, log'[j] < log'[i]
                 PROVE \E k \in 1 .. i - 1 : log'[k] = log'[j]
    BY DEF FirstCopiesInOrder
  <2>2. i \in 1 .. Len(log) /\ (j = n \/ j \in 1 .. Len(log)) /\ log'[i] = log[i] /\ log[i] \in Nat
    BY <1>1, <1>3, <1>4, <2>1
  <2>3. \A k \in 1 .. i - 1 : k \in 1 .. Len(log) /\ log'[k] = log[k]
    BY <1>1, <1>3, <2>2
  <2>4. CASE j \in 1 .. Len(log)
    <3>1. \E k \in 1 .. i - 1 : log[k] = log[j]
      BY <1>3, <2>1, <2>2, <2>4 DEF QueueInv, FirstCopiesInOrder
    <3> QED
      BY <1>3, <2>3, <2>4, <3>1
  <2>5. CASE j = n
    <3>1. e < log[i] /\ log'[j] = e
      BY <1>3, <2>1, <2>2, <2>5
    <3>2. PICK m \in 1 .. Len(log) : log[m] = e
      <4>1. Logged(e)
        BY <1>1, <1>2, <1>8, <2>2, <3>1
      <4> QED
        BY <4>1 DEF Logged
    <3>3. m # i
      BY <1>1, <2>2, <3>1, <3>2
    <3>4. CASE m < i
      <4>1. m \in 1 .. i - 1
        BY <1>1, <2>2, <3>4
      <4> QED
        BY <2>3, <3>1, <3>2, <4>1
    <3>5. CASE i < m
      <4>1. \E k \in 1 .. i - 1 : log[k] = log[m]
        BY <2>2, <3>1, <3>2, <3>5 DEF QueueInv, FirstCopiesInOrder
      <4> QED
        BY <2>3, <3>1, <3>2, <4>1
    <3> QED
      BY <1>1, <2>2, <3>3, <3>4, <3>5
  <2> QED
    BY <2>2, <2>4, <2>5
<1> QED
  BY <1>5, <1>6, <1>7, <1>10, <1>11 DEF QueueInv, e

(* Every step keeps the order of the queue and the log *)
LEMMA QueueStep == Careful /\ conf \in Confs /\ ControlInv /\ DataInv /\ WireInv /\ AnswersLogged /\ QueueInv /\ [Next]_vars => QueueInv'
<1> SUFFICES ASSUME Careful /\ conf \in Confs /\ ControlInv /\ DataInv /\ WireInv /\ AnswersLogged /\ QueueInv, [Next]_vars PROVE QueueInv'
  OBVIOUS
<1>1. CASE Idle
  BY <1>1, QueueKept DEF Idle, kept, SameOrGone
<1>2. CASE Close
  BY <1>2, StopSock, QueueKept DEF Close, kept
<1>3. CASE Reconnect
  BY <1>3, NewSock, QueueKept DEF Reconnect, kept
<1>4. CASE Record
  <2>1. (\A c \in Conns : SameOrGone(c)) /\ UNCHANGED <<log, dequeued>>
    <3>1. CASE Connects
      BY <1>4, <3>1, NewSock DEF Record
    <3>2. CASE UNCHANGED <<sock, conns, log>>
      BY <1>4, <3>2 DEF Record, SameOrGone
    <3> QED
      BY <1>4, <3>1, <3>2 DEF Record
  <2>2. CASE queue' = Append(queue, read + 1) /\ read' = read + 1
    BY <2>1, <2>2, QueueGrows
  <2>3. CASE queue' = queue /\ read' = read
    BY <2>1, <2>3, QueueKept
  <2>4. CASE queue' = queue /\ read' = read + 1
    <3>1. read \in Nat /\ (\A i \in 1 .. Len(queue) : queue[i] \in Nat) /\ (\A k \in 1 .. Len(log) : log[k] \in Nat)
      BY Bounds DEF ControlInv, DataInv, Events
    <3>2. Increasing'
      BY <2>4, <3>1 DEF QueueInv, Increasing
    <3>3. LogBehind'
      BY <2>1, <2>4, <3>1 DEF QueueInv, LogBehind
    <3>4. NONE \notin Events
      BY Bounds DEF NONE, Events
    <3>5. LateRequests'
      BY <2>1, <2>4, <3>4 DEF QueueInv, LateRequests, Logged, SameOrGone
    <3>6. DequeuedIsLogged' /\ FirstCopiesInOrder'
      BY <2>1 DEF QueueInv, DequeuedIsLogged, FirstCopiesInOrder
    <3> QED
      BY <3>2, <3>3, <3>5, <3>6 DEF QueueInv
  <2> QED
    BY <1>4, <2>2, <2>3, <2>4 DEF Record
<1>5. CASE Begin
  BY <1>5, QueueKept DEF Begin, SameOrGone
<1>6. CASE Post
  <2>1. pc = "send" /\ sock \in Conns /\ conns \in [Conns -> Conn] /\ conns[sock] \in Conn
    BY <1>6, ConnFields DEF Post, ControlInv, DataInv
  <2>2. /\ UNCHANGED <<queue, read, log, dequeued>>
        /\ \A c \in Conns : c # sock => conns'[c] = conns[c]
        /\ conns'[sock].req = Request
    BY <1>6, <2>1 DEF Post, kept, Conn
  <2>3. Request \in Events => queue # <<>> /\ Request = queue[1]
    <3>1. HEARTBEAT \notin Events
      BY Bounds DEF HEARTBEAT, Events
    <3> QED
      BY <2>1, <3>1, HeadOfQueue DEF Request, Relaying
  <2>4. LateRequests'
    BY <2>2, <2>3 DEF QueueInv, LateRequests, Logged
  <2> QED
    BY <2>2, <2>4 DEF QueueInv, Increasing, LogBehind, DequeuedIsLogged, FirstCopiesInOrder
<1>7. CASE Accepted
  <2>1. /\ pc = "recv" /\ sock # NONE /\ sock \in Conns /\ conns[sock].answers # <<>> /\ TakeAnswer
        /\ Head(conns[sock].answers).type \in {"ACK", "DISKLOW"}
    BY <1>7 DEF Accepted, ControlInv
  <2>2. log' = log /\ \A c \in Conns : SameOrGone(c)
    BY <2>1, TakenAnswer
  <2>3. conns[sock].answers \in Seq(Message)
    BY <2>1, ConnFields
  <2>4. 1 \in 1 .. Len(conns[sock].answers) /\ conns[sock].answers[1].type \in {"ACK", "DISKLOW"}
    BY <2>1, <2>3
  <2>5. caller # "heartbeat" => Logged(queue[1])
    BY <2>1, <2>4 DEF AnswersLogged
  <2>6. PICK done : Return(done)
    BY <1>7 DEF Accepted
  <2>7. /\ read' = read
        /\ \/ UNCHANGED <<queue, dequeued>>
           \/ /\ caller # "heartbeat" /\ queue' = Tail(queue)
              /\ dequeued' = dequeued \cup {queue[1]}
    BY <2>1, <2>6, Returned DEF Relaying
  <2>8. CASE UNCHANGED <<queue, dequeued>>
    BY <2>2, <2>7, <2>8, QueueKept
  <2>9. CASE caller # "heartbeat" /\ queue' = Tail(queue) /\ dequeued' = dequeued \cup {queue[1]}
    <3>1. queue # <<>>
      BY <2>1, <2>9, HeadOfQueue DEF Relaying
    <3> QED
      BY <2>2, <2>5, <2>7, <2>9, <3>1, QueueAdvances
  <2> QED
    BY <2>7, <2>8, <2>9
<1>8. CASE Refused
  <2>1. pc = "recv" /\ log' = log /\ \A c \in Conns : SameOrGone(c)
    BY <1>8, StopSock DEF Refused
  <2>2. PICK condition \in {"remote_ending", "disk_full", "disk_error"} :
          Return(do_action(conf[condition]).done)
    BY Zenon, <1>8 DEF Refused
  <2>3. conf[condition] \notin GoOn
    BY Zenon DEF Careful
  <2>4. ~do_action(conf[condition]).done
    BY <2>3 DEF do_action, GoOn
  <2>5. read' = read /\ UNCHANGED <<queue, dequeued>>
    BY <2>1, <2>2, <2>4, Returned DEF Relaying
  <2> QED
    BY <2>1, <2>5, QueueKept
<1>9. CASE GivenUp
  <2>1. pc = "try" /\ UNCHANGED <<sock, conns, log>> /\ Return(FALSE)
    BY Zenon, <1>9 DEF GivenUp
  <2>2. read' = read /\ UNCHANGED <<queue, dequeued>>
    BY <2>1, Returned DEF Relaying
  <2> QED
    BY <2>1, <2>2, QueueKept DEF SameOrGone
<1>10. CASE Skim
  BY <1>10, TakenAnswer, QueueKept DEF Skim, kept
<1>11. CASE ServerReads
  <2>1. PICK c \in Conns : ServerLogs(c)
    BY <1>11 DEF ServerReads
  <2>2. PICK type \in Answers : conns' = Answered(c, type)
    BY <2>1 DEF ServerLogs, Answers
  <2>3. /\ UNCHANGED <<queue, read, dequeued>> /\ conns[c].req # NONE
        /\ log' = IF conns[c].req = HEARTBEAT THEN log ELSE Append(log, conns[c].req)
    BY <2>1 DEF ServerLogs, envVars
  <2>4. \A b \in Conns : SameOrGone(b)
    BY <2>2, AnswerSent
  <2>5. CASE conns[c].req = HEARTBEAT
    BY <2>3, <2>4, <2>5, QueueKept
  <2>6. CASE conns[c].req # HEARTBEAT
    <3>1. conns[c].req \in Events
      BY <2>3, <2>6, ConnFields
    <3> QED
      BY <2>3, <2>4, <2>6, <3>1, LogGrows
  <2> QED
    BY <2>5, <2>6
<1>12. CASE \E c \in Conns : ServerFails(c)
  <2>1. PICK c \in Conns : ServerFails(c)
    BY <1>12
  <2>2. PICK type \in Answers : conns' = Answered(c, type)
    BY <2>1 DEF ServerFails, Answers
  <2>3. UNCHANGED <<queue, read, dequeued, log>>
    BY <2>1 DEF ServerFails, envVars
  <2> QED
    BY <2>2, <2>3, AnswerSent, QueueKept
<1>13. CASE \E c \in Conns : RequestLost(c)
  <2>1. UNCHANGED <<queue, read, dequeued, log>>
    BY <1>13 DEF RequestLost, envVars
  <2> QED
    BY <1>13, <2>1, ConnectionEnds, QueueKept
<1>14. CASE ServerEnds
  <2>1. UNCHANGED <<queue, read, dequeued, log>>
    BY <1>14 DEF ServerEnds, envVars
  <2>2. \A c \in Conns : SameOrGone(c)
    BY <1>14, EndSent DEF SameOrGone
  <2> QED
    BY <2>1, <2>2, QueueKept
<1>15. CASE ServerStarts
  BY <1>15, QueueKept DEF ServerStarts, envVars, SameOrGone
<1>16. CASE ServerClosesIdle
  <2>1. UNCHANGED <<queue, read, dequeued, log>>
    BY <1>16 DEF ServerClosesIdle, envVars
  <2> QED
    BY <1>16, <2>1, ConnectionEnds, QueueKept
<1>17. CASE ConnectionReset
  <2>1. UNCHANGED <<queue, read, dequeued, log>>
    BY <1>17 DEF ConnectionReset, envVars
  <2> QED
    BY <1>17, <2>1, ConnectionEnds, QueueKept
<1>18. CASE UNCHANGED vars
  BY <1>18, QueueKept DEF vars, network, SameOrGone
<1> QED
  BY <1>1, <1>2, <1>3, <1>4, <1>5, <1>6, <1>7, <1>8, <1>9, <1>10,
     <1>11, <1>12, <1>13, <1>14, <1>15, <1>16, <1>17, <1>18, PluginSteps DEF Next

(* Appending an answer adds only that one. *)
LEMMA AppendedAnswer ==
  ASSUME NEW s \in Seq(Message), NEW a, NEW r, r = s \/ r = Append(s, a),
         NEW i \in 1 .. Len(r), r[i] # a
  PROVE  i \in 1 .. Len(s) /\ r[i] = s[i]
OBVIOUS

(* Outside of the wait for an answer only the end of the server can be on the wire. *)
LEMMA NotReceiving == ASSUME WireInv', pc' # "recv" PROVE AnswersLogged'
BY DEF WireInv, OnWire, AnswersLogged

(* Every step keeps the answers backed by the log *)
LEMMA AnswersLoggedStep == ControlInv /\ DataInv /\ WireInv /\ AnswersLogged /\ QueueInv /\ [Next]_vars => AnswersLogged'
<1> SUFFICES ASSUME ControlInv /\ DataInv /\ WireInv /\ AnswersLogged /\ QueueInv, [Next]_vars PROVE AnswersLogged'
  OBVIOUS
<1>w. WireInv'
  BY WireStep
<1>1. CASE Idle
  BY <1>1 DEF Idle, kept, AnswersLogged, Logged
<1>2. CASE Close
  BY <1>2 DEF Close, stop_sock, AnswersLogged
<1>3. CASE Reconnect
  BY <1>3, <1>w, NotReceiving DEF Reconnect
<1>4. CASE Record
  BY <1>4, <1>w, NotReceiving DEF Record
<1>5. CASE Begin
  BY <1>5, <1>w, NotReceiving DEF Begin
<1>6. CASE Post
  <2>1. sock' = sock /\ sock # NONE /\ sock \in Conns /\ conns \in [Conns -> Conn] /\ conns[sock] \in Conn /\ pc = "send"
    BY <1>6, ConnFields DEF Post, ControlInv, DataInv
  <2>2. conns'[sock].answers = conns[sock].answers
    BY <1>6, <2>1 DEF Post, Conn
  <2>3. \A i \in 1 .. Len(conns[sock].answers) : conns[sock].answers[i].type = "ENDING"
    BY <2>1 DEF WireInv, OnWire
  <2> QED
    BY <2>1, <2>2, <2>3 DEF AnswersLogged
<1>7. CASE Accepted
  <2>1. PICK done : Return(done)
    BY Zenon, <1>7 DEF Accepted
  <2>2. pc' # "recv"
    BY <2>1, ReturnControl
  <2> QED
    BY <1>w, <2>2, NotReceiving
<1>8. CASE Refused
  BY <1>8 DEF Refused, stop_sock, AnswersLogged
<1>9. CASE GivenUp
  <2>1. PICK done : Return(done)
    BY Zenon, <1>9 DEF GivenUp
  <2>2. pc' # "recv"
    BY <2>1, ReturnControl
  <2> QED
    BY <1>w, <2>2, NotReceiving
<1>10. CASE Skim
  BY <1>10, <1>w, NotReceiving DEF Skim, Relaying
<1>11. CASE ServerReads
  <2>1. PICK c \in Conns : ServerLogs(c)
    BY <1>11 DEF ServerReads
  <2>2. PICK type \in Answers : conns' = Answered(c, type)
    BY <2>1 DEF ServerLogs, Answers
  <2>3. /\ UNCHANGED <<queue, read, dequeued, sock, caller>> /\ conns[c].req # NONE
        /\ log' = IF conns[c].req = HEARTBEAT THEN log ELSE Append(log, conns[c].req)
    BY <2>1 DEF ServerLogs, envVars, relay
  <2>4. /\ \A b \in Conns : SameOrGone(b) /\ (b # c => conns'[b] = conns[b])
        /\ ~(c = sock /\ conns[c].state = "open") => conns'[c].answers = conns[c].answers
    BY <2>2, AnswerSent
  <2>5. SUFFICES ASSUME sock # NONE, caller # "heartbeat", NEW i \in 1 .. Len(conns'[sock].answers),
                        conns'[sock].answers[i].type \in {"ACK", "DISKLOW"}
                 PROVE  \E k \in 1 .. Len(log') : log'[k] = queue[1]
    BY <2>3 DEF AnswersLogged, Logged
  <2>6. sock \in Conns
    BY <2>5 DEF ControlInv
  <2>7. \A x : Logged(x) => \E k \in 1 .. Len(log') : log'[k] = x
    <3>1. CASE conns[c].req = HEARTBEAT
      BY <2>3, <3>1 DEF Logged
    <3>2. CASE conns[c].req # HEARTBEAT
      <4>1. conns[c].req \in Events
        BY <2>3, <3>2, ConnFields
      <4> QED
        BY <2>3, <2>4, <3>2, <4>1, LogGrows
    <3> QED
      BY <3>1, <3>2
  <2>8. CASE c = sock /\ conns[c].state = "open"
    <3>1. conns[c].req = queue[1]
      BY <2>3, <2>5, <2>8 DEF WireInv, OnWire, Request
    <3>2. pc = "recv"
      BY <2>3, <2>5, <2>8 DEF WireInv, OnWire
    <3>3. queue[1] \in Events /\ HEARTBEAT \notin Events
      BY <2>5, <3>2, HeadOfQueue, Bounds DEF Relaying, HEARTBEAT, Events
    <3> QED
      BY <2>3, <2>4, <3>1, <3>3, LogGrows
  <2>9. CASE ~(c = sock /\ conns[c].state = "open")
    <3>1. conns'[sock].answers = conns[sock].answers
      BY <2>4, <2>6, <2>9
    <3>2. Logged(queue[1])
      BY <2>5, <3>1 DEF AnswersLogged
    <3> QED
      BY <2>7, <3>2
  <2> QED
    BY <2>8, <2>9
<1>12. CASE \E c \in Conns : ServerFails(c)
  <2>1. PICK c \in Conns : ServerFails(c)
    BY <1>12
  <2>2. PICK type \in {"DISKFULL", "DISKERROR"} : conns' = Answered(c, type)
    BY <2>1 DEF ServerFails
  <2>3. UNCHANGED <<queue, sock, caller, log, pc, seq>>
    BY <2>1 DEF ServerFails, envVars, relay
  <2> DEFINE a == [type |-> type, seq |-> conns[c].rseq]
  <2>4. /\ \A b \in Conns : b # c => conns'[b] = conns[b]
        /\ conns'[c].answers \in {conns[c].answers, Append(conns[c].answers, a)}
    BY <2>2, AnswerSent DEF Answers
  <2>5. a.type \notin {"ACK", "DISKLOW"}
    OBVIOUS
  <2> HIDE DEF a
  <2>6. SUFFICES ASSUME sock # NONE, caller # "heartbeat", NEW i \in 1 .. Len(conns'[sock].answers),
                        conns'[sock].answers[i].type \in {"ACK", "DISKLOW"}
                 PROVE  Logged(queue[1])
    BY <2>3 DEF AnswersLogged, Logged
  <2>7. sock \in Conns /\ conns[sock].answers \in Seq(Message)
    BY <2>6, ConnFields DEF ControlInv
  <2>8. i \in 1 .. Len(conns[sock].answers) /\ conns'[sock].answers[i] = conns[sock].answers[i]
    <3>1. \/ conns'[sock].answers = conns[sock].answers
          \/ conns'[sock].answers = Append(conns[sock].answers, a)
      BY <2>4, <2>7
    <3>2. conns'[sock].answers[i] # a
      BY <2>5, <2>6
    <3> QED
      BY <2>6, <2>7, <3>1, <3>2, AppendedAnswer
  <2> QED
    BY <2>6, <2>8 DEF AnswersLogged
<1>13. CASE \E c \in Conns : RequestLost(c)
  <2>1. UNCHANGED <<queue, sock, caller, log>>
    BY <1>13 DEF RequestLost, envVars, relay
  <2>2. sock # NONE => conns'[sock].answers \in {conns[sock].answers, <<>>}
    BY <1>13, ConnectionEnds
  <2> QED
    BY <2>1, <2>2 DEF AnswersLogged, Logged
<1>14. CASE ServerEnds
  <2> DEFINE a == [type |-> "ENDING", seq |-> 0]
  <2>1. UNCHANGED <<queue, sock, caller, log>>
    BY <1>14 DEF ServerEnds, envVars, relay
  <2>2. sock # NONE => conns'[sock].answers \in {conns[sock].answers, Append(conns[sock].answers, a)}
    BY <1>14, <2>1, EndSent
  <2>3. a.type \notin {"ACK", "DISKLOW"}
    OBVIOUS
  <2> HIDE DEF a
  <2>4. SUFFICES ASSUME sock # NONE, caller # "heartbeat", NEW i \in 1 .. Len(conns'[sock].answers),
                        conns'[sock].answers[i].type \in {"ACK", "DISKLOW"}
                 PROVE  Logged(queue[1])
    BY <2>1 DEF AnswersLogged, Logged
  <2>5. sock \in Conns /\ conns[sock].answers \in Seq(Message)
    BY <2>4, ConnFields DEF ControlInv
  <2>6. i \in 1 .. Len(conns[sock].answers) /\ conns'[sock].answers[i] = conns[sock].answers[i]
    <3>1. \/ conns'[sock].answers = conns[sock].answers
          \/ conns'[sock].answers = Append(conns[sock].answers, a)
      BY <2>2, <2>4
    <3>2. conns'[sock].answers[i] # a
      BY <2>3, <2>4
    <3> QED
      BY <2>4, <2>5, <3>1, <3>2, AppendedAnswer
  <2> QED
    BY <2>4, <2>6 DEF AnswersLogged
<1>15. CASE ServerStarts
  BY <1>15 DEF ServerStarts, envVars, relay, AnswersLogged, Logged
<1>16. CASE ServerClosesIdle
  <2>1. UNCHANGED <<queue, sock, caller, log>>
    BY <1>16 DEF ServerClosesIdle, envVars, relay
  <2>2. sock # NONE => conns'[sock].answers \in {conns[sock].answers, <<>>}
    BY <1>16, ConnectionEnds
  <2> QED
    BY <2>1, <2>2 DEF AnswersLogged, Logged
<1>17. CASE ConnectionReset
  <2>1. UNCHANGED <<queue, sock, caller, log>>
    BY <1>17 DEF ConnectionReset, envVars, relay
  <2>2. sock # NONE => conns'[sock].answers \in {conns[sock].answers, <<>>}
    BY <1>17, ConnectionEnds
  <2> QED
    BY <2>1, <2>2 DEF AnswersLogged, Logged
<1>18. CASE UNCHANGED vars
  BY <1>18 DEF vars, network, relay, AnswersLogged, Logged
<1> QED
  BY <1>1, <1>2, <1>3, <1>4, <1>5, <1>6, <1>7, <1>8, <1>9, <1>10,
     <1>11, <1>12, <1>13, <1>14, <1>15, <1>16, <1>17, <1>18, PluginSteps DEF Next

(* What do_action sets are flags. *)
LEMMA DoActionFlags ==
  ASSUME FlagInv, NEW action
  PROVE  /\ do_action(action).warned \subseteq {1, 2}
         /\ do_action(action).stop \in BOOLEAN /\ do_action(action).suspend \in BOOLEAN
<1>1. do_action(action).warned \subseteq {1, 2}
  <2>1. warned \subseteq {1, 2}
    BY Zenon DEF FlagInv
  <2> QED
    BY <2>1 DEF do_action
<1>2. do_action(action).stop = (stop \/ action = "stop") /\ do_action(action).suspend = (suspend \/ action = "suspend")
  BY DEF do_action
<1> QED
  BY Zenon, <1>1, <1>2

(* Every action keeps the flags *)
LEMMA FlagStep == FlagInv /\ [Next]_vars => FlagInv'
<1> SUFFICES ASSUME FlagInv, [Next]_vars PROVE FlagInv'
  OBVIOUS
<1>1. CASE Top
  BY Zenon, <1>1 DEF Top, FlagInv, flags
<1>2. CASE SelectInput
  BY Zenon, <1>2 DEF SelectInput, SelectReady, FlagInv, flags
<1>3. CASE SelectSocket
  BY Zenon, <1>3 DEF SelectSocket, SelectReady, FlagInv, flags
<1>4. CASE SelectTimeout
  BY Zenon, <1>4 DEF SelectTimeout, FlagInv, flags
<1>5. CASE CheckMessage
  BY Zenon, <1>5, DoActionFlags DEF CheckMessage, ActOn, FlagInv
<1>6. CASE ReadEvent
  <2>1. PICK overflow : ConnectForRecord(overflow)
    BY Zenon, <1>6 DEF ReadEvent
  <2>2. conf' = conf
    BY Zenon, <1>6 DEF ReadEvent
  <2> QED
    BY Zenon, <2>1, <2>2, DoActionFlags DEF ConnectForRecord, FlagInv
<1>7. CASE ReadEOE
  <2>1. PICK overflow : ConnectForRecord(overflow)
    BY Zenon, <1>7 DEF ReadEOE
  <2>2. conf' = conf
    BY Zenon, <1>7 DEF ReadEOE
  <2> QED
    BY Zenon, <2>1, <2>2, DoActionFlags DEF ConnectForRecord, FlagInv
<1>8. CASE ReadEof
  BY Zenon, <1>8 DEF ReadEof, FlagInv, flags
<1>9. CASE Drain
  BY Zenon, <1>9 DEF Drain, FlagInv, flags
<1>10. CASE Flush
  BY Zenon, <1>10 DEF Flush, FlagInv, flags
<1>27. CASE CloseSock
  BY Zenon, <1>27 DEF CloseSock, FlagInv, flags
<1>11. CASE GiveUp
  BY Zenon, <1>11, DoActionFlags DEF GiveUp, Return, FlagInv
<1>12. CASE Try
  BY Zenon, <1>12 DEF Try, FlagInv, flags
<1>13. CASE Send
  BY Zenon, <1>13 DEF Send, FlagInv, flags
<1>14. CASE NoAnswer
  BY Zenon, <1>14 DEF NoAnswer, FlagInv, flags
<1>15. CASE Answer
  <2>1. UNCHANGED <<conf, connected_once, hup>> /\ remote_ended' \in BOOLEAN
    BY Zenon, <1>15 DEF Answer, ReturnAfter, Return, FlagInv
  <2>2. \/ \E condition : ReturnAfter(condition)
        \/ warned' \in {warned, {}} /\ UNCHANGED <<suspend, stop>>
    BY Zenon, <1>15 DEF Answer
  <2>3. stop' \in BOOLEAN /\ suspend' \in BOOLEAN
    BY Zenon, <2>2, DoActionFlags DEF ReturnAfter, FlagInv
  <2>4. warned' \subseteq {1, 2}
    <3>1. warned' \in {warned, {}} \/ \E action : warned' = do_action(action).warned
      BY Zenon, <2>2 DEF ReturnAfter
    <3>2. warned \subseteq {1, 2} /\ \A action : do_action(action).warned \subseteq {1, 2}
      BY Zenon, DoActionFlags DEF FlagInv
    <3> QED
      BY <3>1, <3>2
  <2> QED
    BY Zenon, <2>1, <2>3, <2>4 DEF FlagInv
<1>16. CASE term_handler
  BY Zenon, <1>16 DEF term_handler, Signal, FlagInv, flags
<1>17. CASE hup_handler
  BY Zenon, <1>17 DEF hup_handler, Signal, FlagInv, flags
<1>18. CASE user2_handler
  BY Zenon, <1>18 DEF user2_handler, Signal, FlagInv, flags
<1>19. CASE ServerReads
  BY Zenon, <1>19 DEF ServerReads, ServerLogs, envVars, FlagInv, flags
<1>20. CASE \E c \in Conns : ServerFails(c)
  BY Zenon, <1>20 DEF ServerFails, envVars, FlagInv, flags
<1>21. CASE \E c \in Conns : RequestLost(c)
  BY Zenon, <1>21 DEF RequestLost, envVars, FlagInv, flags
<1>22. CASE ServerEnds
  BY Zenon, <1>22 DEF ServerEnds, envVars, FlagInv, flags
<1>23. CASE ServerStarts
  BY Zenon, <1>23 DEF ServerStarts, envVars, FlagInv, flags
<1>24. CASE ServerClosesIdle
  BY Zenon, <1>24 DEF ServerClosesIdle, envVars, FlagInv, flags
<1>25. CASE ConnectionReset
  BY Zenon, <1>25 DEF ConnectionReset, envVars, FlagInv, flags
<1>26. CASE UNCHANGED vars
  BY Zenon, <1>26 DEF vars, flags, FlagInv
<1> QED
  BY <1>1, <1>2, <1>3, <1>4, <1>5, <1>6, <1>7, <1>8, <1>9, <1>10, <1>11, <1>12, <1>13, <1>14, <1>15, <1>16, <1>17, <1>18, <1>19, <1>20, <1>21, <1>22, <1>23, <1>24, <1>25, <1>26, <1>27 DEF
    Next, vars

-----------------------------------------------------------------------------
(* The results                                                             *)

\* What holds in every configuration
Inv == ControlInv /\ DataInv /\ FlagInv /\ WireInv

(* Init establishes the invariants. *)
LEMMA InitInv == Init => Inv /\ AnswersLogged /\ QueueInv
<1> SUFFICES ASSUME Init PROVE Inv /\ AnswersLogged /\ QueueInv
  OBVIOUS
<1>1. ControlInv
  <2>1. 1 % SeqModulus \in Sequence
    BY SeqStep
  <2> QED
    BY <2>1, Bounds DEF Init, ControlInv, PCs, Callers
<1>2. DataInv
  <2>1. queue = <<>> /\ log = <<>> /\ dequeued = {} /\ conns = [c \in Conns |-> Closed] /\ pc = "top"
    BY Zenon DEF Init
  <2>2. Closed \in Conn
    BY Fresh
  <2> QED
    BY <2>1, <2>2, Bounds DEF DataInv
<1>3. FlagInv
  BY Zenon DEF Init, FlagInv
<1>4. sock = NONE /\ queue = <<>> /\ log = <<>> /\ dequeued = {}
  BY Zenon DEF Init
<1>5. \A c \in Conns : conns[c].req = NONE
  BY DEF Init, Closed
<1>6. NONE \notin Events
  BY Bounds DEF NONE, Events
<1>7. AnswersLogged /\ WireInv
  BY <1>4 DEF AnswersLogged, WireInv
<1>8. QueueInv
  BY <1>4, <1>5, <1>6 DEF QueueInv, Increasing, LogBehind, LateRequests, DequeuedIsLogged, FirstCopiesInOrder
<1> QED
  BY <1>1, <1>2, <1>3, <1>7, <1>8 DEF Inv

(* Inv is inductive. *)
LEMMA Invariant == Spec => []Inv
<1>1. Init => Inv
  BY InitInv
<1>2. Inv /\ [Next]_vars => Inv'
  BY ControlStep, FlagStep, WireStep DEF Inv
<1> QED
  BY <1>1, <1>2, PTL DEF Spec

(* In a careful configuration so are the relations of the queue and the log. *)
LEMMA CarefulInvariant == ASSUME Careful PROVE Spec => [](AnswersLogged /\ QueueInv)
<1>1. Init => AnswersLogged /\ QueueInv
  BY InitInv
<1>2. Inv /\ AnswersLogged /\ QueueInv /\ [Next]_vars => (AnswersLogged /\ QueueInv)'
  <2>1. Inv => ControlInv /\ DataInv /\ WireInv /\ conf \in Confs
    BY Zenon DEF Inv, FlagInv
  <2> QED
    BY <2>1, AnswersLoggedStep, QueueStep
<1> QED
  BY <1>1, <1>2, Invariant, PTL DEF Spec

(* Type correctness: the queue stays within queue_depth, relay_sock_managed makes at most *)
(* one try more than max_tries_per_record, and sequence_id stays below its modulus, for   *)
(* every configuration and every fault of the network.                                    *)
THEOREM TypeCorrect == Spec => []TypeOK
<1>1. Inv => TypeOK
  <2> SUFFICES ASSUME Inv PROVE TypeOK
    OBVIOUS
  <2>1. conf \in [Conditions -> Actions]
    BY Zenon, RelayAssumption DEF RelayAssumption, Inv, FlagInv
  <2>2. \A c \in Conns : /\ conns[c].req \in Events \cup {NONE, HEARTBEAT}
                         /\ conns[c].rseq \in 0 .. SeqModulus - 1
                         /\ conns[c].answers \in Seq([type : Answers, seq : 0 .. SeqModulus - 1])
                         /\ conns[c].state \in {"open", "fin", "reset"}
    BY ConnFields DEF Inv, Sequence, Message
  <2>3. {stop, hup, suspend, remote_ended, connected_once} \subseteq BOOLEAN /\ warned \subseteq {1, 2}
    BY Zenon DEF Inv, FlagInv
  <2> QED
    BY Zenon, <2>1, <2>2, <2>3 DEF Inv, TypeOK, ControlInv, DataInv, PCs, Callers, Sequence
<1> QED
  BY <1>1, Invariant, PTL

(* An answer that relay_sock_managed reads is the answer to the request it has just sent, *)
(* in every configuration: time-outs, resets, a server that ends and reconnections leave  *)
(* no late answer behind.                                                                 *)
THEOREM AnswersMatchHolds == Spec => []AnswersMatch
<1>1. Inv => AnswersMatch
  BY DEF Inv, WireInv, OnWire, AnswersMatch
<1> QED
  BY <1>1, Invariant, PTL

(* An event leaves the queue only when the server has written it to its log, for every    *)
(* configuration whose actions on a full or failing disk and on the end of the server do  *)
(* not make the plugin go on; the actions on other conditions do not matter.              *)
THEOREM DequeuedIsLoggedHolds == ASSUME Careful PROVE Spec => []DequeuedIsLogged
<1>1. QueueInv => DequeuedIsLogged
  BY DEF QueueInv
<1> QED
  BY <1>1, CarefulInvariant, PTL

(* The first copies in the server's log are in the order in which the events were read,   *)
(* although requests of closed connections may arrive late and out of turn.               *)
THEOREM FirstCopiesInOrderHolds == ASSUME Careful PROVE Spec => []FirstCopiesInOrder
<1>1. QueueInv => FirstCopiesInOrder
  BY DEF QueueInv
<1> QED
  BY <1>1, CarefulInvariant, PTL

==============================================================================
