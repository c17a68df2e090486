---------------------------- MODULE RemoteRelay ----------------------------
(***************************************************************************)
(* audisp-remote, format = managed, transport = tcp: the main loop of the  *)
(* plugin, relay_sock_managed with its retries, and the handlers of what   *)
(* the server answers; with the network and the aggregating auditd around  *)
(* it (auditd_tcp_client_handler, client_message, write_to_log, send_ack,  *)
(* auditd_tcp_listen_uninit, periodic_handler of the server).              *)
(*                                                                         *)
(* A request the plugin has given up on may still reach the server, after  *)
(* requests of a later connection.  With tcp, transport_ok is 1 exactly    *)
(* when sock >= 0 (init_sock and stop_sock set both), so only sock is kept.*)
(* Signals arrive at any moment; one that arrives while the plugin enters  *)
(* select may or may not interrupt it.                                     *)
(***************************************************************************)
EXTENDS Integers, Sequences

CONSTANTS
  Heartbeat,   \* heartbeat_timeout > 0
  MaxTries,    \* max_tries_per_record
  QueueDepth,  \* queue_depth
  Confs,       \* the configurations: each a function from conditions to actions
  SeqModulus,  \* sequence_id counts modulo this (2^32 in the code)
  MaxEvents,   \* bound: number of events read
  MaxConns,    \* bound: connections with a request under way
  MaxFaults,   \* bound: failures of the network and of the server
  MaxSignals   \* bound: signals

Conns == 1 .. MaxConns
Events == 1 .. MaxEvents
NONE == 0            \* no socket, no request
HEARTBEAT == -1      \* the request of a heartbeat
Answers == {"ACK", "DISKLOW", "DISKFULL", "DISKERROR", "ENDING"}
Actions == {"ignore", "syslog", "exec", "warn_once", "warn_once_continue",
            "suspend", "reconnect", "single", "halt", "stop"}
Conditions == {"network_failure", "disk_low", "disk_full", "disk_error",
               "remote_ending", "startup_failure", "overflow"}

ASSUME RelayAssumption ==
  /\ Heartbeat \in BOOLEAN /\ MaxTries \in Nat \ {0} /\ QueueDepth \in Nat \ {0}
  /\ SeqModulus \in Nat \ {0} /\ MaxEvents \in Nat /\ MaxConns \in Nat \ {0}
  /\ MaxFaults \in Nat /\ MaxSignals \in Nat
  /\ Confs \subseteq [Conditions -> Actions]

VARIABLES
  conf,           \* config: the action for each condition
  pc,             \* "top", "select", "check", "read", "drain", "flush", "close", "exit"
                  \* in main; "try", "send", "recv" in relay_sock_managed
  ready,          \* what select found: subset of {"in", "sock", "out"}
  caller,         \* who called relay_event: "heartbeat", "drain", "flush"
  tries, seq,     \* n_tries_this_message, sequence_id
  stop, hup, suspend, remote_ended, connected_once,
  warned,         \* the bits of warned: subset of {1, 2}
  sock,           \* the connection in use, or NONE
  queue,          \* the events queued
  read,           \* number of events read
  conns,          \* per connection: the request the server has not read (req, with
                  \* rseq), the answers the plugin has not read, and the state
                  \* of the server's end: "open", "fin", "reset"
  server,         \* "up" or "down"
  log,            \* the events the server wrote to its log, in order
  dequeued,       \* history: events dropped from the queue after a relay
  faults, signals

flags == <<stop, hup, suspend, remote_ended, connected_once, warned>>
relay == <<caller, tries, seq>>
network == <<conns, server, log>>
vars == <<conf, pc, ready, relay, flags, sock, queue, read, network, dequeued, faults, signals>>

Closed == [req |-> NONE, rseq |-> 0, answers |-> <<>>, state |-> "fin"]
Opened == [Closed EXCEPT !.state = "open"]

Init ==
  /\ conf \in Confs
  /\ pc = "top" /\ ready = {}
  /\ caller = "drain" /\ tries = 0 /\ seq = 1 % SeqModulus
  /\ stop = FALSE /\ hup = FALSE /\ suspend = FALSE
  /\ remote_ended = TRUE /\ connected_once = FALSE /\ warned = {}
  /\ sock = NONE /\ queue = <<>> /\ read = 0
  /\ conns = [c \in Conns |-> Closed]
  /\ server = "up" /\ log = <<>> /\ dequeued = {}
  /\ faults = 0 /\ signals = 0

\* The environment fails in one of the ways the code handles
Fault == faults < MaxFaults /\ faults' = faults + 1
NoFault == UNCHANGED faults

-----------------------------------------------------------------------------
(* do_action, the sockets                                                  *)

\* mutant: a second warning is taken as handled
DoActionOnlyOnce(action) ==
  [done    |-> \/ action \in {"ignore", "syslog", "exec"}
               \/ action = "warn_once_continue"
               \/ action = "warn_once" /\ 2 \in warned,
   warned  |-> warned \cup (IF action = "warn_once_continue" THEN {1} ELSE {})
                      \cup (IF action = "warn_once" THEN {2} ELSE {}),
   suspend |-> suspend \/ action = "suspend",
   stop    |-> stop \/ action = "stop"]

\* What do_action returns (done: 0, otherwise -1) and changes
do_action(action) ==
  [done    |-> \/ action \in {"ignore", "syslog", "exec"}
               \/ action = "warn_once_continue" /\ 1 \notin warned,
   warned  |-> warned \cup (IF action = "warn_once_continue" THEN {1} ELSE {})
                      \cup (IF action = "warn_once" THEN {2} ELSE {}),
   suspend |-> suspend \/ action = "suspend",
   stop    |-> stop \/ action = "stop"]

\* stop_sock: the request on its way may still arrive, the answers are gone
stop_sock ==
  /\ sock' = NONE
  /\ conns' = IF sock = NONE THEN conns
              ELSE [conns EXCEPT ![sock] = [Closed EXCEPT !.req = conns[sock].req,
                                                          !.rseq = conns[sock].rseq]]
  /\ UNCHANGED <<server, log>>

\* A connection for init_sock: one that carries nothing any more
FreeConns == {c \in Conns : conns[c].req = NONE}
NewConn == CHOOSE c \in FreeConns : \A d \in FreeConns : c <= d

\* init_sock reaches the server
Connects ==
  /\ server = "up" /\ FreeConns # {}
  /\ sock' = NewConn
  /\ conns' = [conns EXCEPT ![NewConn] = Opened]
  /\ UNCHANGED <<server, log>>

\* init_sock fails: refused, or the name is not resolved
ConnectFails ==
  /\ \/ server = "down" /\ NoFault
     \/ server = "up" /\ Fault
  /\ UNCHANGED <<sock, network>>

-----------------------------------------------------------------------------
(* relay_event: relay_sock_managed and its return to the caller            *)

\* relay_event of the head of the queue, or of a heartbeat
RelayEvent(who) ==
  /\ caller' = who /\ tries' = 0 /\ seq' = (seq + 1) % SeqModulus
  /\ pc' = "try"

Request == IF caller = "heartbeat" THEN HEARTBEAT ELSE queue[1]

\* mutant: an event that could not be delivered is dropped as well
ReturnAlwaysDrops(done) ==
  /\ caller' = "drain" /\ tries' = 0
  /\ UNCHANGED <<seq, read, hup>>
  /\ IF caller = "heartbeat"
     THEN pc' = "top" /\ UNCHANGED <<queue, dequeued>>
     ELSE /\ pc' = caller
          /\ queue' = Tail(queue) /\ dequeued' = dequeued \cup {queue[1]}

\* relay_event returns: send_one drops the head and clears warned after a
\* success; nobody looks at the result of a heartbeat.  The locals of the call
\* are gone.
Return(done) ==
  /\ caller' = "drain" /\ tries' = 0
  /\ UNCHANGED <<seq, read, hup>>
  /\ \/ /\ caller = "heartbeat"
        /\ pc' = "top"
        /\ UNCHANGED <<queue, dequeued>>
     \/ /\ caller # "heartbeat" /\ done
        /\ pc' = caller
        /\ queue' = Tail(queue) /\ dequeued' = dequeued \cup {queue[1]}
     \/ /\ caller # "heartbeat" /\ ~done
        /\ pc' = caller
        /\ UNCHANGED <<queue, dequeued>>

\* Return with the result of an action, which sets flags; after a success
\* send_one clears warned
ReturnAfter(condition) ==
  LET result == do_action(conf[condition])
  IN  /\ Return(result.done)
      /\ warned' = IF result.done /\ caller # "heartbeat" THEN {} ELSE result.warned
      /\ suspend' = result.suspend /\ stop' = result.stop

\* try_again: the tries or the time are used up.  The result of the action is
\* not used, -1 is returned.
GiveUp ==
  /\ pc = "try" /\ tries >= 1
  /\ LET result == do_action(conf["network_failure"])
     IN  /\ Return(FALSE)
         /\ warned' = result.warned /\ suspend' = result.suspend /\ stop' = result.stop
  /\ UNCHANGED <<conf, ready, remote_ended, connected_once, sock, network, faults, signals>>

\* try_again: connect if needed.  A temporary failure of init_transport sets
\* remote_ended.
Try ==
  /\ pc = "try" /\ tries <= MaxTries
  /\ tries' = tries + 1
  /\ \/ /\ sock # NONE
        /\ pc' = "send"
        /\ NoFault /\ UNCHANGED <<sock, network, remote_ended>>
     \/ /\ sock = NONE /\ Connects
        /\ pc' = "send"
        /\ NoFault /\ UNCHANGED remote_ended
     \/ /\ sock = NONE /\ ConnectFails
        /\ pc' = "try"
        /\ remote_ended' \in {remote_ended, TRUE}
  /\ UNCHANGED <<conf, ready, caller, seq, stop, hup, suspend, connected_once, warned,
                 queue, read, dequeued, signals>>

\* send_msg_tcp.  On a connection the server has left, the data is lost or the
\* write fails.
Send ==
  /\ pc = "send"
  /\ \/ /\ conns[sock].state = "open"
        /\ conns' = [conns EXCEPT ![sock].req = Request, ![sock].rseq = seq]
        /\ pc' = "recv"
        /\ UNCHANGED <<sock, server, log>>
     \/ /\ conns[sock].state # "open"
        /\ pc' = "recv"
        /\ UNCHANGED <<sock, network>>
     \/ /\ conns[sock].state # "open"
        /\ pc' = "try"
        /\ stop_sock
  /\ UNCHANGED <<conf, ready, relay, flags, queue, read, dequeued, faults, signals>>

\* mutant: the connection is kept after a time-out
NoAnswerKeepsSock ==
  /\ pc = "recv" /\ conns[sock].answers = <<>>
  /\ \/ /\ conns[sock].state = "open" /\ Fault
        /\ UNCHANGED <<sock, network, remote_ended>>
     \/ /\ conns[sock].state = "reset" /\ NoFault
        /\ stop_sock /\ UNCHANGED remote_ended
     \/ /\ conns[sock].state = "fin" /\ NoFault
        /\ stop_sock /\ remote_ended' = TRUE
  /\ pc' = "try"
  /\ UNCHANGED <<conf, ready, relay, stop, hup, suspend, connected_once, warned,
                 queue, read, dequeued, signals>>

\* recv_msg_tcp fails: time-out, reset, or the end of the stream (ar_read then
\* sets remote_ended)
NoAnswer ==
  /\ pc = "recv" /\ conns[sock].answers = <<>>
  /\ \/ /\ conns[sock].state = "open" /\ Fault
        /\ UNCHANGED remote_ended
     \/ /\ conns[sock].state = "reset" /\ NoFault
        /\ UNCHANGED remote_ended
     \/ /\ conns[sock].state = "fin" /\ NoFault
        /\ remote_ended' = TRUE
  /\ stop_sock
  /\ pc' = "try"
  /\ UNCHANGED <<conf, ready, relay, stop, hup, suspend, connected_once, warned,
                 queue, read, dequeued, signals>>

\* An answer that leaves the connection in use is taken off it
TakeAnswer ==
  /\ conns' = [conns EXCEPT ![sock].answers = Tail(@)]
  /\ UNCHANGED <<sock, server, log>>

\* the rest of relay_sock_managed, on the answer read
Answer ==
  /\ pc = "recv" /\ conns[sock].answers # <<>>
  /\ LET answer == Head(conns[sock].answers)
     IN  \/ /\ answer.type = "ENDING"
            /\ stop_sock /\ remote_ended' = TRUE
            /\ ReturnAfter("remote_ending")
         \/ /\ answer.type # "ENDING" /\ answer.seq # seq
            /\ stop_sock
            /\ pc' = "try"
            /\ UNCHANGED <<relay, remote_ended, stop, hup, suspend, warned, queue, read, dequeued>>
         \/ /\ answer.type = "DISKLOW" /\ answer.seq = seq
            /\ TakeAnswer /\ UNCHANGED remote_ended
            /\ ReturnAfter("disk_low")
         \/ /\ answer.type = "DISKFULL" /\ answer.seq = seq
            /\ stop_sock /\ UNCHANGED remote_ended
            /\ ReturnAfter("disk_full")
         \/ /\ answer.type = "DISKERROR" /\ answer.seq = seq
            /\ stop_sock /\ UNCHANGED remote_ended
            /\ ReturnAfter("disk_error")
         \/ /\ answer.type = "ACK" /\ answer.seq = seq
            /\ TakeAnswer
            /\ Return(TRUE)
            /\ warned' = IF caller = "heartbeat" THEN warned ELSE {}
            /\ UNCHANGED <<remote_ended, suspend, stop>>
  /\ UNCHANGED <<conf, ready, connected_once, faults, signals>>

-----------------------------------------------------------------------------
(* main                                                                    *)

\* the head of the loop: leave it, or reload_config, which stops the transport.
\* Behind the loop the queue is flushed if stdin is a pipe: auditd gives its
\* plugins a socket, a filter plugin in between may give this one a pipe.
Top ==
  /\ pc = "top"
  /\ \/ /\ stop
        /\ pc' \in {"flush", "close"}
        /\ UNCHANGED <<hup, sock, network>>
     \/ /\ ~stop /\ hup
        /\ pc' = "select" /\ hup' = FALSE
        /\ stop_sock
     \/ /\ ~stop /\ ~hup
        /\ pc' = "select"
        /\ UNCHANGED <<hup, sock, network>>
  /\ UNCHANGED <<conf, ready, relay, stop, suspend, remote_ended, connected_once, warned,
                 queue, read, dequeued, faults, signals>>

SockReadable == sock # NONE /\ (conns[sock].answers # <<>> \/ conns[sock].state # "open")
SockWritable == sock # NONE /\ queue # <<>> /\ ~suspend

\* select returns with something to do
SelectReady(input) ==
  /\ pc = "select"
  /\ ready' = (IF input THEN {"in"} ELSE {}) \cup (IF SockReadable THEN {"sock"} ELSE {})
                                             \cup (IF SockWritable THEN {"out"} ELSE {})
  /\ ready' # {}
  /\ pc' = "check"
  /\ UNCHANGED <<conf, relay, flags, sock, queue, read, network, dequeued, faults, signals>>

SelectInput == SelectReady(TRUE)
SelectSocket == SelectReady(FALSE)

\* mutant: heartbeats only on a connection that exists
SelectTimeoutConnectedOnly ==
  /\ pc = "select" /\ Heartbeat /\ ~SockReadable /\ ~SockWritable
  /\ \/ /\ ~remote_ended /\ sock # NONE
        /\ RelayEvent("heartbeat")
     \/ /\ remote_ended \/ sock = NONE
        /\ pc' = "top" /\ UNCHANGED relay
  /\ UNCHANGED <<conf, ready, flags, sock, queue, read, network, dequeued, faults, signals>>

\* heartbeat_timeout has passed with nothing to read or send
SelectTimeout ==
  /\ pc = "select" /\ Heartbeat /\ ~SockReadable /\ ~SockWritable
  /\ \/ /\ ~remote_ended
        /\ RelayEvent("heartbeat")
     \/ /\ remote_ended
        /\ pc' = "top" /\ UNCHANGED relay
  /\ UNCHANGED <<conf, ready, flags, sock, queue, read, network, dequeued, faults, signals>>

\* The flags after an action whose result nobody looks at
ActOn(condition) ==
  LET result == do_action(conf[condition])
  IN  warned' = result.warned /\ suspend' = result.suspend /\ stop' = result.stop

\* check_message_managed, if the socket was readable; then back to the head of
\* the loop if a signal or an action wants it
CheckMessage ==
  /\ pc = "check"
  /\ \/ /\ "sock" \notin ready
        /\ UNCHANGED <<sock, network, remote_ended, warned, suspend, stop>>
     \/ /\ "sock" \in ready /\ conns[sock].answers = <<>>
        /\ stop_sock
        /\ remote_ended' = (remote_ended \/ conns[sock].state = "fin")
        /\ UNCHANGED <<warned, suspend, stop>>
     \/ /\ "sock" \in ready /\ conns[sock].answers # <<>>
        /\ LET answer == Head(conns[sock].answers)
           IN  \/ /\ answer.type = "ENDING"
                  /\ stop_sock /\ remote_ended' = TRUE
                  /\ ActOn("remote_ending")
               \/ /\ answer.type = "DISKLOW"
                  /\ TakeAnswer /\ UNCHANGED remote_ended
                  /\ ActOn("disk_low")
               \/ /\ answer.type \in {"DISKFULL", "DISKERROR"}
                  /\ stop_sock /\ UNCHANGED remote_ended
                  /\ ActOn(IF answer.type = "DISKFULL" THEN "disk_full" ELSE "disk_error")
               \/ /\ answer.type = "ACK"
                  /\ TakeAnswer
                  /\ UNCHANGED <<remote_ended, warned, suspend, stop>>
  /\ pc' = IF hup \/ stop' THEN "top" ELSE IF "in" \in ready THEN "read" ELSE "drain"
  /\ ready' = IF pc' = "top" THEN {} ELSE ready \ {"sock"}
  /\ UNCHANGED <<conf, relay, hup, connected_once, queue, read, dequeued, faults, signals>>

\* a record makes the plugin connect if the server had ended, or was never reached
WantsConnection ==
  /\ sock = NONE /\ remote_ended
  /\ conf["remote_ending"] = "reconnect" \/ ~connected_once

\* the reconnection a record causes, before anything else is done with it;
\* overflow: the record then overflows the queue and that suspends the plugin
ConnectForRecord(overflow) ==
  \/ /\ ~WantsConnection
     /\ suspend' = (suspend \/ overflow)
     /\ NoFault /\ UNCHANGED <<sock, network, hup, stop, warned, remote_ended, connected_once>>
  \/ /\ WantsConnection /\ Connects
     /\ remote_ended' = FALSE /\ connected_once' = TRUE
     /\ suspend' = (suspend \/ overflow)
     /\ NoFault /\ UNCHANGED <<hup, stop, warned>>
  \/ /\ WantsConnection /\ ConnectFails /\ connected_once
     /\ suspend' = (suspend \/ overflow)
     /\ UNCHANGED <<hup, stop, warned, remote_ended, connected_once>>
  \/ /\ WantsConnection /\ ConnectFails /\ ~connected_once
     /\ LET result == do_action(conf["startup_failure"])
        IN  /\ warned' = result.warned /\ stop' = result.stop
            /\ suspend' = (result.suspend \/ overflow)
     /\ UNCHANGED <<hup, remote_ended, connected_once>>

\* an event is queued, or dropped with the overflow action
ReadEvent ==
  /\ pc = "read" /\ read < MaxEvents
  /\ read' = read + 1
  /\ \/ /\ Len(queue) < QueueDepth
        /\ queue' = Append(queue, read + 1)
        /\ ConnectForRecord(FALSE)
     \/ /\ Len(queue) >= QueueDepth
        /\ ConnectForRecord(conf["overflow"] = "suspend")
        /\ UNCHANGED queue
  /\ pc' \in {"read", "drain"}
  /\ UNCHANGED <<conf, ready, relay, dequeued, signals>>

\* an EOE record is not queued
ReadEOE ==
  /\ pc = "read"
  /\ ConnectForRecord(FALSE)
  /\ pc' \in {"read", "drain"}
  /\ UNCHANGED <<conf, ready, relay, queue, read, dequeued, signals>>

\* auditd has closed the pipe
ReadEof ==
  /\ pc = "read"
  /\ stop' = TRUE /\ pc' = "drain"
  /\ UNCHANGED <<conf, ready, relay, hup, suspend, remote_ended, connected_once, warned,
                 sock, queue, read, network, dequeued, faults, signals>>

\* send_one until the queue is empty or something is wrong, if the socket was
\* writable
Drain ==
  /\ pc = "drain"
  /\ LET go == "out" \in ready /\ sock # NONE /\ queue # <<>> /\ ~suspend /\ ~stop
     IN  \/ /\ go
            /\ RelayEvent("drain") /\ UNCHANGED ready
         \/ /\ ~go
            /\ pc' = "top" /\ ready' = {} /\ UNCHANGED relay
  /\ UNCHANGED <<conf, flags, sock, queue, read, network, dequeued, faults, signals>>

\* mutant: the queue is flushed whether there is a connection or not; send_one
\* returns at once without one
FlushDisconnected ==
  /\ pc = "flush"
  /\ \/ /\ queue # <<>> /\ ~suspend /\ sock # NONE
        /\ RelayEvent("flush")
     \/ /\ queue # <<>> /\ ~suspend /\ sock = NONE
        /\ UNCHANGED <<pc, relay>>
     \/ /\ queue = <<>> \/ suspend
        /\ pc' = "close" /\ UNCHANGED relay
  /\ UNCHANGED <<conf, ready, flags, sock, queue, read, network, dequeued, faults, signals>>

\* send_one until the queue is empty or something is wrong; stop is set already
Flush ==
  /\ pc = "flush"
  /\ \/ /\ queue # <<>> /\ ~suspend /\ sock # NONE
        /\ RelayEvent("flush")
     \/ /\ queue = <<>> \/ suspend \/ sock = NONE
        /\ pc' = "close" /\ UNCHANGED relay
  /\ UNCHANGED <<conf, ready, flags, sock, queue, read, network, dequeued, faults, signals>>

\* the socket is closed and the process ends
CloseSock ==
  /\ pc = "close"
  /\ pc' = "exit" /\ stop_sock
  /\ UNCHANGED <<conf, ready, relay, flags, queue, read, dequeued, faults, signals>>

Plugin ==
  \/ Top \/ SelectSocket \/ CheckMessage
  \/ ReadEvent \/ ReadEOE \/ Drain \/ Flush \/ CloseSock
  \/ GiveUp \/ Try \/ Send \/ NoAnswer \/ Answer

-----------------------------------------------------------------------------
(* Signals                                                                 *)

\* A signal interrupts select, unless it arrives just before
Signal ==
  /\ pc # "exit"
  /\ signals < MaxSignals /\ signals' = signals + 1
  /\ pc' \in (IF pc = "select" THEN {"select", "top"} ELSE {pc})
  /\ UNCHANGED <<conf, ready, relay, remote_ended, connected_once, warned,
                 sock, queue, read, network, dequeued, faults>>

term_handler  == Signal /\ stop' = TRUE /\ UNCHANGED <<hup, suspend>>
hup_handler   == Signal /\ hup' = TRUE /\ UNCHANGED <<stop, suspend>>
user2_handler == Signal /\ suspend' = FALSE /\ UNCHANGED <<stop, hup>>

-----------------------------------------------------------------------------
(* The server and the network                                              *)

\* An answer reaches the plugin if it still has the connection
Answered(c, type) ==
  [conns EXCEPT ![c] = IF c = sock /\ conns[c].state = "open"
                       THEN [conns[c] EXCEPT !.req = NONE, !.rseq = 0,
                               !.answers = Append(@, [type |-> type, seq |-> conns[c].rseq])]
                       ELSE [conns[c] EXCEPT !.req = NONE, !.rseq = 0]]

envVars == <<conf, pc, ready, relay, flags, sock, queue, read, dequeued, signals>>

\* The server reads a request: a heartbeat is acknowledged, an event is written
\* to the log and acknowledged
ServerLogs(c) ==
  /\ server = "up" /\ conns[c].req # NONE
  /\ log' = IF conns[c].req = HEARTBEAT THEN log ELSE Append(log, conns[c].req)
  /\ \E type \in IF conns[c].req = HEARTBEAT THEN {"ACK"} ELSE {"ACK", "DISKLOW"} :
       conns' = Answered(c, type)
  /\ NoFault /\ UNCHANGED <<envVars, server>>

\* the server could not write the event
ServerFails(c) ==
  /\ server = "up" /\ conns[c].req \notin {NONE, HEARTBEAT}
  /\ \E type \in {"DISKFULL", "DISKERROR"} : conns' = Answered(c, type)
  /\ Fault /\ UNCHANGED <<envVars, server, log>>

\* what the plugin had sent on a connection that is over never arrives
RequestLost(c) ==
  /\ conns[c].req # NONE /\ (c # sock \/ conns[c].state # "open")
  /\ conns' = [conns EXCEPT ![c].req = NONE, ![c].rseq = 0]
  /\ NoFault /\ UNCHANGED <<envVars, server, log>>

\* The server says that it ends and closes its connections; what it has not
\* read is lost
ServerEnds ==
  /\ server = "up" /\ server' = "down"
  /\ conns' = [c \in Conns |->
       IF c = sock /\ conns[c].state = "open"
       THEN [conns[c] EXCEPT !.req = NONE, !.rseq = 0, !.state = "fin",
                             !.answers = Append(@, [type |-> "ENDING", seq |-> 0])]
       ELSE [conns[c] EXCEPT !.req = NONE, !.rseq = 0]]
  /\ Fault /\ UNCHANGED <<envVars, log>>

ServerStarts ==
  /\ server = "down" /\ server' = "up"
  /\ NoFault /\ UNCHANGED <<envVars, conns, log>>

\* periodic_handler closes an idle connection without a word
ServerClosesIdle ==
  /\ server = "up" /\ sock # NONE
  /\ conns[sock] = Opened
  /\ conns' = [conns EXCEPT ![sock].state = "fin"]
  /\ Fault /\ UNCHANGED <<envVars, server, log>>

ConnectionReset ==
  /\ sock # NONE /\ conns[sock].state = "open"
  /\ conns' = [conns EXCEPT ![sock].state = "reset", ![sock].answers = <<>>]
  /\ Fault /\ UNCHANGED <<envVars, server, log>>

-----------------------------------------------------------------------------
ServerReads == \E c \in Conns : ServerLogs(c)

Next ==
  \/ Top \/ SelectInput \/ SelectSocket \/ SelectTimeout \/ CheckMessage
  \/ ReadEvent \/ ReadEOE \/ ReadEof \/ Drain \/ Flush \/ CloseSock
  \/ GiveUp \/ Try \/ Send \/ NoAnswer \/ Answer
  \/ term_handler \/ hup_handler \/ user2_handler
  \/ ServerReads \/ (\E c \in Conns : ServerFails(c)) \/ (\E c \in Conns : RequestLost(c))
  \/ ServerEnds \/ ServerStarts \/ ServerClosesIdle \/ ConnectionReset

\* The plugin runs, records keep arriving, there are pauses between them that
\* are longer than heartbeat_timeout, and a server that is up reads what it gets
Fairness ==
  /\ WF_vars(Plugin) /\ SF_vars(SelectInput) /\ SF_vars(SelectTimeout)
  /\ WF_vars(ServerReads) /\ WF_vars(ServerStarts)

Spec == Init /\ [][Next]_vars /\ Fairness

-----------------------------------------------------------------------------
(* Properties                                                              *)

\* Type correctness; the queue stays within queue_depth, and relay_sock_managed makes
\* at most one try more than max_tries_per_record.
TypeOK ==
  /\ conf \in [Conditions -> Actions]
  /\ pc \in {"top", "select", "check", "read", "drain", "flush", "close", "exit", "try", "send",
            "recv"}
  /\ ready \subseteq {"in", "sock", "out"}
  /\ caller \in {"heartbeat", "drain", "flush"}
  /\ tries \in 0 .. MaxTries + 1 /\ seq \in 0 .. SeqModulus - 1
  /\ {stop, hup, suspend, remote_ended, connected_once} \subseteq BOOLEAN
  /\ warned \subseteq {1, 2}
  /\ sock \in Conns \cup {NONE}
  /\ queue \in Seq(Events) /\ Len(queue) <= QueueDepth
  /\ read \in 0 .. MaxEvents
  /\ \A c \in Conns : /\ conns[c].req \in Events \cup {NONE, HEARTBEAT}
                      /\ conns[c].rseq \in 0 .. SeqModulus - 1
                      /\ conns[c].answers \in Seq([type : Answers, seq : 0 .. SeqModulus - 1])
                      /\ conns[c].state \in {"open", "fin", "reset"}
  /\ server \in {"up", "down"}
  /\ log \in Seq(Events) /\ dequeued \subseteq Events
  /\ faults \in 0 .. MaxFaults /\ signals \in 0 .. MaxSignals

\* An event leaves the queue only when the server has written it to its log,
\* whatever the answers, time-outs, resets and reconnections on the way
\* (relay_sock_managed, do_action, send_one), if no action says to go on.
DequeuedIsLogged == \A e \in dequeued : \E k \in 1 .. Len(log) : log[k] = e

\* The log may hold copies, even late ones that follow younger events, but the
\* first copies are in the order the events were queued.
FirstCopiesInOrder ==
  \A i, j \in 1 .. Len(log) :
    (i < j /\ log[j] < log[i]) => \E k \in 1 .. i - 1 : log[k] = log[j]

\* An answer that arrives is the answer to the request that waits for it: every
\* failed exchange closes its connection, so a late answer has nowhere to go.
AnswersMatch ==
  \A k \in 1 .. IF sock = NONE THEN 0 ELSE Len(conns[sock].answers) :
    conns[sock].answers[k].type # "ENDING" =>
      pc = "recv" /\ conns[sock].answers[k].seq = seq /\ conns[sock].req = NONE

\* The action on low space at the server always takes the event for sent, or
\* suspends the plugin: after any other, an event the server has just logged may
\* be sent again, and again.
DiskLowSettled == conf["disk_low"] \in {"ignore", "syslog", "exec", "suspend"}

\* With heartbeats, no queued event waits for ever: it is relayed, or the plugin
\* stops or is suspended.  Reconnecting is left to heartbeats and to the next
\* record.
Delivered ==
  \A e \in Events :
    DiskLowSettled /\ (\E k \in 1 .. Len(queue) : queue[k] = e)
      ~> (e \in dequeued \/ stop \/ suspend)

\* A plugin that is told to stop ends, whether stdin is a pipe or not: the loop
\* that flushes the queue does not go on without a connection, nor for ever on
\* one, whatever the server answers.  Excepted is a disk_low_action after which
\* an event is sent again: that loop does not look at stop, and goes on as long
\* as the server is low on space.
StopEnds == stop /\ DiskLowSettled ~> pc = "exit"
=============================================================================
