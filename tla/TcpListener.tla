---------------------------- MODULE TcpListener ----------------------------
(***************************************************************************)
(* The server side of the remote protocol (auditd-listen.c, without        *)
(* Kerberos): connections are accepted, counted per address, closed when   *)
(* idle and at the end, and the stream of each is cut into messages again. *)
(*                                                                         *)
(* A connection carries messages of Size units.  A framed message is a     *)
(* header of Header units, of which the first Magic are the magic number   *)
(* and the last tells type and length, and a body; a text message is a     *)
(* line without a header.  A unit <<n, i>> is unit i of message n.  How    *)
(* much of what was sent has arrived is decided when it is read, so every  *)
(* fragmentation happens.  The handlers run one at a time in the event     *)
(* loop; between the reads of one handler more may arrive.                 *)
(***************************************************************************)
EXTENDS Integers, Sequences, Functions, FiniteSets

CONSTANTS
  Conns,       \* connections
  Addr,        \* the address each comes from
  Senders,     \* bound: the connections that are used; the others stay silent
  Messages,    \* what a client may send: records of kind and len
  MAX,         \* MAX_AUDIT_MESSAGE_LENGTH, in units
  Header,      \* AUDIT_RMW_HEADER_SIZE, in units
  Magic,       \* units of the magic number
  Settings,    \* configurations: records of per_addr, idle, port
  MaxMessages, \* bound: messages of a connection
  MaxReconfigs \* bound: reconfigurations

ASSUME ListenerAssumption ==
  /\ MAX \in Nat /\ Header \in 1 .. MAX /\ Magic \in 1 .. (Header - 1)
  /\ Messages \subseteq [kind : {"event", "heartbeat", "text"}, len : 0 .. 2 * MAX]
  /\ \A m \in Messages : m.kind = "text" => m.len > 0   \* a line has its line feed
  /\ Settings \subseteq [per_addr : Nat, idle : BOOLEAN, port : BOOLEAN]
  /\ MaxMessages \in Nat /\ MaxReconfigs \in Nat

VARIABLES
  state,     \* per connection: "new", "pending" (to be accepted), "open", "refused", "closed"
  peer,      \* what the client did with it: "open", "closed", "reset"
  sent,      \* the messages the client wrote
  wire,      \* units sent and not read, arrived or not
  buffer,    \* bufptr units, and during a handler r new ones
  active,    \* client_active
  log,       \* the events handed to distribute_event: connection, message and text
  answers,   \* per connection: the messages acknowledged, ENDING and STALE
  handler,   \* the running handler: the connection, its step, r, total_this_call > 0
  conf,      \* the configuration
  listening, timer, over,  \* sockets are open; periodic_watcher runs; the daemon has ended
  reconfigs

connVars == <<state, peer, sent, wire>>
serverVars == <<conf, listening, timer, over, reconfigs>>
vars == <<connVars, buffer, active, log, answers, handler, serverVars>>

NoConn == "none"
ENDING == 0    \* the answer that ends a connection; it has no sequence number

\* An answer whose sequence number was found in the buffer behind the end of a cut
\* header: that of an earlier message, which is then acknowledged again, or nobody's.
STALE == MaxMessages + 1

Idle == [conn |-> NoConn, step |-> "idle", r |-> 0, total |-> FALSE]
Chain == {c \in Conns : state[c] = "open"}

\* auditd_tcp_listen_init
Init ==
  /\ state = [c \in Conns |-> "new"] /\ peer = [c \in Conns |-> "open"]
  /\ sent = [c \in Conns |-> <<>>] /\ wire = [c \in Conns |-> <<>>]
  /\ buffer = [c \in Conns |-> <<>>] /\ active = [c \in Conns |-> FALSE]
  /\ log = <<>> /\ answers = [c \in Conns |-> <<>>] /\ handler = Idle
  /\ conf \in {s \in Settings : s.port}
  /\ listening = TRUE /\ timer = conf.idle /\ over = FALSE /\ reconfigs = 0

-----------------------------------------------------------------------------
(* Messages in the buffer                                                  *)

Size(m) == m.len + (IF m.kind = "text" THEN 0 ELSE Header)
Units(n, m) == [i \in 1 .. Size(m) |-> <<n, i>>]

\* AUDIT_RMW_IS_MAGIC of the first length units
IsMagic(c, length) ==
  /\ length >= Magic
  /\ \A i \in 1 .. Magic : LET u == buffer[c][i] IN sent[c][u[1]].kind # "text" /\ u[2] = i

\* A line feed ends a text message, and the body of a framed one
IsLF(c, u) == u[2] = Size(sent[c][u[1]]) /\ sent[c][u[1]].len > 0

\* mutant: heartbeats are not acknowledged
ClientMessageNoHeartbeat(c, length) ==
  IF ~IsMagic(c, length) \/ length < Header \/ sent[c][buffer[c][Header][1]].kind = "heartbeat"
  THEN UNCHANGED <<log, answers>>
  ELSE LET n == buffer[c][Header][1]
       IN  /\ log' = Append(log, [conn |-> c, msg |-> n, text |-> SubSeq(buffer[c], Header + 1, length)])
           /\ answers' = [answers EXCEPT ![c] = Append(@, n)]

\* client_message of the first length units: a framed message is acknowledged, as a
\* heartbeat or after it was logged, anything else is dropped.  Only at the end of a
\* connection can it be cut; when it is cut in its header, type, number and text are
\* what an earlier message left in the buffer, and it is acknowledged all the same.
ClientMessage(c, length) ==
  CASE ~IsMagic(c, length) -> UNCHANGED <<log, answers>>
    [] IsMagic(c, length) /\ length < Header ->
         /\ log' = log \/ log' = Append(log, [conn |-> c, msg |-> 0, text |-> <<>>])
         /\ answers' = [answers EXCEPT ![c] = Append(@, STALE)]
    [] IsMagic(c, length) /\ length >= Header ->
         LET n == buffer[c][Header][1]
         IN  /\ log' = IF sent[c][n].kind = "heartbeat" THEN log
                       ELSE Append(log, [conn |-> c, msg |-> n,
                                         text |-> SubSeq(buffer[c], Header + 1, length)])
             /\ answers' = [answers EXCEPT ![c] = Append(@, n)]

\* release_client and free
Release(conns) ==
  /\ state' = [c \in Conns |-> IF c \in conns THEN "closed" ELSE state[c]]
  /\ wire' = [c \in Conns |-> IF c \in conns THEN <<>> ELSE wire[c]]
  /\ buffer' = [c \in Conns |-> IF c \in conns THEN <<>> ELSE buffer[c]]

-----------------------------------------------------------------------------
(* auditd_tcp_client_handler                                               *)

Readable(c) == wire[c] # <<>> \/ peer[c] # "open"

ClientHandler(c) ==
  /\ handler = Idle /\ ~over /\ c \in Chain /\ Readable(c)
  /\ active' = [active EXCEPT ![c] = TRUE]
  /\ handler' = [conn |-> c, step |-> "read", r |-> 0, total |-> FALSE]
  /\ UNCHANGED <<connVars, buffer, log, answers, serverVars>>

\* mutant: the room that is left is not counted
RoomWhole(c) == MAX

\* how much a read may return
Room(c) == MAX - Len(buffer[c])

\* read_more: something was read
ReadMore(c) ==
  /\ handler.conn = c /\ handler.step = "read" /\ peer[c] # "reset"
  /\ \E r \in 1 .. Len(wire[c]) :
       /\ r <= Room(c)
       /\ buffer' = [buffer EXCEPT ![c] = @ \o SubSeq(wire[c], 1, r)]
       /\ wire' = [wire EXCEPT ![c] = SubSeq(@, r + 1, Len(@))]
       /\ handler' = [handler EXCEPT !.step = "parse", !.r = r, !.total = TRUE]
  /\ UNCHANGED <<state, peer, sent, active, log, answers, serverVars>>

\* A read that returns 0: the end of the stream, no room, or, but not at once after
\* the socket became readable, no data.
ReadsNothing(c) ==
  /\ handler.conn = c /\ handler.step = "read" /\ peer[c] # "reset"
  /\ wire[c] = <<>> \/ Room(c) = 0 \/ handler.total

\* all was read
ReadNothingMore(c) ==
  /\ ReadsNothing(c) /\ handler.total
  /\ handler' = Idle
  /\ UNCHANGED <<connVars, buffer, active, log, answers, serverVars>>

\* Nothing to read at once, or an error: the connection is closed, after what is in
\* the buffer was handled as a last message.
ReadEnd(c) ==
  /\ \/ ReadsNothing(c) /\ ~handler.total
     \/ handler.conn = c /\ handler.step = "read" /\ peer[c] = "reset"
  /\ IF buffer[c] # <<>> THEN ClientMessage(c, Len(buffer[c])) ELSE UNCHANGED <<log, answers>>
  /\ Release({c})
  /\ handler' = Idle
  /\ active' = [active EXCEPT ![c] = FALSE]
  /\ UNCHANGED <<peer, sent, serverVars>>

\* more_messages: the message needs more units
WaitForMore(c) ==
  /\ handler' = Idle
  /\ UNCHANGED <<connVars, buffer, active, log, answers, serverVars>>

\* mutant: the rest waits for the next read
ConsumeAndRead(c, i) ==
  /\ ClientMessage(c, i)
  /\ buffer' = [buffer EXCEPT ![c] = SubSeq(@, i + 1, Len(@))]
  /\ handler' = [handler EXCEPT !.step = "read", !.r = 0]
  /\ UNCHANGED <<connVars, active, serverVars>>

\* a message of i units is complete: handle it, move the rest to the front, and go
\* on with the rest if there is one
Consume(c, i) ==
  /\ ClientMessage(c, i)
  /\ buffer' = [buffer EXCEPT ![c] = SubSeq(@, i + 1, Len(@))]
  /\ handler' = IF Len(buffer[c]) > i
                THEN [handler EXCEPT !.r = Len(buffer[c]) - i]
                ELSE [handler EXCEPT !.step = "read", !.r = 0]
  /\ UNCHANGED <<connVars, active, serverVars>>

Parsing(c) == handler.conn = c /\ handler.step = "parse"

\* mutant: the header is not counted, so the body may be handled before its end
MoreFramedShort(c) ==
  /\ Parsing(c) /\ IsMagic(c, Len(buffer[c]))
  /\ \/ Len(buffer[c]) < Header /\ WaitForMore(c)
     \/ /\ Len(buffer[c]) >= Header
        /\ LET len == sent[c][buffer[c][Header][1]].len
           IN  \/ (len > MAX \/ Len(buffer[c]) < len) /\ WaitForMore(c)
               \/ len <= MAX /\ Len(buffer[c]) >= len /\ Consume(c, Len(buffer[c]))

\* the buffer begins with a magic number
MoreFramed(c) ==
  /\ Parsing(c) /\ IsMagic(c, Len(buffer[c]))
  /\ \/ Len(buffer[c]) < Header /\ WaitForMore(c)
     \/ /\ Len(buffer[c]) >= Header
        /\ LET len == sent[c][buffer[c][Header][1]].len
           IN  \/ (len > MAX \/ Len(buffer[c]) < len + Header) /\ WaitForMore(c)
               \/ len <= MAX /\ Len(buffer[c]) >= len + Header /\ Consume(c, len + Header)

\* it does not, or not yet: look for a line feed among the r new units
MoreText(c) ==
  LET new == Len(buffer[c]) - handler.r + 1 .. Len(buffer[c])
      ends == {i \in new : IsLF(c, buffer[c][i])}
  IN  /\ Parsing(c) /\ ~IsMagic(c, Len(buffer[c]))
      /\ \/ ends = {} /\ WaitForMore(c)
         \/ \E i \in ends : (\A j \in ends : i <= j) /\ Consume(c, i)

-----------------------------------------------------------------------------
(* Connections                                                             *)

SameAddr(c) == {x \in Chain : Addr[x] = Addr[c]}

\* check_num_connections
CheckNumConnections(c) == SameAddr(c) # {} /\ Cardinality(SameAddr(c)) >= conf.per_addr

\* auditd_tcp_listen_handler: a connection is refused for its port, by libwrap or for
\* its number, or joins the list
ListenHandler(c) ==
  /\ handler = Idle /\ listening /\ state[c] = "pending"
  /\ \/ state' = [state EXCEPT ![c] = "refused"] /\ UNCHANGED <<active, buffer>>
     \/ /\ ~CheckNumConnections(c)
        /\ state' = [state EXCEPT ![c] = "open"]
        /\ active' = [active EXCEPT ![c] = TRUE]
        /\ buffer' = [buffer EXCEPT ![c] = <<>>]
  /\ UNCHANGED <<peer, sent, wire, log, answers, handler, serverVars>>

\* periodic_handler
PeriodicHandler ==
  /\ handler = Idle /\ timer /\ ~over
  /\ conf.idle
  /\ Release({c \in Chain : ~active[c]})
  /\ active' = [c \in Conns |-> FALSE]
  /\ UNCHANGED <<peer, sent, log, answers, handler, serverVars>>

\* mutant: the timer is set but not started
PeriodicReconfigureNoStart(old, new) == IF old.port /\ new.idle THEN timer ELSE FALSE

\* periodic_reconfigure, which still sees the old port
PeriodicReconfigure(old, new) == old.port /\ new.idle

\* auditd_tcp_listen_reconfigure; the port and its sockets stay as they are
Reconfigure ==
  /\ handler = Idle /\ ~over /\ reconfigs < MaxReconfigs
  /\ reconfigs' = reconfigs + 1
  /\ \E new \in Settings \ {conf} :
       /\ conf' = new
       /\ timer' = IF new.idle # conf.idle THEN PeriodicReconfigure(conf, new) ELSE timer
  /\ UNCHANGED <<connVars, buffer, active, log, answers, handler, listening, over>>

\* auditd_tcp_listen_uninit when the daemon ends: every client is told and closed, but
\* nothing is done if the configuration has no port any more
Uninit ==
  /\ handler = Idle /\ ~over
  /\ over' = TRUE
  /\ IF conf.port
     THEN /\ listening' = FALSE
          /\ answers' = [c \in Conns |-> IF c \in Chain THEN Append(answers[c], ENDING) ELSE answers[c]]
          /\ Release(Chain)
          /\ timer' = (timer /\ ~conf.idle)
     ELSE UNCHANGED <<listening, answers, state, wire, buffer, timer>>
  /\ UNCHANGED <<peer, sent, active, log, handler, conf, reconfigs>>

-----------------------------------------------------------------------------
(* Clients and the network                                                 *)

Connect(c) ==
  /\ state[c] = "new" /\ listening
  /\ state' = [state EXCEPT ![c] = "pending"]
  /\ UNCHANGED <<peer, sent, wire, buffer, active, log, answers, handler, serverVars>>

Connected(c) == ~over /\ c \in Senders /\ state[c] \in {"pending", "open"} /\ peer[c] = "open"

ClientSends(c) ==
  /\ Connected(c) /\ Len(sent[c]) < MaxMessages
  /\ \E m \in Messages :
       /\ sent' = [sent EXCEPT ![c] = Append(@, m)]
       /\ wire' = [wire EXCEPT ![c] = @ \o Units(Len(sent[c]) + 1, m)]
  /\ UNCHANGED <<state, peer, buffer, active, log, answers, handler, serverVars>>

\* The client ends, perhaps in the middle of a message, or the connection breaks
\* and what was not read is gone.
ClientCloses(c) ==
  /\ Connected(c)
  /\ peer' = [peer EXCEPT ![c] = "closed"]
  /\ \E k \in 0 .. Len(wire[c]) : wire' = [wire EXCEPT ![c] = SubSeq(@, 1, k)]
  /\ UNCHANGED <<state, sent, buffer, active, log, answers, handler, serverVars>>

ConnectionBreaks(c) ==
  /\ Connected(c)
  /\ peer' = [peer EXCEPT ![c] = "reset"]
  /\ wire' = [wire EXCEPT ![c] = <<>>]
  /\ UNCHANGED <<state, sent, buffer, active, log, answers, handler, serverVars>>

-----------------------------------------------------------------------------
Handler(c) ==
  \/ ClientHandler(c) \/ ReadMore(c) \/ ReadNothingMore(c) \/ ReadEnd(c)
  \/ MoreFramed(c) \/ MoreText(c)

Next ==
  \/ (\E c \in Conns : ClientHandler(c)) \/ (\E c \in Conns : ReadMore(c))
  \/ (\E c \in Conns : ReadNothingMore(c)) \/ (\E c \in Conns : ReadEnd(c))
  \/ (\E c \in Conns : MoreFramed(c)) \/ (\E c \in Conns : MoreText(c))
  \/ (\E c \in Conns : ListenHandler(c)) \/ PeriodicHandler \/ Reconfigure \/ Uninit
  \/ (\E c \in Conns : Connect(c)) \/ (\E c \in Conns : ClientSends(c))
  \/ (\E c \in Conns : ClientCloses(c))
  \/ (\E c \in Conns : ConnectionBreaks(c))

\* The event loop serves every connection on which something arrived, the timer
\* fires, and what was sent arrives.
Fairness ==
  /\ \A c \in Conns : SF_vars(ClientHandler(c)) /\ WF_vars(Handler(c))
  /\ WF_vars(PeriodicHandler)

Spec == Init /\ [][Next]_vars /\ Fairness

-----------------------------------------------------------------------------
(* Properties                                                              *)

\* Type correctness; what is in a buffer never exceeds MAX_AUDIT_MESSAGE_LENGTH.
TypeOK ==
  /\ state \in [Conns -> {"new", "pending", "open", "refused", "closed"}]
  /\ peer \in [Conns -> {"open", "closed", "reset"}]
  /\ \A c \in Conns : /\ Len(buffer[c]) <= MAX /\ Len(sent[c]) <= MaxMessages
                      /\ \A n \in 1 .. Len(sent[c]) : sent[c][n] \in Messages
  /\ active \in [Conns -> BOOLEAN]
  /\ handler.conn \in Conns \cup {NoConn} /\ handler.step \in {"idle", "read", "parse"}
  /\ handler.r \in 0 .. MAX /\ handler.total \in BOOLEAN
  /\ conf \in Settings /\ {listening, timer, over} \subseteq BOOLEAN
  /\ reconfigs \in 0 .. MaxReconfigs

Framed(c) == {n \in 1 .. Len(sent[c]) : sent[c][n].kind # "text"}
Earlier(i) == {j \in 1 .. i - 1 : log[j].conn = log[i].conn}
Whole(c, e) ==
  e.msg # 0 /\ e.text = [i \in 1 .. sent[c][e.msg].len |-> <<e.msg, Header + i>>]

\* However the stream is cut into reads, the events logged for a connection are the
\* ones its client sent, whole, in order and once each: the entries before that of
\* message n are those of the events before n.  Only the last entry of a connection
\* that has ended may be cut.
Intact ==
  \A i \in 1 .. Len(log) : LET c == log[i].conn
                              n == log[i].msg IN
    \/ /\ Whole(c, log[i]) /\ n \in 1 .. Len(sent[c]) /\ sent[c][n].kind = "event"
       /\ {log[j].msg : j \in Earlier(i)} = {m \in 1 .. n - 1 : sent[c][m].kind = "event"}
    \/ /\ ~Whole(c, log[i]) /\ state[c] = "closed"
       /\ \A j \in i + 1 .. Len(log) : log[j].conn # c

\* While a connection is open heartbeats and events are acknowledged in the order
\* they were sent, each once and none left out; nothing follows the answer that ends
\* a connection.  One answer may carry another number, and so answer an earlier
\* message twice: the last one of a connection that ended within a header.
AnswersInOrder ==
  \A c \in Conns : \A i \in 1 .. Len(answers[c]) : LET n == answers[c][i] IN
    \/ n \in Framed(c) /\ {answers[c][j] : j \in 1 .. i - 1} = {m \in Framed(c) : m < n}
    \/ n = ENDING /\ i = Len(answers[c])
    \/ n = STALE /\ i = Len(answers[c]) /\ state[c] = "closed"

\* Nothing stays in a buffer: again and again every message of an open connection
\* has been handled, or the connection is closed.
NothingStuck ==
  \A c \in Senders :
    []<>(state[c] # "open" \/ over \/ Framed(c) \subseteq Range(answers[c]))

\* With tcp_client_max_idle set, a connection over which nothing comes is closed,
\* also if the setting was made by a reconfigure.
SilentIsClosed ==
  \A c \in Conns :
    []<>(state[c] # "open" \/ Readable(c) \/ ~conf.idle \/ ~conf.port \/ over)
=============================================================================
