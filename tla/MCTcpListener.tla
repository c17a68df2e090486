--------------------------- MODULE MCTcpListener ---------------------------
(***************************************************************************)
(* Small instances of TcpListener.                                         *)
(***************************************************************************)
EXTENDS TcpListener

CONSTANTS c1, c2

\* Two connections from one address.
OneAddr == [c \in Conns |-> "a"]

\* A heartbeat, which leaves room for a second one, an event
\* that fills the buffer to its last unit, one that is longer by a unit, and a line.
SomeMessages ==
  {[kind |-> "heartbeat", len |-> 0], [kind |-> "event", len |-> 3],
   [kind |-> "event", len |-> 4], [kind |-> "text", len |-> 2]}

SomeSettings ==
  {[per_addr |-> 1, idle |-> FALSE, port |-> TRUE], [per_addr |-> 2, idle |-> TRUE, port |-> TRUE],
   [per_addr |-> 2, idle |-> TRUE, port |-> FALSE]}
=============================================================================
