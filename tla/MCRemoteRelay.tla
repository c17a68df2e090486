--------------------------- MODULE MCRemoteRelay ---------------------------
(* Configurations for the model checker: the one that is shipped, and one  *)
(* that goes on after network failures and is suspended by overflow.       *)
EXTENDS RemoteRelay

Shipped ==
  [c \in Conditions |->
     CASE c = "network_failure" -> "stop"
       [] c = "disk_low" -> "ignore"
       [] c \in {"disk_full", "disk_error"} -> "warn_once"
       [] c = "remote_ending" -> "reconnect"
       [] c = "startup_failure" -> "warn_once_continue"
       [] c = "overflow" -> "syslog"]

Persistent ==
  [Shipped EXCEPT !["network_failure"] = "warn_once", !["disk_full"] = "suspend",
                  !["overflow"] = "suspend"]

PersistentOnly == {Persistent}
ShippedOnly == {Shipped}
=============================================================================
