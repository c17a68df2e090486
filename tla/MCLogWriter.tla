---------------------------- MODULE MCLogWriter ----------------------------
(***************************************************************************)
(* Small instances of LogWriter.                                           *)
(***************************************************************************)
EXTENDS LogWriter

Base ==
  [write_logs |-> TRUE, num_logs |-> 3, size_action |-> "rotate", space_action |-> "syslog",
   admin_action |-> "suspend", full_action |-> "suspend", error_action |-> "suspend"]

\* Each action somewhere, and the combinations that nest: a rotation that meets a
\* full disk whose action is to rotate, with errors that suspend, halt or do not.
RotateConfigs ==
  {Base,
   [Base EXCEPT !.full_action = "rotate"],
   [Base EXCEPT !.full_action = "rotate", !.error_action = "syslog", !.space_action = "rotate"],
   [Base EXCEPT !.admin_action = "rotate", !.full_action = "ignore", !.error_action = "ignore",
                !.num_logs = 2],
   [Base EXCEPT !.full_action = "halt", !.admin_action = "halt", !.error_action = "halt"],
   [Base EXCEPT !.num_logs = 0, !.space_action = "suspend", !.admin_action = "ignore"],
   [Base EXCEPT !.write_logs = FALSE]}

SizeConfigs ==
  {Base,
   [Base EXCEPT !.size_action = "suspend"],
   [Base EXCEPT !.size_action = "keep_logs", !.full_action = "rotate", !.space_action = "rotate"],
   [Base EXCEPT !.size_action = "ignore", !.admin_action = "syslog", !.error_action = "syslog"]}

AllConfigs == RotateConfigs \cup SizeConfigs
=============================================================================
