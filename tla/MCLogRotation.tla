--------------------------- MODULE MCLogRotation ---------------------------
(***************************************************************************)
(* Small instances of LogRotation.                                         *)
(***************************************************************************)
EXTENDS LogRotation

\* Both schemes, a limit of two and of three logs, and rotation by SIGUSR1 or
\* by the space actions only.
AllConfigs ==
  {[num_logs |-> 2, action |-> "rotate"],
   [num_logs |-> 3, action |-> "rotate"],
   [num_logs |-> 3, action |-> "keep_logs"],
   [num_logs |-> 0, action |-> "keep_logs"],
   [num_logs |-> 3, action |-> "other"]}
=============================================================================
