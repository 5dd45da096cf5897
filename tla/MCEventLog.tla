----------------------------- MODULE MCEventLog -----------------------------
(* EventLog with histories of a few events and a page that comes back.       *)
EXTENDS EventLog
=============================================================================
