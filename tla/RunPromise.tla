----------------------------- MODULE RunPromise -----------------------------
(***************************************************************************)
(* What the API promises about one microphone run, without its threads:    *)
(* an accepted run is desired-active until it is cancelled; a cancelled    *)
(* run settles; it is reported stopped only when nothing captures audio    *)
(* for it any more; a settled run never captures again.                    *)
(***************************************************************************)
VARIABLES
  phase,      \* "absent", "active", "stopping", "stopped" or "failed"
  capturing   \* does a workflow of this run hold the microphone?

vars == <<phase, capturing>>

Init == phase = "absent" /\ capturing = FALSE

Accept == phase = "absent" /\ phase' = "active" /\ UNCHANGED capturing

\* The first open failed: the run is forgotten.
Refuse == phase = "active" /\ ~capturing /\ phase' = "absent" /\ UNCHANGED capturing

\* The microphone is opened, the first time or again; a run that is being
\* cancelled may still finish an open it had begun.
Open == phase \in {"active", "stopping"} /\ ~capturing /\ capturing' = TRUE /\ UNCHANGED phase

Close == capturing /\ capturing' = FALSE /\ UNCHANGED phase

Cancel == phase = "active" /\ phase' = "stopping" /\ UNCHANGED capturing

Stopped == phase = "stopping" /\ ~capturing /\ phase' = "stopped" /\ UNCHANGED capturing

\* Stopping failed: the run is given up, whether or not capture has ended.
\* Shutdown may still report a failure of a run that has stopped.
Failed == phase \in {"active", "stopping", "stopped"} /\ phase' = "failed" /\ UNCHANGED capturing

Next == Accept \/ Refuse \/ Open \/ Close \/ Cancel \/ Stopped \/ Failed

Spec == Init /\ [][Next]_vars /\ WF_vars(phase = "stopping" /\ (Stopped \/ Failed))
=============================================================================
