------------------------------- MODULE MicRun -------------------------------
(***************************************************************************)
(* The life of ONE microphone run of the backend: the HTTP handler that    *)
(* starts it, the event pump (its controller thread) that relays workflow  *)
(* events and reopens the workflow when it ends, the threads that stop     *)
(* requests spawn, and the runtime's shutdown.  All of them share one      *)
(* RunRecord, whose `lock` makes the steps below atomic; nothing else      *)
(* orders them.                                                            *)
(*                                                                         *)
(* A workflow (SessionWorkflow) is known by its restart number: 0 is the   *)
(* one the start handler opened, n > 0 the n-th restart attempt, which is  *)
(* also what its source id is made from.                                   *)
(***************************************************************************)
EXTENDS Integers, Sequences

CONSTANTS
  Stoppers,            \* stop requests a client may send
  MaxRestarts,         \* bound: the last workflow a restart opens, which stays up
  InitialDelay,        \* recovery_initial_delay
  MaxDelay,            \* recovery_max_delay
  StopsDuringStart     \* may a stop request arrive while the run is "starting"?

ASSUME MicRunAssumption ==
  /\ MaxRestarts \in Nat
  /\ InitialDelay \in Nat \ {0}
  /\ MaxDelay \in Nat
  /\ InitialDelay <= MaxDelay
  /\ StopsDuringStart \in BOOLEAN

VARIABLES
  status,          \* RunRecord.status; "absent" before add_run and after remove_run
  recWorkflow,     \* RunRecord.workflow: a restart number, or None
  recoveryCancel,  \* RunRecord.recovery_cancel
  stopComplete,    \* RunRecord.stop_complete
  error,           \* RunRecord.error is not None
  completions,     \* the statuses of the "completed" events appended to the run
  shutdownEvent,   \* BackendRuntime.shutdown_event
  serviceClosed,   \* TranscriptionService.close has begun
  wf,              \* the state of each workflow
  outq,            \* the output_queue of each workflow
  starter,         \* program counter of the start handler
  pump,            \* program counter of the pump thread
  pumpWf,          \* the pump's local `workflow`
  restartCount,    \* the pump's restart_count
  retryDelay,      \* the pump's retry_delay
  finalStatus,     \* the pump's final_status
  stopper,         \* program counter of each stop request's thread
  stopperWf,       \* its local `workflow`
  shut,            \* program counter of shutdown
  shutWf           \* the workflow shutdown collected for this run

record == <<status, recWorkflow, recoveryCancel, stopComplete, error, completions>>
service == <<shutdownEvent, serviceClosed>>
workflows == <<wf, outq>>
pumpVars == <<pump, pumpWf, restartCount, retryDelay, finalStatus>>
stopVars == <<stopper, stopperWf>>
shutVars == <<shut, shutWf>>
vars == <<record, service, workflows, starter, pumpVars, stopVars, shutVars>>

None == -1
Restarts == 0..MaxRestarts
Terminal == {"completed", "stopped", "failed"}
Active == {"starting", "recording", "stopping"}
WorkflowState == {"none", "live", "stopping", "completed", "orphaned", "closing", "finished"}
Message == {"error", "stopped", "failed"}  \* completed events by their status

Init ==
  /\ status = "absent" /\ recWorkflow = None
  /\ recoveryCancel = FALSE /\ stopComplete = FALSE
  /\ error = FALSE /\ completions = <<>>
  /\ shutdownEvent = FALSE /\ serviceClosed = FALSE
  /\ wf = [n \in Restarts |-> "none"] /\ outq = [n \in Restarts |-> <<>>]
  /\ starter = "idle"
  /\ pump = "none" /\ pumpWf = 0 /\ restartCount = 0
  /\ retryDelay = InitialDelay /\ finalStatus = "absent"
  /\ stopper = [s \in Stoppers |-> "idle"]
  /\ stopperWf = [s \in Stoppers |-> None]
  /\ shut = "idle" /\ shutWf = None

-----------------------------------------------------------------------------
(* The workflow wrapper.  Its consumer thread relays the session's events,  *)
(* publishes the completed event and only then reports itself finished.  If *)
(* it raises, the wrapper is finished and its session is an orphan.        *)

Relaying(n) == wf[n] \in {"live", "stopping"}
Orphan(n) == wf[n] \in {"orphaned", "closing"}
Capturing(n) == Relaying(n) \/ Orphan(n)
Finished(n) == wf[n] = "finished" \/ Orphan(n)

\* Bound: the last restart stays up until somebody stops it.
MayEnd(n) == n < MaxRestarts \/ wf[n] = "stopping"

\* A nonfatal error event of the session reaches the output queue.  Bound: one
\* that waits to be read, and none of the last restart.
WorkflowError(n) ==
  /\ Relaying(n) /\ outq[n] = <<>> /\ n < MaxRestarts
  /\ outq' = [outq EXCEPT ![n] = <<"error">>]
  /\ UNCHANGED <<record, service, wf, starter, pumpVars, stopVars, shutVars>>

\* The session ended.  A failed one has published its fatal error before.
WorkflowComplete(n, result) ==
  /\ Relaying(n) /\ MayEnd(n)
  /\ wf' = [wf EXCEPT ![n] = "completed"]
  /\ outq' = [outq EXCEPT ![n] =
                @ \o (IF result = "failed" THEN <<"error", "failed">> ELSE <<result>>)]
  /\ UNCHANGED <<record, service, starter, pumpVars, stopVars, shutVars>>

\* The consumer thread raised: the wrapper finishes with no completed event.
WorkflowCrash(n) ==
  /\ Relaying(n) /\ MayEnd(n)
  /\ wf' = [wf EXCEPT ![n] = IF @ = "live" THEN "orphaned" ELSE "closing"]
  /\ outq' = [outq EXCEPT ![n] = Append(@, "error")]
  /\ UNCHANGED <<record, service, starter, pumpVars, stopVars, shutVars>>

WorkflowFinish(n) ==
  /\ wf[n] = "completed"
  /\ wf' = [wf EXCEPT ![n] = "finished"]
  /\ UNCHANGED <<record, service, outq, starter, pumpVars, stopVars, shutVars>>

\* session.stop returns on the session of a crashed wrapper.
OrphanCloses(n) ==
  /\ wf[n] = "closing"
  /\ wf' = [wf EXCEPT ![n] = "finished"]
  /\ UNCHANGED <<record, service, outq, starter, pumpVars, stopVars, shutVars>>

\* workflow.stop() has been called on n: from now on the session winds down.
StopRequested(n) ==
  [wf EXCEPT ![n] = IF @ = "live" THEN "stopping" ELSE IF @ = "orphaned" THEN "closing" ELSE @]

\* workflow.stop() returns once the session has stopped and the wrapper finished;
\* it can time out only as long as the wrapper has not finished.
StopReturned(n) == wf[n] = "finished"

-----------------------------------------------------------------------------
(* The start handler: _start_microphone_workflow.                          *)

StartAdd ==
  /\ starter = "idle" /\ ~shutdownEvent
  /\ starter' = "opening"
  /\ status' = "starting"
  /\ UNCHANGED <<recWorkflow, recoveryCancel, stopComplete, error, completions,
                 service, workflows, pumpVars, stopVars, shutVars>>

StartOpen ==
  /\ starter = "opening" /\ ~serviceClosed
  /\ starter' = "opened"
  /\ wf' = [wf EXCEPT ![0] = "live"]
  /\ UNCHANGED <<record, service, outq, pumpVars, stopVars, shutVars>>

StartFails ==
  /\ starter = "opening"
  /\ starter' = "refused"
  /\ status' = "absent"
  /\ UNCHANGED <<recWorkflow, recoveryCancel, stopComplete, error, completions,
                 service, workflows, pumpVars, stopVars, shutVars>>

StartRecord ==
  /\ starter = "opened"
  /\ starter' = "recorded"
  /\ recWorkflow' = 0
  /\ status' = "recording"
  /\ UNCHANGED <<recoveryCancel, stopComplete, error, completions, service,
                 workflows, pumpVars, stopVars, shutVars>>

StartPump ==
  /\ starter = "recorded"
  /\ starter' = "done"
  /\ pump' = "reading"
  /\ UNCHANGED <<record, service, workflows, pumpWf, restartCount, retryDelay,
                 finalStatus, stopVars, shutVars>>

-----------------------------------------------------------------------------
(* The pump: _pump_microphone.                                             *)

Cancelling == recoveryCancel \/ shutdownEvent

PumpUnchanged == UNCHANGED <<service, starter, stopVars, shutVars>>

\* An event that is not terminal; a fatal or workflow error is recorded.
PumpRelay ==
  /\ pump = "reading" /\ outq[pumpWf] # <<>> /\ Head(outq[pumpWf]) = "error"
  /\ outq' = [outq EXCEPT ![pumpWf] = Tail(@)]
  /\ error' = TRUE
  /\ UNCHANGED <<status, recWorkflow, recoveryCancel, stopComplete, completions,
                 wf, pumpVars>>
  /\ PumpUnchanged

\* The completed event: a failed completion of a cancelled run is terminal.
PumpCompleted ==
  /\ pump = "reading" /\ outq[pumpWf] # <<>> /\ Head(outq[pumpWf]) # "error"
  /\ outq' = [outq EXCEPT ![pumpWf] = Tail(@)]
  /\ status' = IF recoveryCancel /\ Head(outq[pumpWf]) = "failed" THEN "failed" ELSE status
  /\ pump' = "completed"
  /\ UNCHANGED <<recWorkflow, recoveryCancel, stopComplete, error, completions,
                 wf, pumpWf, restartCount, retryDelay, finalStatus>>
  /\ PumpUnchanged

\* queue.Empty: what the queue holds may change before wait(timeout=0) is tried.
PumpEmpty ==
  /\ pump = "reading" /\ outq[pumpWf] = <<>>
  /\ pump' = "polling"
  /\ UNCHANGED <<record, workflows, pumpWf, restartCount, retryDelay, finalStatus>>
  /\ PumpUnchanged

\* wait(timeout=0): a workflow that has finished without a completed event.
PumpPoll ==
  /\ pump = "polling"
  /\ pump' = IF Finished(pumpWf) /\ ~(recoveryCancel /\ ~stopComplete)
             THEN "silent" ELSE "reading"
  /\ UNCHANGED <<record, workflows, pumpWf, restartCount, retryDelay, finalStatus>>
  /\ PumpUnchanged

\* Mutant: after a silent end nobody stops the session.
PumpEnded_NoStop ==
  /\ pump \in {"completed", "silent"}
  /\ pump' = IF recoveryCancel THEN "final" ELSE IF pump = "silent" THEN "decide" ELSE "draining"
  /\ wf' = wf
  /\ UNCHANGED <<record, outq, pumpWf, restartCount, retryDelay, finalStatus>>
  /\ PumpUnchanged

\* After the loop: workflow.wait() follows a completed event, workflow.stop() a
\* silent end, unless the run has been cancelled meanwhile.
PumpEnded ==
  /\ pump \in {"completed", "silent"}
  /\ pump' = IF recoveryCancel THEN "final" ELSE "draining"
  /\ wf' = IF pump = "silent" /\ ~recoveryCancel THEN StopRequested(pumpWf) ELSE wf
  /\ UNCHANGED <<record, outq, pumpWf, restartCount, retryDelay, finalStatus>>
  /\ PumpUnchanged

\* The old workflow is gone; recovery_cancel is looked at once more.
PumpDrained ==
  /\ pump = "draining" /\ StopReturned(pumpWf)
  /\ pump' = IF recoveryCancel THEN "final" ELSE "decide"
  /\ UNCHANGED <<record, workflows, pumpWf, restartCount, retryDelay, finalStatus>>
  /\ PumpUnchanged

\* Mutant: the final status is taken without waiting for the stop.
PumpFinal_NoWait ==
  /\ pump = "final"
  /\ pump' = "announce"
  /\ status' = IF status = "stopping" THEN "stopped" ELSE status
  /\ finalStatus' = status'
  /\ UNCHANGED <<recWorkflow, recoveryCancel, stopComplete, error, completions,
                 workflows, pumpWf, restartCount, retryDelay>>
  /\ PumpUnchanged

\* A cancelled run waits for whoever is stopping it and takes its final status.
PumpFinal ==
  /\ pump = "final" /\ stopComplete
  /\ pump' = "announce"
  /\ status' = IF status = "stopping" THEN "stopped" ELSE status
  /\ finalStatus' = status'
  /\ UNCHANGED <<recWorkflow, recoveryCancel, stopComplete, error, completions,
                 workflows, pumpWf, restartCount, retryDelay>>
  /\ PumpUnchanged

\* Mutant: the terminal event always says stopped.
PumpAnnounce_AlwaysStopped ==
  /\ pump = "announce"
  /\ pump' = "done"
  /\ completions' = Append(completions, "stopped")
  /\ UNCHANGED <<status, recWorkflow, recoveryCancel, stopComplete, error,
                 workflows, pumpWf, restartCount, retryDelay, finalStatus>>
  /\ PumpUnchanged

PumpAnnounce ==
  /\ pump = "announce"
  /\ pump' = "done"
  /\ completions' = IF finalStatus \in {"stopped", "failed"}
                    THEN Append(completions, finalStatus) ELSE completions
  /\ UNCHANGED <<status, recWorkflow, recoveryCancel, stopComplete, error,
                 workflows, pumpWf, restartCount, retryDelay, finalStatus>>
  /\ PumpUnchanged

\* Recover, unless Stop or shutdown got in first.
PumpDecide ==
  /\ pump = "decide"
  /\ status' = IF Cancelling THEN status ELSE "recording"
  /\ recoveryCancel' = Cancelling
  /\ pump' = IF Cancelling THEN "reading" ELSE "backoff"
  /\ UNCHANGED <<recWorkflow, stopComplete, error, completions, workflows,
                 pumpWf, restartCount, retryDelay, finalStatus>>
  /\ PumpUnchanged

\* Bound: an attempt after the last that failed to open takes its number again.
PumpBackoff ==
  /\ pump = "backoff" /\ (restartCount < MaxRestarts \/ wf[restartCount] = "none")
  /\ restartCount' = IF restartCount < MaxRestarts THEN restartCount + 1 ELSE MaxRestarts
  /\ pump' = "waiting"
  /\ UNCHANGED <<record, workflows, pumpWf, retryDelay, finalStatus>>
  /\ PumpUnchanged

\* Mutant: the wait has no timeout, only a cancellation ends it.
PumpWaited_OnlyCancel ==
  /\ pump = "waiting" /\ Cancelling
  /\ recoveryCancel' = Cancelling
  /\ pump' = IF Cancelling THEN "reading" ELSE "opening"
  /\ UNCHANGED <<status, recWorkflow, stopComplete, error, completions,
                 workflows, pumpWf, restartCount, retryDelay, finalStatus>>
  /\ PumpUnchanged

\* recovery_cancel.wait(delay): cut short by a cancellation.
PumpWaited ==
  /\ pump = "waiting"
  /\ recoveryCancel' = Cancelling
  /\ pump' = IF Cancelling THEN "reading" ELSE "opening"
  /\ UNCHANGED <<status, recWorkflow, stopComplete, error, completions,
                 workflows, pumpWf, restartCount, retryDelay, finalStatus>>
  /\ PumpUnchanged

PumpOpen ==
  /\ pump = "opening" /\ ~serviceClosed
  /\ wf' = [wf EXCEPT ![restartCount] = "live"]
  /\ pump' = "opened"
  /\ UNCHANGED <<record, outq, pumpWf, restartCount, retryDelay, finalStatus>>
  /\ PumpUnchanged

NextDelay(delay) == IF 2 * delay <= MaxDelay THEN 2 * delay ELSE MaxDelay

\* Bound: the last restart fails only until the delay has reached its cap.
PumpOpenFails ==
  /\ pump = "opening" /\ (restartCount < MaxRestarts \/ retryDelay < MaxDelay)
  /\ recoveryCancel' = Cancelling
  /\ pump' = IF Cancelling THEN "reading" ELSE "backoff"
  /\ retryDelay' = NextDelay(retryDelay)
  /\ error' = TRUE
  /\ UNCHANGED <<status, recWorkflow, stopComplete, completions, workflows,
                 pumpWf, restartCount, finalStatus>>
  /\ PumpUnchanged

\* Publish the replacement, then either go on with it or stop it at once.
PumpSwap ==
  /\ pump = "opened"
  /\ recWorkflow' = restartCount
  /\ IF Cancelling
     THEN /\ pump' = "stopReplacement"
          /\ wf' = StopRequested(restartCount)
          /\ UNCHANGED <<status, error, pumpWf, retryDelay>>
     ELSE /\ pump' = "reading"
          /\ status' = "recording"
          /\ error' = FALSE
          /\ pumpWf' = restartCount
          /\ retryDelay' = InitialDelay
          /\ UNCHANGED wf
  /\ UNCHANGED <<recoveryCancel, stopComplete, completions, outq, restartCount, finalStatus>>
  /\ PumpUnchanged

PumpReplacementStopped ==
  /\ pump = "stopReplacement" /\ StopReturned(restartCount)
  /\ pump' = "reading"
  /\ pumpWf' = restartCount
  /\ recoveryCancel' = TRUE
  /\ UNCHANGED <<status, recWorkflow, stopComplete, error, completions,
                 workflows, restartCount, retryDelay, finalStatus>>
  /\ PumpUnchanged

\* replacement.stop() timed out: the run fails here and now.
PumpReplacementTimeout ==
  /\ pump = "stopReplacement" /\ ~Finished(restartCount)
  /\ pump' = "abandon"
  /\ status' = "failed"
  /\ error' = TRUE
  /\ UNCHANGED <<recWorkflow, recoveryCancel, stopComplete, completions,
                 workflows, pumpWf, restartCount, retryDelay, finalStatus>>
  /\ PumpUnchanged

PumpAbandon ==
  /\ pump = "abandon"
  /\ pump' = "done"
  /\ completions' = Append(completions, "failed")
  /\ stopComplete' = TRUE
  /\ UNCHANGED <<status, recWorkflow, recoveryCancel, error, workflows,
                 pumpWf, restartCount, retryDelay, finalStatus>>
  /\ PumpUnchanged

-----------------------------------------------------------------------------
(* A stop request: stop_transcription and the thread it spawns.            *)

\* A request that finds the run stopping or terminal changes nothing.
StopRequest(s) ==
  /\ stopper[s] = "idle" /\ status \in {"starting", "recording"}
  /\ starter = "done" \/ StopsDuringStart
  /\ stopper' = [stopper EXCEPT ![s] = "spawned"]
  /\ status' = "stopping"
  /\ recoveryCancel' = TRUE
  /\ UNCHANGED <<recWorkflow, stopComplete, error, completions, service,
                 workflows, starter, pumpVars, stopperWf, shutVars>>

StopBegin(s) ==
  /\ stopper[s] = "spawned"
  /\ stopperWf' = [stopperWf EXCEPT ![s] = recWorkflow]
  /\ IF recWorkflow = None
     THEN /\ stopper' = [stopper EXCEPT ![s] = "done"]
          /\ stopComplete' = TRUE
          /\ UNCHANGED wf
     ELSE /\ stopper' = [stopper EXCEPT ![s] = "stopping"]
          /\ wf' = StopRequested(recWorkflow)
          /\ UNCHANGED stopComplete
  /\ UNCHANGED <<status, recWorkflow, recoveryCancel, error, completions,
                 service, outq, starter, pumpVars, shutVars>>

StopReturns(s) ==
  /\ stopper[s] = "stopping" /\ StopReturned(stopperWf[s])
  /\ stopper' = [stopper EXCEPT ![s] = "finally"]
  /\ UNCHANGED <<record, service, workflows, starter, pumpVars, stopperWf, shutVars>>

StopTimesOut(s) ==
  /\ stopper[s] = "stopping" /\ ~Finished(stopperWf[s])
  /\ stopper' = [stopper EXCEPT ![s] = "raised"]
  /\ UNCHANGED <<record, service, workflows, starter, pumpVars, stopperWf, shutVars>>

\* The exception handler: only a run that is still stopping is failed.
StopFailed(s) ==
  /\ stopper[s] = "raised"
  /\ stopper' = [stopper EXCEPT ![s] = "finally"]
  /\ IF status = "stopping"
     THEN /\ status' = "failed"
          /\ error' = TRUE
          /\ outq' = [outq EXCEPT ![stopperWf[s]] = Append(@, "error")]
     ELSE UNCHANGED <<status, error, outq>>
  /\ UNCHANGED <<recWorkflow, recoveryCancel, stopComplete, completions,
                 service, wf, starter, pumpVars, stopperWf, shutVars>>

StopFinally(s) ==
  /\ stopper[s] = "finally"
  /\ stopper' = [stopper EXCEPT ![s] = "done"]
  /\ stopComplete' = TRUE
  /\ outq' = [outq EXCEPT ![stopperWf[s]] =
                Append(@, IF status = "failed" THEN "failed" ELSE "stopped")]
  /\ UNCHANGED <<status, recWorkflow, recoveryCancel, error, completions,
                 service, wf, starter, pumpVars, stopperWf, shutVars>>

-----------------------------------------------------------------------------
(* BackendRuntime.shutdown, as far as it concerns this run.                *)

ShutUnchanged == UNCHANGED <<starter, pumpVars, stopVars>>

ShutdownBegin ==
  /\ shut = "idle"
  /\ starter \in {"idle", "refused", "done"}
  /\ shutdownEvent' = TRUE
  /\ shut' = IF status = "absent" THEN "join" ELSE "cancel"
  /\ UNCHANGED <<record, serviceClosed, workflows, shutWf>>
  /\ ShutUnchanged

ShutdownCancel ==
  /\ shut = "cancel"
  /\ shut' = "mark"
  /\ recoveryCancel' = TRUE
  /\ UNCHANGED <<status, recWorkflow, stopComplete, error, completions, service,
                 workflows, shutWf>>
  /\ ShutUnchanged

ShutdownMark ==
  /\ shut = "mark"
  /\ shut' = "collect"
  /\ status' = IF status \in Terminal \union {"absent"} THEN status ELSE "stopping"
  /\ UNCHANGED <<recWorkflow, recoveryCancel, stopComplete, error, completions,
                 service, workflows, shutWf>>
  /\ ShutUnchanged

ShutdownCollect ==
  /\ shut = "collect"
  /\ IF recWorkflow # None /\ status \notin Terminal
     THEN /\ shut' = "stopping"
          /\ shutWf' = recWorkflow
          /\ wf' = StopRequested(recWorkflow)
     ELSE /\ shut' = "complete"
          /\ UNCHANGED <<shutWf, wf>>
  /\ UNCHANGED <<record, service, outq>>
  /\ ShutUnchanged

ShutdownStopReturns ==
  /\ shut = "stopping" /\ StopReturned(shutWf)
  /\ shut' = "complete"
  /\ UNCHANGED <<record, service, workflows, shutWf>>
  /\ ShutUnchanged

ShutdownStopTimesOut ==
  /\ shut = "stopping" /\ ~Finished(shutWf)
  /\ shut' = "raised"
  /\ UNCHANGED <<record, service, workflows, shutWf>>
  /\ ShutUnchanged

\* Unlike the stop thread, shutdown fails the run whatever its status is now.
ShutdownFailed ==
  /\ shut = "raised"
  /\ shut' = "complete"
  /\ status' = "failed"
  /\ error' = TRUE
  /\ outq' = [outq EXCEPT ![shutWf] = @ \o <<"error", "failed">>]
  /\ UNCHANGED <<recWorkflow, recoveryCancel, stopComplete, completions, service,
                 wf, shutWf>>
  /\ ShutUnchanged

\* Mutant: stop_complete is not set.
ShutdownComplete_NoEvent ==
  /\ shut = "complete"
  /\ shut' = "join"
  /\ UNCHANGED stopComplete
  /\ UNCHANGED <<status, recWorkflow, recoveryCancel, error, completions, service,
                 workflows, shutWf>>
  /\ ShutUnchanged

ShutdownComplete ==
  /\ shut = "complete"
  /\ shut' = "join"
  /\ stopComplete' = TRUE
  /\ UNCHANGED <<status, recWorkflow, recoveryCancel, error, completions, service,
                 workflows, shutWf>>
  /\ ShutUnchanged

\* Join the controller thread, if there is one yet, and close the service,
\* which stops every workflow it still owns.
ShutdownClose ==
  /\ shut = "join" /\ pump \in {"none", "done"}
  /\ shut' = "done"
  /\ serviceClosed' = TRUE
  /\ wf' = [n \in Restarts |-> IF wf[n] = "live" THEN "stopping" ELSE wf[n]]
  /\ UNCHANGED <<record, shutdownEvent, outq, shutWf>>
  /\ ShutUnchanged

-----------------------------------------------------------------------------

Start == StartAdd \/ StartOpen \/ StartFails \/ StartRecord \/ StartPump

Workflow(n) ==
  \/ WorkflowError(n)
  \/ \E result \in {"stopped", "failed"} : WorkflowComplete(n, result)
  \/ WorkflowCrash(n)
  \/ WorkflowFinish(n) \/ OrphanCloses(n)

Pump ==
  \/ PumpRelay \/ PumpCompleted \/ PumpEmpty \/ PumpPoll
  \/ PumpEnded \/ PumpDrained \/ PumpFinal \/ PumpAnnounce
  \/ PumpDecide \/ PumpBackoff \/ PumpWaited \/ PumpOpen \/ PumpOpenFails
  \/ PumpSwap \/ PumpReplacementStopped \/ PumpReplacementTimeout \/ PumpAbandon

Stop(s) ==
  \/ StopBegin(s) \/ StopReturns(s) \/ StopTimesOut(s) \/ StopFailed(s) \/ StopFinally(s)

Shutdown ==
  \/ ShutdownCancel \/ ShutdownMark \/ ShutdownCollect \/ ShutdownStopReturns
  \/ ShutdownStopTimesOut \/ ShutdownFailed \/ ShutdownComplete \/ ShutdownClose

Next ==
  \/ Start \/ Pump \/ Shutdown \/ ShutdownBegin
  \/ \E n \in Restarts : Workflow(n)
  \/ \E s \in Stoppers : StopRequest(s) \/ Stop(s)

Spec == Init /\ [][Next]_vars

(* Every thread that can run runs; a workflow that was told to stop winds  *)
(* down, since session.stop has a timeout and its failure is turned into a *)
(* completed event.  Nobody has to start, stop or shut down anything, and  *)
(* a workflow need not end by itself.                                      *)
WindsDown(n) ==
  \/ /\ wf[n] = "stopping"
     /\ (\E result \in {"stopped", "failed"} : WorkflowComplete(n, result)) \/ WorkflowCrash(n)
  \/ WorkflowFinish(n) \/ OrphanCloses(n)

Fairness ==
  /\ WF_vars(StartOpen \/ StartFails \/ StartRecord \/ StartPump)
  /\ WF_vars(Pump)
  /\ WF_vars(Shutdown)
  /\ \A n \in Restarts : WF_vars(WindsDown(n))
  /\ \A s \in Stoppers : WF_vars(Stop(s))

FairSpec == Spec /\ Fairness
-----------------------------------------------------------------------------
TypeOK ==
  /\ status \in Active \union Terminal \union {"absent"}
  /\ recWorkflow \in Restarts \union {None}
  /\ recoveryCancel \in BOOLEAN /\ stopComplete \in BOOLEAN /\ error \in BOOLEAN
  /\ completions \in Seq({"stopped", "failed"})
  /\ shutdownEvent \in BOOLEAN /\ serviceClosed \in BOOLEAN
  /\ wf \in [Restarts -> WorkflowState]
  /\ outq \in [Restarts -> Seq(Message)]
  /\ starter \in {"idle", "opening", "refused", "opened", "recorded", "done"}
  /\ pump \in {"none", "reading", "polling", "completed", "silent", "draining", "final", "announce",
               "decide", "backoff", "waiting", "opening", "opened", "stopReplacement",
               "abandon", "done"}
  /\ pumpWf \in Restarts /\ restartCount \in Restarts
  /\ retryDelay \in InitialDelay..MaxDelay
  /\ finalStatus \in Active \union Terminal \union {"absent"}
  /\ stopper \in [Stoppers -> {"idle", "spawned", "stopping", "raised", "finally", "done"}]
  /\ stopperWf \in [Stoppers -> Restarts \union {None}]
  /\ shut \in {"idle", "cancel", "mark", "collect", "stopping", "raised", "complete",
               "join", "done"}
  /\ shutWf \in Restarts \union {None}

(* Two incarnations never capture at once: recovery reopens the source only *)
(* after the previous workflow has let go of it.                            *)
OneCapture ==
  \A m, n \in Restarts : Capturing(m) /\ Capturing(n) => m = n

(* A run reported stopped holds no microphone, whatever stop, recovery and  *)
(* shutdown did to each other on the way.                                   *)
StoppedMeansClosed ==
  status = "stopped" => \A n \in Restarts : ~Capturing(n)

(* A workflow that captures can be reached by a stop request: it is the     *)
(* record's workflow, or the thread that opened it is about to publish it.  *)
CaptureReachable ==
  \A n \in Restarts : Capturing(n) =>
    \/ recWorkflow = n
    \/ starter = "opened" /\ n = 0
    \/ pump = "opened" /\ n = restartCount

(* The microphone is held once, and by a workflow that can be stopped.      *)
CapturesOwned == OneCapture /\ CaptureReachable

(* An accepted run remains desired-active: whatever its workflows do, it    *)
(* becomes terminal only after Stop or shutdown has cancelled it.           *)
DesiredActive ==
  status \in Terminal => recoveryCancel \/ shutdownEvent

(* The terminal event clients see is published once, and tells the status   *)
(* of the run; only shutdown's own failure may turn a stopped run failed.   *)
CompletionAgrees ==
  /\ Len(completions) <= 1
  /\ \A i \in 1..Len(completions) :
       /\ status \in Terminal
       /\ completions[i] = status \/ (status = "failed" /\ shutdownEvent)

(* What clients are told of the outcome is so: a stopped run holds no       *)
(* microphone, and its one terminal event tells its status.                 *)
OutcomeAgrees == StoppedMeansClosed /\ CompletionAgrees

(* A run is not reported stopped over a failure its workflow has published. *)
FailureReported ==
  status = "stopped" => \A i \in 1..Len(outq[pumpWf]) : outq[pumpWf][i] # "failed"

(* A status that is terminal stays terminal, and a failure is never taken   *)
(* back: no late thread of stop or recovery revives the run.                *)
TerminalStays ==
  [][(status \in Terminal) => (status' \in {status, "failed"})]_vars

(* A cancelled run gives the microphone back, even when the cancellation    *)
(* met an open in progress.                                                 *)
CancelCloses == recoveryCancel ~> [](\A n \in Restarts : ~Capturing(n))

(* An unexpected end of the workflow is recovered from unless cancelled.    *)
Recovers ==
  (pump # "none" /\ \A n \in Restarts : ~Capturing(n))
     ~> (recoveryCancel \/ shutdownEvent \/ \E n \in Restarts : Capturing(n))

(* Shutdown gets past every run: it never joins a pump that waits for it.   *)
ShutdownFinishes == shutdownEvent ~> shut = "done"

Promise == INSTANCE RunPromise WITH
  phase <- CASE status \in {"starting", "recording"} -> "active"
             [] status \in {"absent", "stopping", "stopped", "failed"} -> status,
  capturing <- \E n \in Restarts : Capturing(n)

(* The run with all its threads implements the promise of the API.          *)
ImplementsPromise == Promise!Spec
=============================================================================
