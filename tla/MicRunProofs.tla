---------------------------- MODULE MicRunProofs ----------------------------
(* Proofs about MicRun: types, and what the threads of a run may do; and    *)
(* about Forwarding: what its workflow delivers.                            *)
EXTENDS MicRun, Forwarding, FiniteSetTheorems, TLAPS

(* Asking any workflow to stop keeps the workflows' states legal.          *)
LEMMA StopRequestedType ==
  ASSUME TypeOK, NEW n PROVE StopRequested(n) \in [Restarts -> WorkflowState]
  BY DEF TypeOK, StopRequested, WorkflowState

(* A queue operation on any workflow's queue keeps the queues well-typed.  *)
LEMMA QueueType ==
  ASSUME TypeOK, NEW n, NEW q, n \in Restarts => q \in Seq(Message)
  PROVE  [outq EXCEPT ![n] = q] \in [Restarts -> Seq(Message)]
  BY DEF TypeOK

(* What the threads put into a queue are messages.                         *)
LEMMA MessageType ==
  ASSUME NEW q \in Seq(Message), NEW result \in Message
  PROVE  /\ Append(q, result) \in Seq(Message)
         /\ q \o <<result>> \in Seq(Message)
         /\ q \o <<"error", "failed">> \in Seq(Message)
         /\ q # <<>> => Tail(q) \in Seq(Message)
         /\ q # <<>> => Head(q) \in Message
  BY DEF Message

(* Types, by the action that takes the step.                               *)
LEMMA TypeStep == TypeOK /\ [Next]_vars => TypeOK'
<1> SUFFICES ASSUME TypeOK, [Next]_vars PROVE TypeOK'
  OBVIOUS
<1> USE DEF TypeOK, record, service, workflows, pumpVars, stopVars, shutVars,
        PumpUnchanged, ShutUnchanged, Terminal, Active, WorkflowState, Message
<1>1. CASE Start
  <2>1. CASE StartAdd
    BY <2>1 DEF StartAdd
  <2>2. CASE StartOpen
    BY <2>2, MicRunAssumption DEF StartOpen, Restarts
  <2>3. CASE StartFails
    BY <2>3 DEF StartFails
  <2>4. CASE StartRecord
    BY <2>4, MicRunAssumption DEF StartRecord, Restarts
  <2>5. CASE StartPump
    BY <2>5 DEF StartPump
  <2> QED
    BY <1>1, <2>1, <2>2, <2>3, <2>4, <2>5 DEF Start
<1>2. CASE Pump
  <2>1. CASE PumpRelay
    <3>1. outq' \in [Restarts -> Seq(Message)]
      BY <2>1, QueueType, MessageType DEF PumpRelay
    <3> QED
      BY <2>1, <3>1 DEF PumpRelay
  <2>2. CASE PumpCompleted
    <3>1. outq' \in [Restarts -> Seq(Message)]
      BY <2>2, QueueType, MessageType DEF PumpCompleted
    <3> QED
      BY <2>2, <3>1 DEF PumpCompleted
  <2>3. CASE PumpEmpty
    BY <2>3 DEF PumpEmpty
  <2>4. CASE PumpPoll
    BY <2>4 DEF PumpPoll
  <2>5. CASE PumpEnded
    BY <2>5, StopRequestedType DEF PumpEnded
  <2>6. CASE PumpDrained
    BY <2>6 DEF PumpDrained
  <2>7. CASE PumpFinal
    BY <2>7 DEF PumpFinal
  <2>8. CASE PumpAnnounce
    BY <2>8 DEF PumpAnnounce
  <2>9. CASE PumpDecide
    BY <2>9 DEF PumpDecide, Cancelling
  <2>10. CASE PumpBackoff
    BY <2>10, MicRunAssumption DEF PumpBackoff, Restarts
  <2>11. CASE PumpWaited
    BY <2>11 DEF PumpWaited, Cancelling
  <2>12. CASE PumpOpen
    BY <2>12 DEF PumpOpen
  <2>13. CASE PumpOpenFails
    BY <2>13, MicRunAssumption DEF PumpOpenFails, Cancelling, NextDelay, Restarts
  <2>14. CASE PumpSwap
    <3>1. wf' \in [Restarts -> WorkflowState]
      BY <2>14, StopRequestedType DEF PumpSwap, Cancelling
    <3>2. CASE Cancelling
      BY <2>14, <3>1, <3>2 DEF PumpSwap, Cancelling
    <3>3. CASE ~Cancelling
      <4>1. /\ recWorkflow' = restartCount /\ pump' = "reading" /\ status' = "recording"
            /\ error' = FALSE /\ pumpWf' = restartCount /\ retryDelay' = InitialDelay
            /\ UNCHANGED <<recoveryCancel, stopComplete, completions, outq, restartCount,
                           finalStatus>>
            /\ UNCHANGED <<service, starter, stopVars, shutVars>>
        BY <2>14, <3>3 DEF PumpSwap, Cancelling
      <4>2. InitialDelay \in InitialDelay..MaxDelay
        BY MicRunAssumption
      <4> QED
        <5>1. retryDelay' \in InitialDelay..MaxDelay
          BY <4>1, <4>2
        <5>2. /\ recWorkflow' \in Restarts \union {None}
              /\ pumpWf' \in Restarts /\ restartCount' \in Restarts
          BY <4>1
        <5>3. /\ recoveryCancel' \in BOOLEAN /\ stopComplete' \in BOOLEAN /\ error' \in BOOLEAN
              /\ completions' \in Seq({"stopped", "failed"})
              /\ shutdownEvent' \in BOOLEAN /\ serviceClosed' \in BOOLEAN
              /\ outq' \in [Restarts -> Seq(Message)]
          BY <4>1
        <5>4. /\ stopper' = stopper /\ stopperWf' = stopperWf /\ shut' = shut
              /\ shutWf' = shutWf /\ starter' = starter /\ finalStatus' = finalStatus
          BY <4>1
        <5> QED
          BY <4>1, <5>1, <5>2, <5>3, <5>4, <3>1
    <3> QED
      BY <3>2, <3>3
  <2>15. CASE PumpReplacementStopped
    BY <2>15 DEF PumpReplacementStopped
  <2>16. CASE PumpReplacementTimeout
    BY <2>16 DEF PumpReplacementTimeout
  <2>17. CASE PumpAbandon
    BY <2>17 DEF PumpAbandon
  <2> QED
    BY <1>2, <2>1, <2>2, <2>3, <2>4, <2>5, <2>6, <2>7, <2>8, <2>9, <2>10, <2>11,
       <2>12, <2>13, <2>14, <2>15, <2>16, <2>17 DEF Pump
<1>3. CASE Shutdown
  <2>1. CASE ShutdownCancel
    BY <2>1 DEF ShutdownCancel
  <2>2. CASE ShutdownMark
    BY <2>2 DEF ShutdownMark
  <2>3. CASE ShutdownCollect
    BY <2>3, StopRequestedType DEF ShutdownCollect
  <2>4. CASE ShutdownStopReturns
    BY <2>4 DEF ShutdownStopReturns
  <2>5. CASE ShutdownStopTimesOut
    BY <2>5 DEF ShutdownStopTimesOut
  <2>6. CASE ShutdownFailed
    <3>1. outq' \in [Restarts -> Seq(Message)]
      BY <2>6, QueueType, MessageType DEF ShutdownFailed
    <3> QED
      BY <2>6, <3>1 DEF ShutdownFailed
  <2>7. CASE ShutdownComplete
    BY <2>7 DEF ShutdownComplete
  <2>8. CASE ShutdownClose
    BY <2>8 DEF ShutdownClose
  <2> QED
    BY <1>3, <2>1, <2>2, <2>3, <2>4, <2>5, <2>6, <2>7, <2>8 DEF Shutdown
<1>4. CASE ShutdownBegin
  BY <1>4 DEF ShutdownBegin
<1>5. ASSUME NEW n \in Restarts, Workflow(n) PROVE TypeOK'
  <2>1. CASE WorkflowError(n)
    <3>1. outq' \in [Restarts -> Seq(Message)]
      BY <2>1, QueueType, MessageType DEF WorkflowError
    <3> QED
      BY <2>1, <3>1 DEF WorkflowError
  <2>2. ASSUME NEW result \in {"stopped", "failed"}, WorkflowComplete(n, result) PROVE TypeOK'
    <3>1. outq' \in [Restarts -> Seq(Message)]
      BY <2>2, QueueType, MessageType DEF WorkflowComplete
    <3> QED
      BY <2>2, <3>1 DEF WorkflowComplete
  <2>3. CASE WorkflowCrash(n)
    <3>1. outq' \in [Restarts -> Seq(Message)]
      BY <2>3, QueueType, MessageType DEF WorkflowCrash
    <3> QED
      BY <2>3, <3>1 DEF WorkflowCrash
  <2>4. CASE WorkflowFinish(n)
    BY <2>4 DEF WorkflowFinish
  <2>5. CASE OrphanCloses(n)
    BY <2>5 DEF OrphanCloses
  <2> QED
    BY <1>5, <2>1, <2>2, <2>3, <2>4, <2>5 DEF Workflow
<1>6. ASSUME NEW s \in Stoppers, StopRequest(s) \/ Stop(s) PROVE TypeOK'
  <2>1. CASE StopRequest(s)
    BY <2>1 DEF StopRequest
  <2>2. CASE StopBegin(s)
    <3>1. wf' \in [Restarts -> WorkflowState]
      BY <2>2, StopRequestedType DEF StopBegin
    <3>2. CASE recWorkflow = None
      BY <2>2, <3>1, <3>2 DEF StopBegin
    <3>3. CASE ~(recWorkflow = None)
      <4>1. /\ stopper' = [stopper EXCEPT ![s] = "stopping"]
            /\ stopperWf' = [stopperWf EXCEPT ![s] = recWorkflow]
            /\ UNCHANGED stopComplete
            /\ UNCHANGED <<status, recWorkflow, recoveryCancel, error, completions,
                           service, outq, starter, pumpVars, shutVars>>
        BY <2>2, <3>3 DEF StopBegin
      <4> QED
        BY <4>1, <3>1
    <3> QED
      BY <3>2, <3>3
  <2>3. CASE StopReturns(s)
    BY <2>3 DEF StopReturns
  <2>4. CASE StopTimesOut(s)
    BY <2>4 DEF StopTimesOut
  <2>5. CASE StopFailed(s)
    <3>1. CASE status = "stopping"
      <4>1. outq' = [outq EXCEPT ![stopperWf[s]] = Append(@, "error")]
        BY <2>5, <3>1 DEF StopFailed
      <4>2. outq' \in [Restarts -> Seq(Message)]
        BY <4>1, QueueType, MessageType
      <4> QED
        BY <2>5, <3>1, <4>2 DEF StopFailed
    <3>2. CASE status # "stopping"
      BY <2>5, <3>2 DEF StopFailed
    <3> QED
      BY <3>1, <3>2
  <2>6. CASE StopFinally(s)
    <3>1. outq' \in [Restarts -> Seq(Message)]
      BY <2>6, QueueType, MessageType DEF StopFinally
    <3> QED
      BY <2>6, <3>1 DEF StopFinally
  <2> QED
    BY <1>6, <2>1, <2>2, <2>3, <2>4, <2>5, <2>6 DEF Stop
<1>7. CASE UNCHANGED vars
  BY <1>7 DEF vars
<1> QED
  BY <1>1, <1>2, <1>3, <1>4, <1>5, <1>6, <1>7 DEF Next

(* A run that nobody has started yet.                                      *)
LEMMA InitType == Init => TypeOK
<1> SUFFICES ASSUME Init PROVE TypeOK
  OBVIOUS
<1>1. 0 \in Restarts /\ InitialDelay \in InitialDelay..MaxDelay
  BY MicRunAssumption DEF Restarts
<1>2. /\ wf \in [Restarts -> WorkflowState] /\ outq \in [Restarts -> Seq(Message)]
    /\ completions \in Seq({"stopped", "failed"})
  BY DEF Init, WorkflowState
<1>3. /\ stopper \in [Stoppers -> {"idle", "spawned", "stopping", "raised", "finally", "done"}]
    /\ stopperWf \in [Stoppers -> Restarts \union {None}]
  BY DEF Init
<1> QED
  BY <1>1, <1>2, <1>3 DEF Init, TypeOK, Terminal, Active

(* Every variable of a run keeps its type.                                 *)
THEOREM TypeCorrect == Spec => []TypeOK
  BY InitType, TypeStep, PTL DEF Spec

-----------------------------------------------------------------------------
(* The one workflow that may capture, by where the pump is.                *)
Holder ==
  IF pump = "none" THEN 0
  ELSE IF pump \in {"opened", "stopReplacement", "abandon"} THEN restartCount ELSE recWorkflow

NothingOpen ==
  \/ starter \in {"idle", "opening", "refused"}
  \/ pump \in {"decide", "backoff", "waiting", "opening"}

(* Only the holder captures, nothing does between two incarnations, and the *)
(* record names the pump's workflow except while a replacement is opened.  *)
CaptureInv ==
  /\ \A n \in Restarts : Capturing(n) => n = Holder /\ ~NothingOpen
  /\ starter = "done" <=> pump # "none"
  /\ pump = "none" => pumpWf = 0
  /\ starter = "recorded" => recWorkflow = 0
  /\ pump \in {"stopReplacement", "abandon"} => recWorkflow = restartCount
  /\ pump \notin {"none", "stopReplacement", "abandon", "done"} => recWorkflow = pumpWf

(* A run ends, or is about to be ended, only after it has been cancelled.  *)
CancelInv ==
  /\ DesiredActive
  /\ pump \in {"final", "announce", "stopReplacement", "abandon"} => recoveryCancel \/ shutdownEvent
  /\ \A s \in Stoppers : stopper[s] # "idle" => recoveryCancel
  /\ shut # "idle" => shutdownEvent

(* While the start handler is at work nothing can have ended the run.      *)
StartInv ==
  /\ starter \in {"idle", "refused"} => status = "absent"
  /\ starter \in {"opening", "opened"} => status \notin Terminal
  /\ starter \notin {"recorded", "done"} => recWorkflow = None
  /\ starter \in {"opening", "opened", "recorded"} => shut = "idle"
  /\ shut \notin {"idle", "join", "done"} => starter = "done"
  /\ shut # "idle" => shutdownEvent
  /\ starter # "done" => pump = "none"
  /\ \A s \in Stoppers : stopper[s] \in {"stopping", "raised", "finally"} =>
       starter \in {"recorded", "done"}

(* Every step keeps what cancellation means for the other threads.          *)
LEMMA CancelStep == TypeOK /\ StartInv /\ CancelInv /\ [Next]_vars => CancelInv'
<1> SUFFICES ASSUME TypeOK, StartInv, CancelInv, [Next]_vars PROVE CancelInv'
  OBVIOUS
<1> USE DEF CancelInv, DesiredActive, Terminal, record, service, workflows, pumpVars, stopVars,
        shutVars, PumpUnchanged, ShutUnchanged
<1>1. CASE Start
  <2>1. CASE StartAdd
    BY <2>1 DEF StartAdd
  <2>2. CASE StartOpen
    BY <2>2 DEF StartOpen
  <2>3. CASE StartFails
    BY <2>3 DEF StartFails
  <2>4. CASE StartRecord
    BY <2>4 DEF StartRecord
  <2>5. CASE StartPump
    BY <2>5 DEF StartPump
  <2> QED
    BY <1>1, <2>1, <2>2, <2>3, <2>4, <2>5 DEF Start
<1>2. CASE Pump
  <2>1. CASE PumpRelay
    BY <2>1 DEF PumpRelay
  <2>2. CASE PumpCompleted
    BY <2>2 DEF PumpCompleted
  <2>3. CASE PumpEmpty
    BY <2>3 DEF PumpEmpty
  <2>4. CASE PumpPoll
    BY <2>4 DEF PumpPoll
  <2>5. CASE PumpEnded
    BY <2>5 DEF PumpEnded
  <2>6. CASE PumpDrained
    BY <2>6 DEF PumpDrained
  <2>7. CASE PumpFinal
    BY <2>7 DEF PumpFinal
  <2>8. CASE PumpAnnounce
    BY <2>8 DEF PumpAnnounce
  <2>9. CASE PumpDecide
    BY <2>9 DEF PumpDecide, Cancelling
  <2>10. CASE PumpBackoff
    BY <2>10 DEF PumpBackoff
  <2>11. CASE PumpWaited
    BY <2>11 DEF PumpWaited, Cancelling
  <2>12. CASE PumpOpen
    BY <2>12 DEF PumpOpen
  <2>13. CASE PumpOpenFails
    BY <2>13 DEF PumpOpenFails, Cancelling
  <2>14. CASE PumpSwap
    BY <2>14 DEF PumpSwap, Cancelling
  <2>15. CASE PumpReplacementStopped
    BY <2>15 DEF PumpReplacementStopped
  <2>16. CASE PumpReplacementTimeout
    BY <2>16 DEF PumpReplacementTimeout
  <2>17. CASE PumpAbandon
    BY <2>17 DEF PumpAbandon
  <2> QED
    BY <1>2, <2>1, <2>2, <2>3, <2>4, <2>5, <2>6, <2>7, <2>8, <2>9, <2>10, <2>11, <2>12, <2>13,
       <2>14, <2>15, <2>16, <2>17 DEF Pump
<1>3. CASE Shutdown
  <2>1. CASE ShutdownCancel
    BY <2>1 DEF ShutdownCancel
  <2>2. CASE ShutdownMark
    BY <2>2 DEF ShutdownMark
  <2>3. CASE ShutdownCollect
    BY <2>3 DEF ShutdownCollect
  <2>4. CASE ShutdownStopReturns
    BY <2>4 DEF ShutdownStopReturns
  <2>5. CASE ShutdownStopTimesOut
    BY <2>5 DEF ShutdownStopTimesOut
  <2>6. CASE ShutdownFailed
    BY <2>6 DEF ShutdownFailed
  <2>7. CASE ShutdownComplete
    BY <2>7 DEF ShutdownComplete
  <2>8. CASE ShutdownClose
    BY <2>8 DEF ShutdownClose
  <2> QED
    BY <1>3, <2>1, <2>2, <2>3, <2>4, <2>5, <2>6, <2>7, <2>8 DEF Shutdown
<1>4. CASE ShutdownBegin
  BY <1>4 DEF ShutdownBegin
<1>5. ASSUME NEW n \in Restarts, Workflow(n) PROVE CancelInv'
  <2>1. CASE WorkflowError(n)
    BY <2>1 DEF WorkflowError
  <2>2. ASSUME NEW result \in {"stopped", "failed"}, WorkflowComplete(n, result) PROVE CancelInv'
    BY <2>2 DEF WorkflowComplete
  <2>3. CASE WorkflowCrash(n)
    BY <2>3 DEF WorkflowCrash
  <2>4. CASE WorkflowFinish(n)
    BY <2>4 DEF WorkflowFinish
  <2>5. CASE OrphanCloses(n)
    BY <2>5 DEF OrphanCloses
  <2> QED
    BY <1>5, <2>1, <2>2, <2>3, <2>4, <2>5 DEF Workflow
<1>6. ASSUME NEW s \in Stoppers, StopRequest(s) \/ Stop(s) PROVE CancelInv'
  <2>1. CASE StopRequest(s)
    BY <2>1 DEF StopRequest, TypeOK
  <2>2. CASE StopBegin(s)
    BY <2>2 DEF StopBegin, TypeOK
  <2>3. CASE StopReturns(s)
    BY <2>3 DEF StopReturns, TypeOK
  <2>4. CASE StopTimesOut(s)
    BY <2>4 DEF StopTimesOut, TypeOK
  <2>5. CASE StopFailed(s)
    BY <2>5 DEF StopFailed, TypeOK
  <2>6. CASE StopFinally(s)
    BY <2>6 DEF StopFinally, TypeOK
  <2> QED
    BY <1>6, <2>1, <2>2, <2>3, <2>4, <2>5, <2>6 DEF Stop
<1>7. CASE UNCHANGED vars
  BY <1>7 DEF vars
<1> QED
  BY <1>1, <1>2, <1>3, <1>4, <1>5, <1>6, <1>7 DEF Next

(* Every step keeps what is known while the run is being started.           *)
LEMMA StartStep == TypeOK /\ StartInv /\ [Next]_vars => StartInv'
<1> SUFFICES ASSUME TypeOK, StartInv, [Next]_vars PROVE StartInv'
  OBVIOUS
<1> USE DEF StartInv, Terminal, record, service, workflows, pumpVars, stopVars,
        shutVars, PumpUnchanged, ShutUnchanged
<1>1. CASE Start
  <2>1. CASE StartAdd
    BY <2>1 DEF StartAdd
  <2>2. CASE StartOpen
    BY <2>2 DEF StartOpen
  <2>3. CASE StartFails
    BY <2>3 DEF StartFails
  <2>4. CASE StartRecord
    BY <2>4 DEF StartRecord
  <2>5. CASE StartPump
    BY <2>5 DEF StartPump
  <2> QED
    BY <1>1, <2>1, <2>2, <2>3, <2>4, <2>5 DEF Start
<1>2. CASE Pump
  <2>1. CASE PumpRelay
    BY <2>1 DEF PumpRelay
  <2>2. CASE PumpCompleted
    BY <2>2 DEF PumpCompleted
  <2>3. CASE PumpEmpty
    BY <2>3 DEF PumpEmpty
  <2>4. CASE PumpPoll
    BY <2>4 DEF PumpPoll
  <2>5. CASE PumpEnded
    BY <2>5 DEF PumpEnded
  <2>6. CASE PumpDrained
    BY <2>6 DEF PumpDrained
  <2>7. CASE PumpFinal
    BY <2>7 DEF PumpFinal
  <2>8. CASE PumpAnnounce
    BY <2>8 DEF PumpAnnounce
  <2>9. CASE PumpDecide
    BY <2>9 DEF PumpDecide, Cancelling
  <2>10. CASE PumpBackoff
    BY <2>10 DEF PumpBackoff
  <2>11. CASE PumpWaited
    BY <2>11 DEF PumpWaited, Cancelling
  <2>12. CASE PumpOpen
    BY <2>12 DEF PumpOpen
  <2>13. CASE PumpOpenFails
    BY <2>13 DEF PumpOpenFails, Cancelling
  <2>14. CASE PumpSwap
    BY <2>14 DEF PumpSwap, Cancelling
  <2>15. CASE PumpReplacementStopped
    BY <2>15 DEF PumpReplacementStopped
  <2>16. CASE PumpReplacementTimeout
    BY <2>16 DEF PumpReplacementTimeout
  <2>17. CASE PumpAbandon
    BY <2>17 DEF PumpAbandon
  <2> QED
    BY <1>2, <2>1, <2>2, <2>3, <2>4, <2>5, <2>6, <2>7, <2>8, <2>9, <2>10, <2>11, <2>12, <2>13,
       <2>14, <2>15, <2>16, <2>17 DEF Pump
<1>3. CASE Shutdown
  <2>1. CASE ShutdownCancel
    BY <2>1 DEF ShutdownCancel
  <2>2. CASE ShutdownMark
    BY <2>2 DEF ShutdownMark
  <2>3. CASE ShutdownCollect
    BY <2>3 DEF ShutdownCollect
  <2>4. CASE ShutdownStopReturns
    BY <2>4 DEF ShutdownStopReturns
  <2>5. CASE ShutdownStopTimesOut
    BY <2>5 DEF ShutdownStopTimesOut
  <2>6. CASE ShutdownFailed
    BY <2>6 DEF ShutdownFailed
  <2>7. CASE ShutdownComplete
    BY <2>7 DEF ShutdownComplete
  <2>8. CASE ShutdownClose
    BY <2>8 DEF ShutdownClose
  <2> QED
    BY <1>3, <2>1, <2>2, <2>3, <2>4, <2>5, <2>6, <2>7, <2>8 DEF Shutdown
<1>4. CASE ShutdownBegin
  BY <1>4 DEF ShutdownBegin
<1>5. ASSUME NEW n \in Restarts, Workflow(n) PROVE StartInv'
  <2>1. CASE WorkflowError(n)
    BY <2>1 DEF WorkflowError
  <2>2. ASSUME NEW result \in {"stopped", "failed"}, WorkflowComplete(n, result) PROVE StartInv'
    BY <2>2 DEF WorkflowComplete
  <2>3. CASE WorkflowCrash(n)
    BY <2>3 DEF WorkflowCrash
  <2>4. CASE WorkflowFinish(n)
    BY <2>4 DEF WorkflowFinish
  <2>5. CASE OrphanCloses(n)
    BY <2>5 DEF OrphanCloses
  <2> QED
    BY <1>5, <2>1, <2>2, <2>3, <2>4, <2>5 DEF Workflow
<1>6. ASSUME NEW s \in Stoppers, StopRequest(s) \/ Stop(s) PROVE StartInv'
  <2>1. CASE StopRequest(s)
    BY <2>1 DEF StopRequest, TypeOK
  <2>2. CASE StopBegin(s)
    BY <2>2 DEF StopBegin, TypeOK
  <2>3. CASE StopReturns(s)
    BY <2>3 DEF StopReturns, TypeOK
  <2>4. CASE StopTimesOut(s)
    BY <2>4 DEF StopTimesOut, TypeOK
  <2>5. CASE StopFailed(s)
    BY <2>5 DEF StopFailed, TypeOK
  <2>6. CASE StopFinally(s)
    BY <2>6 DEF StopFinally, TypeOK
  <2> QED
    BY <1>6, <2>1, <2>2, <2>3, <2>4, <2>5, <2>6 DEF Stop
<1>7. CASE UNCHANGED vars
  BY <1>7 DEF vars
<1> QED
  BY <1>1, <1>2, <1>3, <1>4, <1>5, <1>6, <1>7 DEF Next

(* Asking a workflow to stop does not change which ones capture.           *)
LEMMA StopRequestedCaptures ==
  ASSUME TypeOK, NEW m, wf' = StopRequested(m), NEW n \in Restarts
  PROVE  Capturing(n)' <=> Capturing(n)
  BY DEF TypeOK, StopRequested, Capturing, Relaying, Orphan

(* A step of the pump or of a stopping thread that leaves the workflows,   *)
(* or only asks one to stop, keeps the holder the only one that captures.  *)
LEMMA CaptureStep == TypeOK /\ CaptureInv /\ [Next]_vars => CaptureInv'
<1> SUFFICES ASSUME TypeOK, CaptureInv, [Next]_vars PROVE CaptureInv'
  OBVIOUS
<1> USE DEF CaptureInv, Holder, NothingOpen, record, service, workflows, pumpVars, stopVars,
        shutVars, PumpUnchanged, ShutUnchanged
<1>1. CASE Start
  <2>1. CASE StartAdd
    BY <2>1 DEF StartAdd, Capturing, Relaying, Orphan
  <2>2. CASE StartOpen
    BY <2>2 DEF StartOpen, Capturing, Relaying, Orphan, TypeOK
  <2>3. CASE StartFails
    BY <2>3 DEF StartFails, Capturing, Relaying, Orphan
  <2>4. CASE StartRecord
    BY <2>4 DEF StartRecord, Capturing, Relaying, Orphan
  <2>5. CASE StartPump
    BY <2>5 DEF StartPump, Capturing, Relaying, Orphan
  <2> QED
    BY <1>1, <2>1, <2>2, <2>3, <2>4, <2>5 DEF Start
<1>2. CASE Pump
  <2>1. CASE PumpRelay
    BY <2>1 DEF PumpRelay, Capturing, Relaying, Orphan
  <2>2. CASE PumpCompleted
    BY <2>2 DEF PumpCompleted, Capturing, Relaying, Orphan
  <2>3. CASE PumpEmpty
    BY <2>3 DEF PumpEmpty, Capturing, Relaying, Orphan
  <2>4. CASE PumpPoll
    BY <2>4 DEF PumpPoll, Capturing, Relaying, Orphan
  <2>5. CASE PumpEnded
    BY <2>5, StopRequestedCaptures DEF PumpEnded, Capturing, Relaying, Orphan
  <2>6. CASE PumpDrained
    BY <2>6 DEF PumpDrained, Capturing, Relaying, Orphan, StopReturned
  <2>7. CASE PumpFinal
    BY <2>7 DEF PumpFinal, Capturing, Relaying, Orphan
  <2>8. CASE PumpAnnounce
    BY <2>8 DEF PumpAnnounce, Capturing, Relaying, Orphan
  <2>9. CASE PumpDecide
    BY <2>9 DEF PumpDecide, Cancelling, Capturing, Relaying, Orphan
  <2>10. CASE PumpBackoff
    BY <2>10 DEF PumpBackoff, Capturing, Relaying, Orphan
  <2>11. CASE PumpWaited
    BY <2>11 DEF PumpWaited, Cancelling, Capturing, Relaying, Orphan
  <2>12. CASE PumpOpen
    BY <2>12 DEF PumpOpen, Capturing, Relaying, Orphan, TypeOK
  <2>13. CASE PumpOpenFails
    BY <2>13 DEF PumpOpenFails, Cancelling, Capturing, Relaying, Orphan
  <2>14. CASE PumpSwap
    BY <2>14, StopRequestedCaptures DEF PumpSwap, Cancelling, Capturing, Relaying, Orphan
  <2>15. CASE PumpReplacementStopped
    BY <2>15 DEF PumpReplacementStopped, Capturing, Relaying, Orphan
  <2>16. CASE PumpReplacementTimeout
    BY <2>16 DEF PumpReplacementTimeout, Capturing, Relaying, Orphan
  <2>17. CASE PumpAbandon
    BY <2>17 DEF PumpAbandon, Capturing, Relaying, Orphan
  <2> QED
    BY <1>2, <2>1, <2>2, <2>3, <2>4, <2>5, <2>6, <2>7, <2>8, <2>9, <2>10, <2>11, <2>12, <2>13,
       <2>14, <2>15, <2>16, <2>17 DEF Pump
<1>3. CASE Shutdown
  <2>1. CASE ShutdownCancel
    BY <2>1 DEF ShutdownCancel, Capturing, Relaying, Orphan
  <2>2. CASE ShutdownMark
    BY <2>2 DEF ShutdownMark, Capturing, Relaying, Orphan
  <2>3. CASE ShutdownCollect
    BY <2>3, StopRequestedCaptures DEF ShutdownCollect, Capturing, Relaying, Orphan
  <2>4. CASE ShutdownStopReturns
    BY <2>4 DEF ShutdownStopReturns, Capturing, Relaying, Orphan
  <2>5. CASE ShutdownStopTimesOut
    BY <2>5 DEF ShutdownStopTimesOut, Capturing, Relaying, Orphan
  <2>6. CASE ShutdownFailed
    BY <2>6 DEF ShutdownFailed, Capturing, Relaying, Orphan
  <2>7. CASE ShutdownComplete
    BY <2>7 DEF ShutdownComplete, Capturing, Relaying, Orphan
  <2>8. CASE ShutdownClose
    BY <2>8 DEF ShutdownClose, Capturing, Relaying, Orphan, TypeOK
  <2> QED
    BY <1>3, <2>1, <2>2, <2>3, <2>4, <2>5, <2>6, <2>7, <2>8 DEF Shutdown
<1>4. CASE ShutdownBegin
  BY <1>4 DEF ShutdownBegin, Capturing, Relaying, Orphan
<1>5. ASSUME NEW n \in Restarts, Workflow(n) PROVE CaptureInv'
  <2>1. CASE WorkflowError(n)
    BY <2>1 DEF WorkflowError, Capturing, Relaying, Orphan
  <2>2. ASSUME NEW result \in {"stopped", "failed"}, WorkflowComplete(n, result) PROVE CaptureInv'
    BY <2>2 DEF WorkflowComplete, Capturing, Relaying, Orphan, TypeOK
  <2>3. CASE WorkflowCrash(n)
    BY <2>3 DEF WorkflowCrash, Capturing, Relaying, Orphan, TypeOK
  <2>4. CASE WorkflowFinish(n)
    BY <2>4 DEF WorkflowFinish, Capturing, Relaying, Orphan, TypeOK
  <2>5. CASE OrphanCloses(n)
    BY <2>5 DEF OrphanCloses, Capturing, Relaying, Orphan, TypeOK
  <2> QED
    BY <1>5, <2>1, <2>2, <2>3, <2>4, <2>5 DEF Workflow
<1>6. ASSUME NEW s \in Stoppers, StopRequest(s) \/ Stop(s) PROVE CaptureInv'
  <2>1. CASE StopRequest(s)
    BY <2>1 DEF StopRequest, Capturing, Relaying, Orphan
  <2>2. CASE StopBegin(s)
    BY <2>2, StopRequestedCaptures DEF StopBegin, Capturing, Relaying, Orphan
  <2>3. CASE StopReturns(s)
    BY <2>3 DEF StopReturns, Capturing, Relaying, Orphan
  <2>4. CASE StopTimesOut(s)
    BY <2>4 DEF StopTimesOut, Capturing, Relaying, Orphan
  <2>5. CASE StopFailed(s)
    BY <2>5 DEF StopFailed, Capturing, Relaying, Orphan
  <2>6. CASE StopFinally(s)
    BY <2>6 DEF StopFinally, Capturing, Relaying, Orphan
  <2> QED
    BY <1>6, <2>1, <2>2, <2>3, <2>4, <2>5, <2>6 DEF Stop
<1>7. CASE UNCHANGED vars
  BY <1>7 DEF vars, Capturing, Relaying, Orphan
<1> QED
  BY <1>1, <1>2, <1>3, <1>4, <1>5, <1>6, <1>7 DEF Next

SafetyInv == TypeOK /\ StartInv /\ CancelInv /\ CaptureInv

(* The inductive invariant of a run.                                        *)
LEMMA SafetyInvariant == Spec => []SafetyInv
<1>1. Init => SafetyInv
  <2> SUFFICES ASSUME Init PROVE SafetyInv
    OBVIOUS
  <2>1. TypeOK
    BY InitType
  <2>2. StartInv
    BY DEF Init, StartInv, Terminal
  <2>3. CancelInv
    BY DEF Init, CancelInv, DesiredActive, Terminal
  <2>4. CaptureInv
    BY DEF Init, CaptureInv, NothingOpen, Capturing, Relaying, Orphan
  <2> QED
    BY <2>1, <2>2, <2>3, <2>4 DEF SafetyInv
<1>2. SafetyInv /\ [Next]_vars => SafetyInv'
  BY TypeStep, StartStep, CancelStep, CaptureStep DEF SafetyInv
<1> QED
  BY <1>1, <1>2, PTL DEF Spec

(* Two incarnations of a run never capture at once: recovery reopens the    *)
(* source only after the previous workflow has let go of it.               *)
THEOREM OneCaptureAlways == Spec => []OneCapture
<1>1. SafetyInv => OneCapture
  BY DEF SafetyInv, CaptureInv, OneCapture
<1> QED
  BY <1>1, SafetyInvariant, PTL

(* Whatever captures can be reached by a stop request: it is the record's   *)
(* workflow, or the thread that opened it is about to publish it.          *)
THEOREM CaptureReachableAlways == Spec => []CaptureReachable
<1>1. SafetyInv => CaptureReachable
  <2> SUFFICES ASSUME SafetyInv, NEW n \in Restarts, Capturing(n)
               PROVE  \/ recWorkflow = n
                      \/ starter = "opened" /\ n = 0
                      \/ pump = "opened" /\ n = restartCount
    BY DEF CaptureReachable
  <2>1. n = Holder /\ ~NothingOpen
    BY DEF SafetyInv, CaptureInv
  <2>2. CASE pump = "none"
    BY <2>1, <2>2 DEF SafetyInv, CaptureInv, Holder, NothingOpen, TypeOK
  <2>3. CASE pump # "none"
    BY <2>1, <2>3 DEF SafetyInv, CaptureInv, Holder
  <2> QED
    BY <2>2, <2>3
<1> QED
  BY <1>1, SafetyInvariant, PTL

(* An accepted run remains desired-active: only Stop or shutdown end it.    *)
THEOREM DesiredActiveAlways == Spec => []DesiredActive
<1>1. SafetyInv => DesiredActive
  BY DEF SafetyInv, CancelInv
<1> QED
  BY <1>1, SafetyInvariant, PTL

(* A terminal status is never taken back, by the action that would do it.   *)
LEMMA TerminalStep ==
  SafetyInv /\ [Next]_vars => ((status \in Terminal) => (status' \in {status, "failed"}))
<1> DEFINE Stays == status' \in {status, "failed"}
<1> SUFFICES ASSUME SafetyInv, [Next]_vars, status \in Terminal PROVE Stays
  OBVIOUS
<1> USE DEF SafetyInv, StartInv, CancelInv, DesiredActive, Terminal, record
<1>1. CASE Start
  <2>1. CASE StartAdd
    BY <2>1 DEF StartAdd
  <2>2. CASE StartOpen
    BY <2>2 DEF StartOpen
  <2>3. CASE StartFails
    BY <2>3 DEF StartFails
  <2>4. CASE StartRecord
    BY <2>4 DEF StartRecord
  <2>5. CASE StartPump
    BY <2>5 DEF StartPump
  <2> QED
    BY <1>1, <2>1, <2>2, <2>3, <2>4, <2>5 DEF Start
<1>2. CASE Pump
  <2>1. CASE PumpRelay
    BY <2>1 DEF PumpRelay
  <2>2. CASE PumpCompleted
    BY <2>2 DEF PumpCompleted
  <2>3. CASE PumpEmpty
    BY <2>3 DEF PumpEmpty
  <2>4. CASE PumpPoll
    BY <2>4 DEF PumpPoll
  <2>5. CASE PumpEnded
    BY <2>5 DEF PumpEnded
  <2>6. CASE PumpDrained
    BY <2>6 DEF PumpDrained
  <2>7. CASE PumpFinal
    BY <2>7 DEF PumpFinal
  <2>8. CASE PumpAnnounce
    BY <2>8 DEF PumpAnnounce
  <2>9. CASE PumpDecide
    BY <2>9 DEF PumpDecide, Cancelling
  <2>10. CASE PumpBackoff
    BY <2>10 DEF PumpBackoff
  <2>11. CASE PumpWaited
    BY <2>11 DEF PumpWaited, Cancelling
  <2>12. CASE PumpOpen
    BY <2>12 DEF PumpOpen
  <2>13. CASE PumpOpenFails
    BY <2>13 DEF PumpOpenFails, Cancelling
  <2>14. CASE PumpSwap
    BY <2>14 DEF PumpSwap, Cancelling
  <2>15. CASE PumpReplacementStopped
    BY <2>15 DEF PumpReplacementStopped
  <2>16. CASE PumpReplacementTimeout
    BY <2>16 DEF PumpReplacementTimeout
  <2>17. CASE PumpAbandon
    BY <2>17 DEF PumpAbandon
  <2> QED
    BY <1>2, <2>1, <2>2, <2>3, <2>4, <2>5, <2>6, <2>7, <2>8, <2>9, <2>10, <2>11, <2>12, <2>13,
       <2>14, <2>15, <2>16, <2>17 DEF Pump
<1>3. CASE Shutdown
  <2>1. CASE ShutdownCancel
    BY <2>1 DEF ShutdownCancel
  <2>2. CASE ShutdownMark
    BY <2>2 DEF ShutdownMark
  <2>3. CASE ShutdownCollect
    BY <2>3 DEF ShutdownCollect
  <2>4. CASE ShutdownStopReturns
    BY <2>4 DEF ShutdownStopReturns
  <2>5. CASE ShutdownStopTimesOut
    BY <2>5 DEF ShutdownStopTimesOut
  <2>6. CASE ShutdownFailed
    BY <2>6 DEF ShutdownFailed
  <2>7. CASE ShutdownComplete
    BY <2>7 DEF ShutdownComplete
  <2>8. CASE ShutdownClose
    BY <2>8 DEF ShutdownClose
  <2> QED
    BY <1>3, <2>1, <2>2, <2>3, <2>4, <2>5, <2>6, <2>7, <2>8 DEF Shutdown
<1>4. CASE ShutdownBegin
  BY <1>4 DEF ShutdownBegin
<1>5. ASSUME NEW n \in Restarts, Workflow(n) PROVE Stays
  <2>1. CASE WorkflowError(n)
    BY <2>1 DEF WorkflowError
  <2>2. ASSUME NEW result \in {"stopped", "failed"}, WorkflowComplete(n, result) PROVE Stays
    BY <2>2 DEF WorkflowComplete
  <2>3. CASE WorkflowCrash(n)
    BY <2>3 DEF WorkflowCrash
  <2>4. CASE WorkflowFinish(n)
    BY <2>4 DEF WorkflowFinish
  <2>5. CASE OrphanCloses(n)
    BY <2>5 DEF OrphanCloses
  <2> QED
    BY <1>5, <2>1, <2>2, <2>3, <2>4, <2>5 DEF Workflow
<1>6. ASSUME NEW s \in Stoppers, StopRequest(s) \/ Stop(s) PROVE Stays
  <2>1. CASE StopRequest(s)
    BY <2>1 DEF StopRequest
  <2>2. CASE StopBegin(s)
    BY <2>2 DEF StopBegin
  <2>3. CASE StopReturns(s)
    BY <2>3 DEF StopReturns
  <2>4. CASE StopTimesOut(s)
    BY <2>4 DEF StopTimesOut
  <2>5. CASE StopFailed(s)
    BY <2>5 DEF StopFailed
  <2>6. CASE StopFinally(s)
    BY <2>6 DEF StopFinally
  <2> QED
    BY <1>6, <2>1, <2>2, <2>3, <2>4, <2>5, <2>6 DEF Stop
<1>7. CASE UNCHANGED vars
  BY <1>7 DEF vars
<1> QED
  BY <1>1, <1>2, <1>3, <1>4, <1>5, <1>6, <1>7 DEF Next

(* No late thread of stop, recovery or start revives a terminal run, and a  *)
(* failure is never taken back.                                            *)
THEOREM TerminalStaysAlways == Spec => TerminalStays
<1>1. SafetyInv /\ [Next]_vars => [(status \in Terminal) => (status' \in {status, "failed"})]_vars
  BY TerminalStep
<1> QED
  BY <1>1, SafetyInvariant, PTL DEF Spec, TerminalStays

(* The microphone is held once, and by a workflow a stop request reaches.  *)
THEOREM CapturesOwnedAlways == Spec => []CapturesOwned
<1>1. OneCapture /\ CaptureReachable => CapturesOwned
  BY DEF CapturesOwned
<1> QED
  BY <1>1, OneCaptureAlways, CaptureReachableAlways, PTL
-----------------------------------------------------------------------------
NothingCaptures == \A n \in Restarts : ~Capturing(n)

Replacing == pump \in {"opened", "stopReplacement", "abandon"}

(* What a thread that has called stop() of workflow n knows until it is     *)
(* back: n is still the record's workflow, or the pump is past the point    *)
(* where it could open another.                                             *)
Closing(n) ==
  \/ recWorkflow = n \/ status = "failed"
  \/ pump = "stopReplacement"
  \/ NothingCaptures /\ pump \notin {"draining", "decide", "backoff", "waiting", "opening", "opened"}

(* What is so when a stop is reported complete: a failure has been noted,   *)
(* the microphone is closed, or the pump is about to close it itself.       *)
StopSeen == status \in Terminal \/ NothingCaptures \/ Replacing

(* The stops under way and the one that is over, seen from the pump, which  *)
(* makes "stopped" of "stopping" once stop_complete is set.                 *)
StopInv ==
  /\ starter \in {"recorded", "done"} => recWorkflow # None
  /\ pump = "abandon" => status = "failed"
  /\ shut \in {"mark", "collect", "stopping", "raised", "complete"} => recoveryCancel
  /\ \A s \in Stoppers :
       /\ stopper[s] # "idle" => starter = "done" /\ status \in Terminal \union {"stopping"}
       /\ stopper[s] \in {"stopping", "raised"} => Closing(stopperWf[s])
       /\ stopper[s] = "finally" => StopSeen
  /\ shut \in {"stopping", "raised"} => Closing(shutWf)
  /\ shut = "complete" => StopSeen
  /\ stopComplete => (recoveryCancel \/ shutdownEvent) /\ starter = "done" /\ StopSeen
  /\ status = "stopped" => NothingCaptures /\ pump \in {"announce", "done"}

(* Only the two opens make something capture.                               *)
LEMMA OpensOnly ==
  ASSUME TypeOK, [Next]_vars, NothingCaptures
  PROVE  \/ NothingCaptures'
         \/ starter = "opening" /\ starter' = "opened"
         \/ pump = "opening" /\ pump' = "opened"
<1> DEFINE Goal == \/ NothingCaptures'
                   \/ starter = "opening" /\ starter' = "opened"
                   \/ pump = "opening" /\ pump' = "opened"
<1> SUFFICES Goal
  OBVIOUS
<1> USE DEF NothingCaptures, Capturing, Relaying, Orphan, record, service, workflows, pumpVars,
        stopVars, shutVars, PumpUnchanged, ShutUnchanged
<1>1. CASE Start
  <2>1. CASE StartAdd
    BY <2>1 DEF StartAdd
  <2>2. CASE StartOpen
    BY <2>2 DEF StartOpen
  <2>3. CASE StartFails
    BY <2>3 DEF StartFails
  <2>4. CASE StartRecord
    BY <2>4 DEF StartRecord
  <2>5. CASE StartPump
    BY <2>5 DEF StartPump
  <2> QED
    BY <1>1, <2>1, <2>2, <2>3, <2>4, <2>5 DEF Start
<1>2. CASE Pump
  <2>1. CASE PumpRelay
    BY <2>1 DEF PumpRelay
  <2>2. CASE PumpCompleted
    BY <2>2 DEF PumpCompleted
  <2>3. CASE PumpEmpty
    BY <2>3 DEF PumpEmpty
  <2>4. CASE PumpPoll
    BY <2>4 DEF PumpPoll
  <2>5. CASE PumpEnded
    BY <2>5, StopRequestedCaptures DEF PumpEnded
  <2>6. CASE PumpDrained
    BY <2>6 DEF PumpDrained
  <2>7. CASE PumpFinal
    BY <2>7 DEF PumpFinal
  <2>8. CASE PumpAnnounce
    BY <2>8 DEF PumpAnnounce
  <2>9. CASE PumpDecide
    BY <2>9 DEF PumpDecide
  <2>10. CASE PumpBackoff
    BY <2>10 DEF PumpBackoff
  <2>11. CASE PumpWaited
    BY <2>11 DEF PumpWaited
  <2>12. CASE PumpOpen
    BY <2>12 DEF PumpOpen
  <2>13. CASE PumpOpenFails
    BY <2>13 DEF PumpOpenFails
  <2>14. CASE PumpSwap
    BY <2>14, StopRequestedCaptures DEF PumpSwap
  <2>15. CASE PumpReplacementStopped
    BY <2>15 DEF PumpReplacementStopped
  <2>16. CASE PumpReplacementTimeout
    BY <2>16 DEF PumpReplacementTimeout
  <2>17. CASE PumpAbandon
    BY <2>17 DEF PumpAbandon
  <2> QED
    BY <1>2, <2>1, <2>2, <2>3, <2>4, <2>5, <2>6, <2>7, <2>8, <2>9, <2>10, <2>11, <2>12, <2>13,
       <2>14, <2>15, <2>16, <2>17 DEF Pump
<1>3. CASE Shutdown
  <2>1. CASE ShutdownCancel
    BY <2>1 DEF ShutdownCancel
  <2>2. CASE ShutdownMark
    BY <2>2 DEF ShutdownMark
  <2>3. CASE ShutdownCollect
    BY <2>3, StopRequestedCaptures DEF ShutdownCollect
  <2>4. CASE ShutdownStopReturns
    BY <2>4 DEF ShutdownStopReturns
  <2>5. CASE ShutdownStopTimesOut
    BY <2>5 DEF ShutdownStopTimesOut
  <2>6. CASE ShutdownFailed
    BY <2>6 DEF ShutdownFailed
  <2>7. CASE ShutdownComplete
    BY <2>7 DEF ShutdownComplete
  <2>8. CASE ShutdownClose
    BY <2>8 DEF ShutdownClose, TypeOK
  <2> QED
    BY <1>3, <2>1, <2>2, <2>3, <2>4, <2>5, <2>6, <2>7, <2>8 DEF Shutdown
<1>4. CASE ShutdownBegin
  BY <1>4 DEF ShutdownBegin
<1>5. ASSUME NEW n \in Restarts, Workflow(n) PROVE Goal
  <2>1. CASE WorkflowError(n)
    BY <2>1 DEF WorkflowError
  <2>2. ASSUME NEW result \in {"stopped", "failed"}, WorkflowComplete(n, result) PROVE Goal
    BY <2>2 DEF WorkflowComplete, TypeOK
  <2>3. CASE WorkflowCrash(n)
    BY <2>3 DEF WorkflowCrash, TypeOK
  <2>4. CASE WorkflowFinish(n)
    BY <2>4 DEF WorkflowFinish, TypeOK
  <2>5. CASE OrphanCloses(n)
    BY <2>5 DEF OrphanCloses, TypeOK
  <2> QED
    BY <1>5, <2>1, <2>2, <2>3, <2>4, <2>5 DEF Workflow
<1>6. ASSUME NEW s \in Stoppers, StopRequest(s) \/ Stop(s) PROVE Goal
  <2>1. CASE StopRequest(s)
    BY <2>1 DEF StopRequest
  <2>2. CASE StopBegin(s)
    BY <2>2, StopRequestedCaptures DEF StopBegin
  <2>3. CASE StopReturns(s)
    BY <2>3 DEF StopReturns
  <2>4. CASE StopTimesOut(s)
    BY <2>4 DEF StopTimesOut
  <2>5. CASE StopFailed(s)
    BY <2>5 DEF StopFailed
  <2>6. CASE StopFinally(s)
    BY <2>6 DEF StopFinally
  <2> QED
    BY <1>6, <2>1, <2>2, <2>3, <2>4, <2>5, <2>6 DEF Stop
<1>7. CASE UNCHANGED vars
  BY <1>7 DEF vars
<1> QED
  BY <1>1, <1>2, <1>3, <1>4, <1>5, <1>6, <1>7 DEF Next

(* When stop() of workflow n is back, nothing captures any more, unless the *)
(* pump closes it itself.                                                   *)
LEMMA ReturnSeen ==
  ASSUME SafetyInv, NEW n, Closing(n), StopReturned(n), starter = "done"
  PROVE  StopSeen
<1>1. CASE recWorkflow = n
  BY <1>1 DEF SafetyInv, CaptureInv, Holder, StopSeen, NothingCaptures, Replacing, StopReturned,
     Capturing, Relaying, Orphan
<1> QED
  BY <1>1 DEF Closing, StopSeen, Terminal, Replacing

(* Every step keeps what the stopping threads know.                         *)
LEMMA StopStep ==
  ASSUME ~StopsDuringStart, SafetyInv, StopInv, [Next]_vars PROVE StopInv'
<1> USE DEF StopInv, Terminal, record, service, workflows, pumpVars, stopVars, shutVars,
        PumpUnchanged, ShutUnchanged, Closing, StopSeen, Replacing
<1>0. /\ TypeOK /\ StartInv /\ CancelInv /\ CaptureInv
      /\ NothingCaptures => \/ NothingCaptures'
                            \/ starter = "opening" /\ starter' = "opened"
                            \/ pump = "opening" /\ pump' = "opened"
      /\ status \in Terminal => status' \in {status, "failed"}
  BY OpensOnly, TerminalStep DEF SafetyInv
<1>1. CASE Start
  <2>1. CASE StartAdd
    BY <2>1, <1>0 DEF StartAdd
  <2>2. CASE StartOpen
    BY <2>2, <1>0 DEF StartOpen, StartInv
  <2>3. CASE StartFails
    BY <2>3, <1>0 DEF StartFails
  <2>4. CASE StartRecord
    BY <2>4, <1>0 DEF StartRecord, StartInv, Restarts, None
  <2>5. CASE StartPump
    BY <2>5, <1>0 DEF StartPump, StartInv
  <2> QED
    BY <1>1, <2>1, <2>2, <2>3, <2>4, <2>5 DEF Start
<1>2. CASE Pump
  <2>1. CASE PumpRelay
    BY <2>1, <1>0 DEF PumpRelay
  <2>2. CASE PumpCompleted
    BY <2>2, <1>0 DEF PumpCompleted
  <2>3. CASE PumpEmpty
    BY <2>3, <1>0 DEF PumpEmpty
  <2>4. CASE PumpPoll
    BY <2>4, <1>0 DEF PumpPoll
  <2>5. CASE PumpEnded
    BY <2>5, <1>0 DEF PumpEnded, CancelInv
  <2>6. CASE PumpDrained
    BY <2>6, <1>0 DEF PumpDrained, CaptureInv, NothingOpen
  <2>7. CASE PumpFinal
    BY <2>7, <1>0 DEF PumpFinal
  <2>8. CASE PumpAnnounce
    BY <2>8, <1>0 DEF PumpAnnounce
  <2>9. CASE PumpDecide
    BY <2>9, <1>0 DEF PumpDecide, CancelInv, Cancelling
  <2>10. CASE PumpBackoff
    BY <2>10, <1>0 DEF PumpBackoff
  <2>11. CASE PumpWaited
    BY <2>11, <1>0 DEF PumpWaited, CancelInv, Cancelling
  <2>12. CASE PumpOpen
    BY <2>12, <1>0 DEF PumpOpen
  <2>13. CASE PumpOpenFails
    BY <2>13, <1>0 DEF PumpOpenFails, CancelInv, Cancelling
  <2>14. CASE PumpSwap
    BY <2>14, <1>0 DEF PumpSwap, CancelInv, Cancelling, TypeOK, Restarts, None
  <2>15. CASE PumpReplacementStopped
    BY <2>15, <1>0 DEF PumpReplacementStopped, CaptureInv, Holder, StopReturned, NothingCaptures,
       Capturing, Relaying, Orphan
  <2>16. CASE PumpReplacementTimeout
    BY <2>16, <1>0 DEF PumpReplacementTimeout
  <2>17. CASE PumpAbandon
    BY <2>17, <1>0 DEF PumpAbandon, CancelInv, StartInv
  <2> QED
    BY <1>2, <2>1, <2>2, <2>3, <2>4, <2>5, <2>6, <2>7, <2>8, <2>9, <2>10, <2>11, <2>12, <2>13,
       <2>14, <2>15, <2>16, <2>17 DEF Pump
<1>3. CASE Shutdown
  <2>1. CASE ShutdownCancel
    BY <2>1, <1>0 DEF ShutdownCancel
  <2>2. CASE ShutdownMark
    BY <2>2, <1>0 DEF ShutdownMark, StartInv
  <2>3. CASE ShutdownCollect
    BY <2>3, <1>0 DEF ShutdownCollect, StartInv
  <2>4. CASE ShutdownStopReturns
    BY <2>4, <1>0, ReturnSeen DEF ShutdownStopReturns, StartInv
  <2>5. CASE ShutdownStopTimesOut
    BY <2>5, <1>0 DEF ShutdownStopTimesOut
  <2>6. CASE ShutdownFailed
    BY <2>6, <1>0 DEF ShutdownFailed
  <2>7. CASE ShutdownComplete
    BY <2>7, <1>0 DEF ShutdownComplete, CancelInv, StartInv
  <2>8. CASE ShutdownClose
    BY <2>8, <1>0 DEF ShutdownClose
  <2> QED
    BY <1>3, <2>1, <2>2, <2>3, <2>4, <2>5, <2>6, <2>7, <2>8 DEF Shutdown
<1>4. CASE ShutdownBegin
  BY <1>4, <1>0 DEF ShutdownBegin
<1>5. ASSUME NEW n \in Restarts, Workflow(n) PROVE StopInv'
  <2>1. CASE WorkflowError(n)
    BY <2>1, <1>0 DEF WorkflowError
  <2>2. ASSUME NEW result \in {"stopped", "failed"}, WorkflowComplete(n, result) PROVE StopInv'
    BY <2>2, <1>0 DEF WorkflowComplete
  <2>3. CASE WorkflowCrash(n)
    BY <2>3, <1>0 DEF WorkflowCrash
  <2>4. CASE WorkflowFinish(n)
    BY <2>4, <1>0 DEF WorkflowFinish
  <2>5. CASE OrphanCloses(n)
    BY <2>5, <1>0 DEF OrphanCloses
  <2> QED
    BY <1>5, <2>1, <2>2, <2>3, <2>4, <2>5 DEF Workflow
<1>6. ASSUME NEW s \in Stoppers, StopRequest(s) \/ Stop(s) PROVE StopInv'
  <2>1. CASE StopRequest(s)
    BY <2>1, <1>0, ReturnSeen DEF StopRequest, TypeOK
  <2>2. CASE StopBegin(s)
    BY <2>2, <1>0, ReturnSeen DEF StopBegin, TypeOK
  <2>3. CASE StopReturns(s)
    BY <2>3, <1>0, ReturnSeen DEF StopReturns, TypeOK
  <2>4. CASE StopTimesOut(s)
    BY <2>4, <1>0, ReturnSeen DEF StopTimesOut, TypeOK
  <2>5. CASE StopFailed(s)
    BY <2>5, <1>0, ReturnSeen DEF StopFailed, TypeOK
  <2>6. CASE StopFinally(s)
    BY <2>6, <1>0, ReturnSeen DEF StopFinally, TypeOK, CancelInv
  <2> QED
    BY <1>6, <2>1, <2>2, <2>3, <2>4, <2>5, <2>6 DEF Stop
<1>7. CASE UNCHANGED vars
  BY <1>7, <1>0 DEF vars
<1> QED
  BY <1>1, <1>2, <1>3, <1>4, <1>5, <1>6, <1>7 DEF Next

(* The pump's final status and the terminal event it publishes once.       *)
AnnounceInv ==
  /\ pump # "done" => completions = <<>>
  /\ pump \in {"announce", "done"} /\ finalStatus \in {"stopped", "failed"} =>
       status = finalStatus \/ (status = "failed" /\ shutdownEvent)
  /\ pump \notin {"announce", "done"} => finalStatus = "absent"
  /\ pump = "abandon" => status = "failed"
  /\ CompletionAgrees

(* Every step keeps what has been announced in agreement with the status.   *)
LEMMA AnnounceStep ==
  ASSUME SafetyInv, AnnounceInv, [Next]_vars PROVE AnnounceInv'
<1> USE DEF AnnounceInv, CompletionAgrees, Terminal, record, service, workflows, pumpVars,
        stopVars, shutVars, PumpUnchanged, ShutUnchanged
<1>0. /\ TypeOK /\ StartInv /\ CancelInv
      /\ status \in Terminal => status' \in {status, "failed"}
  BY TerminalStep DEF SafetyInv
<1>1. CASE Start
  <2>1. CASE StartAdd
    BY <2>1, <1>0 DEF StartAdd
  <2>2. CASE StartOpen
    BY <2>2, <1>0 DEF StartOpen
  <2>3. CASE StartFails
    BY <2>3, <1>0 DEF StartFails
  <2>4. CASE StartRecord
    BY <2>4, <1>0 DEF StartRecord
  <2>5. CASE StartPump
    BY <2>5, <1>0 DEF StartPump, StartInv
  <2> QED
    BY <1>1, <2>1, <2>2, <2>3, <2>4, <2>5 DEF Start
<1>2. CASE Pump
  <2>1. CASE PumpRelay
    BY <2>1, <1>0 DEF PumpRelay
  <2>2. CASE PumpCompleted
    BY <2>2, <1>0 DEF PumpCompleted, CancelInv
  <2>3. CASE PumpEmpty
    BY <2>3, <1>0 DEF PumpEmpty
  <2>4. CASE PumpPoll
    BY <2>4, <1>0 DEF PumpPoll
  <2>5. CASE PumpEnded
    BY <2>5, <1>0 DEF PumpEnded
  <2>6. CASE PumpDrained
    BY <2>6, <1>0 DEF PumpDrained
  <2>7. CASE PumpFinal
    BY <2>7, <1>0 DEF PumpFinal
  <2>8. CASE PumpAnnounce
    BY <2>8, <1>0 DEF PumpAnnounce
  <2>9. CASE PumpDecide
    BY <2>9, <1>0 DEF PumpDecide, Cancelling, CancelInv, DesiredActive
  <2>10. CASE PumpBackoff
    BY <2>10, <1>0 DEF PumpBackoff
  <2>11. CASE PumpWaited
    BY <2>11, <1>0 DEF PumpWaited, Cancelling, CancelInv, DesiredActive
  <2>12. CASE PumpOpen
    BY <2>12, <1>0 DEF PumpOpen
  <2>13. CASE PumpOpenFails
    BY <2>13, <1>0 DEF PumpOpenFails, Cancelling, CancelInv, DesiredActive
  <2>14. CASE PumpSwap
    BY <2>14, <1>0 DEF PumpSwap, Cancelling, CancelInv, DesiredActive
  <2>15. CASE PumpReplacementStopped
    BY <2>15, <1>0 DEF PumpReplacementStopped
  <2>16. CASE PumpReplacementTimeout
    BY <2>16, <1>0 DEF PumpReplacementTimeout
  <2>17. CASE PumpAbandon
    BY <2>17, <1>0 DEF PumpAbandon
  <2> QED
    BY <1>2, <2>1, <2>2, <2>3, <2>4, <2>5, <2>6, <2>7, <2>8, <2>9, <2>10, <2>11, <2>12, <2>13,
       <2>14, <2>15, <2>16, <2>17 DEF Pump
<1>3. CASE Shutdown
  <2>1. CASE ShutdownCancel
    BY <2>1, <1>0 DEF ShutdownCancel
  <2>2. CASE ShutdownMark
    BY <2>2, <1>0 DEF ShutdownMark
  <2>3. CASE ShutdownCollect
    BY <2>3, <1>0 DEF ShutdownCollect
  <2>4. CASE ShutdownStopReturns
    BY <2>4, <1>0 DEF ShutdownStopReturns
  <2>5. CASE ShutdownStopTimesOut
    BY <2>5, <1>0 DEF ShutdownStopTimesOut
  <2>6. CASE ShutdownFailed
    BY <2>6, <1>0 DEF ShutdownFailed, CancelInv
  <2>7. CASE ShutdownComplete
    BY <2>7, <1>0 DEF ShutdownComplete
  <2>8. CASE ShutdownClose
    BY <2>8, <1>0 DEF ShutdownClose
  <2> QED
    BY <1>3, <2>1, <2>2, <2>3, <2>4, <2>5, <2>6, <2>7, <2>8 DEF Shutdown
<1>4. CASE ShutdownBegin
  BY <1>4, <1>0 DEF ShutdownBegin
<1>5. ASSUME NEW n \in Restarts, Workflow(n) PROVE AnnounceInv'
  <2>1. CASE WorkflowError(n)
    BY <2>1, <1>0 DEF WorkflowError
  <2>2. ASSUME NEW result \in {"stopped", "failed"}, WorkflowComplete(n, result) PROVE AnnounceInv'
    BY <2>2, <1>0 DEF WorkflowComplete
  <2>3. CASE WorkflowCrash(n)
    BY <2>3, <1>0 DEF WorkflowCrash
  <2>4. CASE WorkflowFinish(n)
    BY <2>4, <1>0 DEF WorkflowFinish
  <2>5. CASE OrphanCloses(n)
    BY <2>5, <1>0 DEF OrphanCloses
  <2> QED
    BY <1>5, <2>1, <2>2, <2>3, <2>4, <2>5 DEF Workflow
<1>6. ASSUME NEW s \in Stoppers, StopRequest(s) \/ Stop(s) PROVE AnnounceInv'
  <2>1. CASE StopRequest(s)
    BY <2>1, <1>0 DEF StopRequest
  <2>2. CASE StopBegin(s)
    BY <2>2, <1>0 DEF StopBegin
  <2>3. CASE StopReturns(s)
    BY <2>3, <1>0 DEF StopReturns
  <2>4. CASE StopTimesOut(s)
    BY <2>4, <1>0 DEF StopTimesOut
  <2>5. CASE StopFailed(s)
    BY <2>5, <1>0 DEF StopFailed
  <2>6. CASE StopFinally(s)
    BY <2>6, <1>0 DEF StopFinally
  <2> QED
    BY <1>6, <2>1, <2>2, <2>3, <2>4, <2>5, <2>6 DEF Stop
<1>7. CASE UNCHANGED vars
  BY <1>7, <1>0 DEF vars
<1> QED
  BY <1>1, <1>2, <1>3, <1>4, <1>5, <1>6, <1>7 DEF Next

(* The terminal event is published once and tells the status of the run;   *)
(* only shutdown's own failure may turn a stopped run failed afterwards.   *)
THEOREM CompletionAgreesAlways == Spec => []CompletionAgrees
<1>1. Init => AnnounceInv
  BY DEF Init, AnnounceInv, CompletionAgrees
<1>2. SafetyInv /\ AnnounceInv /\ [Next]_vars => AnnounceInv'
  BY AnnounceStep
<1>3. AnnounceInv => CompletionAgrees
  BY DEF AnnounceInv
<1> QED
  BY <1>1, <1>2, <1>3, SafetyInvariant, PTL DEF Spec

(* What clients are told of the outcome is so: a run reported stopped holds *)
(* no microphone, whatever stop, recovery and shutdown did to each other,  *)
(* and its terminal event tells its status.  A stop request that comes     *)
(* while the run is being started is not covered: the run then records on. *)
THEOREM OutcomeAgreesAlways ==
  ASSUME ~StopsDuringStart PROVE Spec => []OutcomeAgrees
<1>1. Init => StopInv
  BY DEF Init, StopInv, Terminal
<1>2. SafetyInv /\ StopInv /\ [Next]_vars => StopInv'
  BY StopStep
<1>3. StopInv => StoppedMeansClosed
  BY DEF StopInv, StoppedMeansClosed, NothingCaptures
<1>4. StoppedMeansClosed /\ CompletionAgrees => OutcomeAgrees
  BY DEF OutcomeAgrees
<1> QED
  BY <1>1, <1>2, <1>3, <1>4, SafetyInvariant, CompletionAgreesAlways, PTL DEF Spec

-----------------------------------------------------------------------------
Reopening == pump \in {"decide", "backoff", "waiting", "opening"}

(* What a client's view of the run adds: the status goes with the start     *)
(* handler and with cancellation, and a run whose pump is about to reopen   *)
(* has no failed stop behind it, since what was to be stopped had finished. *)
PromiseInv ==
  /\ status # "completed"
  /\ starter \in {"opening", "opened"} => status = "starting"
  /\ starter \in {"recorded", "done"} => status # "absent"
  /\ status = "stopping" => recoveryCancel
  /\ status \in Terminal => recoveryCancel \/ pump \in {"abandon", "done"}
  /\ pumpWf <= restartCount
  /\ pump \in {"waiting", "opening", "opened"} => restartCount # pumpWf
  /\ Reopening \/ pump = "opened" => wf[pumpWf] = "finished"
  /\ Reopening => /\ status \notin Terminal
                  /\ shut # "raised" /\ \A s \in Stoppers : stopper[s] # "raised"


(* A workflow that has finished stays so; the two opens take its number     *)
(* for a new one.                                                           *)
LEMMA FinishedStays ==
  ASSUME TypeOK, [Next]_vars, NEW m \in Restarts, wf[m] = "finished"
  PROVE  \/ wf'[m] = "finished"
         \/ starter = "opening" /\ starter' = "opened"
         \/ pump = "opening" /\ pump' = "opened" /\ m = restartCount
<1> DEFINE Goal == \/ wf'[m] = "finished"
                   \/ starter = "opening" /\ starter' = "opened"
                   \/ pump = "opening" /\ pump' = "opened" /\ m = restartCount
<1> SUFFICES Goal
  OBVIOUS
<1> USE DEF Relaying, StopRequested, record, service, workflows, pumpVars,
        stopVars, shutVars, PumpUnchanged, ShutUnchanged, TypeOK
<1>1. CASE Start
  <2>1. CASE StartAdd
    BY <2>1 DEF StartAdd
  <2>2. CASE StartOpen
    BY <2>2 DEF StartOpen
  <2>3. CASE StartFails
    BY <2>3 DEF StartFails
  <2>4. CASE StartRecord
    BY <2>4 DEF StartRecord
  <2>5. CASE StartPump
    BY <2>5 DEF StartPump
  <2> QED
    BY <1>1, <2>1, <2>2, <2>3, <2>4, <2>5 DEF Start
<1>2. CASE Pump
  <2>1. CASE PumpRelay
    BY <2>1 DEF PumpRelay
  <2>2. CASE PumpCompleted
    BY <2>2 DEF PumpCompleted
  <2>3. CASE PumpEmpty
    BY <2>3 DEF PumpEmpty
  <2>4. CASE PumpPoll
    BY <2>4 DEF PumpPoll
  <2>5. CASE PumpEnded
    BY <2>5 DEF PumpEnded
  <2>6. CASE PumpDrained
    BY <2>6 DEF PumpDrained
  <2>7. CASE PumpFinal
    BY <2>7 DEF PumpFinal
  <2>8. CASE PumpAnnounce
    BY <2>8 DEF PumpAnnounce
  <2>9. CASE PumpDecide
    BY <2>9 DEF PumpDecide
  <2>10. CASE PumpBackoff
    BY <2>10 DEF PumpBackoff
  <2>11. CASE PumpWaited
    BY <2>11 DEF PumpWaited
  <2>12. CASE PumpOpen
    BY <2>12 DEF PumpOpen
  <2>13. CASE PumpOpenFails
    BY <2>13 DEF PumpOpenFails
  <2>14. CASE PumpSwap
    BY <2>14 DEF PumpSwap
  <2>15. CASE PumpReplacementStopped
    BY <2>15 DEF PumpReplacementStopped
  <2>16. CASE PumpReplacementTimeout
    BY <2>16 DEF PumpReplacementTimeout
  <2>17. CASE PumpAbandon
    BY <2>17 DEF PumpAbandon
  <2> QED
    BY <1>2, <2>1, <2>2, <2>3, <2>4, <2>5, <2>6, <2>7, <2>8, <2>9, <2>10, <2>11, <2>12, <2>13,
       <2>14, <2>15, <2>16, <2>17 DEF Pump
<1>3. CASE Shutdown
  <2>1. CASE ShutdownCancel
    BY <2>1 DEF ShutdownCancel
  <2>2. CASE ShutdownMark
    BY <2>2 DEF ShutdownMark
  <2>3. CASE ShutdownCollect
    BY <2>3 DEF ShutdownCollect
  <2>4. CASE ShutdownStopReturns
    BY <2>4 DEF ShutdownStopReturns
  <2>5. CASE ShutdownStopTimesOut
    BY <2>5 DEF ShutdownStopTimesOut
  <2>6. CASE ShutdownFailed
    BY <2>6 DEF ShutdownFailed
  <2>7. CASE ShutdownComplete
    BY <2>7 DEF ShutdownComplete
  <2>8. CASE ShutdownClose
    BY <2>8 DEF ShutdownClose
  <2> QED
    BY <1>3, <2>1, <2>2, <2>3, <2>4, <2>5, <2>6, <2>7, <2>8 DEF Shutdown
<1>4. CASE ShutdownBegin
  BY <1>4 DEF ShutdownBegin
<1>5. ASSUME NEW n \in Restarts, Workflow(n) PROVE Goal
  <2>1. CASE WorkflowError(n)
    BY <2>1 DEF WorkflowError
  <2>2. ASSUME NEW result \in {"stopped", "failed"}, WorkflowComplete(n, result) PROVE Goal
    BY <2>2 DEF WorkflowComplete
  <2>3. CASE WorkflowCrash(n)
    BY <2>3 DEF WorkflowCrash
  <2>4. CASE WorkflowFinish(n)
    BY <2>4 DEF WorkflowFinish
  <2>5. CASE OrphanCloses(n)
    BY <2>5 DEF OrphanCloses
  <2> QED
    BY <1>5, <2>1, <2>2, <2>3, <2>4, <2>5 DEF Workflow
<1>6. ASSUME NEW s \in Stoppers, StopRequest(s) \/ Stop(s) PROVE Goal
  <2>1. CASE StopRequest(s)
    BY <2>1 DEF StopRequest
  <2>2. CASE StopBegin(s)
    BY <2>2 DEF StopBegin
  <2>3. CASE StopReturns(s)
    BY <2>3 DEF StopReturns
  <2>4. CASE StopTimesOut(s)
    BY <2>4 DEF StopTimesOut
  <2>5. CASE StopFailed(s)
    BY <2>5 DEF StopFailed
  <2>6. CASE StopFinally(s)
    BY <2>6 DEF StopFinally
  <2> QED
    BY <1>6, <2>1, <2>2, <2>3, <2>4, <2>5, <2>6 DEF Stop
<1>7. CASE UNCHANGED vars
  BY <1>7 DEF vars
<1> QED
  BY <1>1, <1>2, <1>3, <1>4, <1>5, <1>6, <1>7 DEF Next

(* Every step keeps the client's view of the run.                           *)
LEMMA PromiseStep ==
  ASSUME ~StopsDuringStart, SafetyInv, StopInv, PromiseInv, [Next]_vars PROVE PromiseInv'
<1> USE DEF PromiseInv, Reopening, Terminal, record, service, workflows, pumpVars, stopVars,
        shutVars, PumpUnchanged, ShutUnchanged, Closing
<1>0. /\ TypeOK /\ StartInv /\ CancelInv /\ CaptureInv /\ StopInv
      /\ wf[pumpWf] = "finished" => \/ wf'[pumpWf] = "finished"
                                    \/ starter = "opening" /\ starter' = "opened"
                                    \/ pump = "opening" /\ pump' = "opened" /\ pumpWf = restartCount
      /\ starter # "done" => pump = "none"
      /\ pumpWf \in Restarts /\ restartCount \in Restarts
  BY FinishedStays DEF SafetyInv, TypeOK, StartInv
<1>1. CASE Start
  <2>1. CASE StartAdd
    BY <2>1, <1>0 DEF StartAdd, StartInv, StopInv
  <2>2. CASE StartOpen
    BY <2>2, <1>0 DEF StartOpen, StartInv
  <2>3. CASE StartFails
    BY <2>3, <1>0 DEF StartFails, StartInv, StopInv
  <2>4. CASE StartRecord
    BY <2>4, <1>0 DEF StartRecord, StartInv, StopInv
  <2>5. CASE StartPump
    BY <2>5, <1>0 DEF StartPump, StartInv
  <2> QED
    BY <1>1, <2>1, <2>2, <2>3, <2>4, <2>5 DEF Start
<1>2. CASE Pump
  <2>1. CASE PumpRelay
    BY <2>1, <1>0 DEF PumpRelay
  <2>2. CASE PumpCompleted
    BY <2>2, <1>0 DEF PumpCompleted
  <2>3. CASE PumpEmpty
    BY <2>3, <1>0 DEF PumpEmpty
  <2>4. CASE PumpPoll
    BY <2>4, <1>0 DEF PumpPoll
  <2>5. CASE PumpEnded
    BY <2>5, <1>0 DEF PumpEnded
  <2>6. CASE PumpDrained
    BY <2>6, <1>0 DEF PumpDrained, StopInv, CaptureInv, StopReturned, Finished, Orphan
  <2>7. CASE PumpFinal
    BY <2>7, <1>0 DEF PumpFinal
  <2>8. CASE PumpAnnounce
    BY <2>8, <1>0 DEF PumpAnnounce
  <2>9. CASE PumpDecide
    BY <2>9, <1>0 DEF PumpDecide, Cancelling, CancelInv, DesiredActive
  <2>10. CASE PumpBackoff
    BY <2>10, <1>0, MicRunAssumption DEF PumpBackoff, Restarts
  <2>11. CASE PumpWaited
    BY <2>11, <1>0 DEF PumpWaited, Cancelling, CancelInv, DesiredActive
  <2>12. CASE PumpOpen
    BY <2>12, <1>0 DEF PumpOpen
  <2>13. CASE PumpOpenFails
    BY <2>13, <1>0 DEF PumpOpenFails, Cancelling, CancelInv, DesiredActive
  <2>14. CASE PumpSwap
    BY <2>14, <1>0 DEF PumpSwap, Cancelling, CancelInv, DesiredActive, Restarts, TypeOK
  <2>15. CASE PumpReplacementStopped
    BY <2>15, <1>0 DEF PumpReplacementStopped, CancelInv, Restarts, CaptureInv
  <2>16. CASE PumpReplacementTimeout
    BY <2>16, <1>0 DEF PumpReplacementTimeout
  <2>17. CASE PumpAbandon
    BY <2>17, <1>0 DEF PumpAbandon
  <2> QED
    BY <1>2, <2>1, <2>2, <2>3, <2>4, <2>5, <2>6, <2>7, <2>8, <2>9, <2>10, <2>11, <2>12, <2>13,
       <2>14, <2>15, <2>16, <2>17 DEF Pump
<1>3. CASE Shutdown
  <2>1. CASE ShutdownCancel
    BY <2>1, <1>0 DEF ShutdownCancel
  <2>2. CASE ShutdownMark
    BY <2>2, <1>0 DEF ShutdownMark, StopInv, CaptureInv, StartInv, Finished
  <2>3. CASE ShutdownCollect
    BY <2>3, <1>0 DEF ShutdownCollect, StopInv, CaptureInv, StartInv, Finished
  <2>4. CASE ShutdownStopReturns
    BY <2>4, <1>0 DEF ShutdownStopReturns
  <2>5. CASE ShutdownStopTimesOut
    BY <2>5, <1>0 DEF ShutdownStopTimesOut, StopInv, CaptureInv, StartInv, Finished
  <2>6. CASE ShutdownFailed
    BY <2>6, <1>0 DEF ShutdownFailed, StopInv, CaptureInv, StartInv, Finished
  <2>7. CASE ShutdownComplete
    BY <2>7, <1>0 DEF ShutdownComplete
  <2>8. CASE ShutdownClose
    BY <2>8, <1>0 DEF ShutdownClose
  <2> QED
    BY <1>3, <2>1, <2>2, <2>3, <2>4, <2>5, <2>6, <2>7, <2>8 DEF Shutdown
<1>4. CASE ShutdownBegin
  BY <1>4, <1>0 DEF ShutdownBegin
<1>5. ASSUME NEW n \in Restarts, Workflow(n) PROVE PromiseInv'
  <2>1. CASE WorkflowError(n)
    BY <2>1, <1>0 DEF WorkflowError
  <2>2. ASSUME NEW result \in {"stopped", "failed"}, WorkflowComplete(n, result) PROVE PromiseInv'
    BY <2>2, <1>0 DEF WorkflowComplete
  <2>3. CASE WorkflowCrash(n)
    BY <2>3, <1>0 DEF WorkflowCrash
  <2>4. CASE WorkflowFinish(n)
    BY <2>4, <1>0 DEF WorkflowFinish
  <2>5. CASE OrphanCloses(n)
    BY <2>5, <1>0 DEF OrphanCloses
  <2> QED
    BY <1>5, <2>1, <2>2, <2>3, <2>4, <2>5 DEF Workflow
<1>6. ASSUME NEW s \in Stoppers, StopRequest(s) \/ Stop(s) PROVE PromiseInv'
  <2>1. CASE StopRequest(s)
    BY <2>1, <1>0 DEF StopRequest, StartInv, StopInv, TypeOK
  <2>2. CASE StopBegin(s)
    BY <2>2, <1>0 DEF StopBegin, StopInv, TypeOK, CancelInv
  <2>3. CASE StopReturns(s)
    BY <2>3, <1>0 DEF StopReturns, StopInv, TypeOK, CancelInv
  <2>4. CASE StopTimesOut(s)
    BY <2>4, <1>0 DEF StopTimesOut, StopInv, CaptureInv, Finished, TypeOK
  <2>5. CASE StopFailed(s)
    BY <2>5, <1>0 DEF StopFailed, StopInv, TypeOK, CancelInv
  <2>6. CASE StopFinally(s)
    BY <2>6, <1>0 DEF StopFinally, StopInv, TypeOK, CancelInv
  <2> QED
    BY <1>6, <2>1, <2>2, <2>3, <2>4, <2>5, <2>6 DEF Stop
<1>7. CASE UNCHANGED vars
  BY <1>7, <1>0 DEF vars
<1> QED
  BY <1>1, <1>2, <1>3, <1>4, <1>5, <1>6, <1>7 DEF Next

(* Only the workflow's own end makes nothing capture any more.              *)
LEMMA ClosesOnly ==
  ASSUME TypeOK, [Next]_vars
  PROVE  status' = status \/ (NothingCaptures' => NothingCaptures)
<1> DEFINE Goal == status' = status \/ (NothingCaptures' => NothingCaptures)
<1> SUFFICES Goal
  OBVIOUS
<1> USE DEF NothingCaptures, Capturing, Relaying, Orphan, record, service, workflows, pumpVars,
        stopVars, shutVars, PumpUnchanged, ShutUnchanged
<1>1. CASE Start
  <2>1. CASE StartAdd
    BY <2>1 DEF StartAdd
  <2>2. CASE StartOpen
    BY <2>2 DEF StartOpen
  <2>3. CASE StartFails
    BY <2>3 DEF StartFails
  <2>4. CASE StartRecord
    BY <2>4 DEF StartRecord
  <2>5. CASE StartPump
    BY <2>5 DEF StartPump
  <2> QED
    BY <1>1, <2>1, <2>2, <2>3, <2>4, <2>5 DEF Start
<1>2. CASE Pump
  <2>1. CASE PumpRelay
    BY <2>1 DEF PumpRelay
  <2>2. CASE PumpCompleted
    BY <2>2 DEF PumpCompleted
  <2>3. CASE PumpEmpty
    BY <2>3 DEF PumpEmpty
  <2>4. CASE PumpPoll
    BY <2>4 DEF PumpPoll
  <2>5. CASE PumpEnded
    BY <2>5, StopRequestedCaptures DEF PumpEnded
  <2>6. CASE PumpDrained
    BY <2>6 DEF PumpDrained
  <2>7. CASE PumpFinal
    BY <2>7 DEF PumpFinal
  <2>8. CASE PumpAnnounce
    BY <2>8 DEF PumpAnnounce
  <2>9. CASE PumpDecide
    BY <2>9 DEF PumpDecide
  <2>10. CASE PumpBackoff
    BY <2>10 DEF PumpBackoff
  <2>11. CASE PumpWaited
    BY <2>11 DEF PumpWaited
  <2>12. CASE PumpOpen
    BY <2>12 DEF PumpOpen
  <2>13. CASE PumpOpenFails
    BY <2>13 DEF PumpOpenFails
  <2>14. CASE PumpSwap
    BY <2>14, StopRequestedCaptures DEF PumpSwap
  <2>15. CASE PumpReplacementStopped
    BY <2>15 DEF PumpReplacementStopped
  <2>16. CASE PumpReplacementTimeout
    BY <2>16 DEF PumpReplacementTimeout
  <2>17. CASE PumpAbandon
    BY <2>17 DEF PumpAbandon
  <2> QED
    BY <1>2, <2>1, <2>2, <2>3, <2>4, <2>5, <2>6, <2>7, <2>8, <2>9, <2>10, <2>11, <2>12, <2>13,
       <2>14, <2>15, <2>16, <2>17 DEF Pump
<1>3. CASE Shutdown
  <2>1. CASE ShutdownCancel
    BY <2>1 DEF ShutdownCancel
  <2>2. CASE ShutdownMark
    BY <2>2 DEF ShutdownMark
  <2>3. CASE ShutdownCollect
    BY <2>3, StopRequestedCaptures DEF ShutdownCollect
  <2>4. CASE ShutdownStopReturns
    BY <2>4 DEF ShutdownStopReturns
  <2>5. CASE ShutdownStopTimesOut
    BY <2>5 DEF ShutdownStopTimesOut
  <2>6. CASE ShutdownFailed
    BY <2>6 DEF ShutdownFailed
  <2>7. CASE ShutdownComplete
    BY <2>7 DEF ShutdownComplete
  <2>8. CASE ShutdownClose
    BY <2>8 DEF ShutdownClose
  <2> QED
    BY <1>3, <2>1, <2>2, <2>3, <2>4, <2>5, <2>6, <2>7, <2>8 DEF Shutdown
<1>4. CASE ShutdownBegin
  BY <1>4 DEF ShutdownBegin
<1>5. ASSUME NEW n \in Restarts, Workflow(n) PROVE Goal
  <2>1. CASE WorkflowError(n)
    BY <2>1 DEF WorkflowError
  <2>2. ASSUME NEW result \in {"stopped", "failed"}, WorkflowComplete(n, result) PROVE Goal
    BY <2>2 DEF WorkflowComplete
  <2>3. CASE WorkflowCrash(n)
    BY <2>3 DEF WorkflowCrash
  <2>4. CASE WorkflowFinish(n)
    BY <2>4 DEF WorkflowFinish
  <2>5. CASE OrphanCloses(n)
    BY <2>5 DEF OrphanCloses
  <2> QED
    BY <1>5, <2>1, <2>2, <2>3, <2>4, <2>5 DEF Workflow
<1>6. ASSUME NEW s \in Stoppers, StopRequest(s) \/ Stop(s) PROVE Goal
  <2>1. CASE StopRequest(s)
    BY <2>1 DEF StopRequest
  <2>2. CASE StopBegin(s)
    BY <2>2, StopRequestedCaptures DEF StopBegin
  <2>3. CASE StopReturns(s)
    BY <2>3 DEF StopReturns
  <2>4. CASE StopTimesOut(s)
    BY <2>4 DEF StopTimesOut
  <2>5. CASE StopFailed(s)
    BY <2>5 DEF StopFailed
  <2>6. CASE StopFinally(s)
    BY <2>6 DEF StopFinally
  <2> QED
    BY <1>6, <2>1, <2>2, <2>3, <2>4, <2>5, <2>6 DEF Stop
<1>7. CASE UNCHANGED vars
  BY <1>7 DEF vars
<1> QED
  BY <1>1, <1>2, <1>3, <1>4, <1>5, <1>6, <1>7 DEF Next

Phase == IF status \in {"starting", "recording"} THEN "active" ELSE status

(* The moves of the promise, told of the run's status and its workflows.    *)
PhaseMove ==
  \/ /\ status \in {"starting", "recording", "stopping"} /\ Phase' = Phase
     /\ NothingCaptures /\ ~NothingCaptures'
  \/ Phase' = Phase /\ ~NothingCaptures /\ NothingCaptures'
  \/ /\ NothingCaptures' <=> NothingCaptures
     /\ \/ status = "absent" /\ Phase' = "active"
        \/ Phase = "active" /\ NothingCaptures /\ status' = "absent"
        \/ Phase = "active" /\ status' = "stopping"
        \/ status = "stopping" /\ NothingCaptures /\ status' = "stopped"
        \/ status # "absent" /\ status' = "failed"
        \/ Phase' = Phase

(* What a step does to the status a client sees and to the microphone is    *)
(* one of those moves, or changes neither.                                  *)
LEMMA PhaseStep ==
  ASSUME ~StopsDuringStart, SafetyInv, StopInv, PromiseInv, [Next]_vars
  PROVE  PhaseMove
<1> USE DEF Terminal, record, service, workflows, pumpVars, stopVars, shutVars,
        PumpUnchanged, ShutUnchanged, PromiseInv, Phase, PhaseMove
<1>0. /\ TypeOK /\ StartInv /\ CancelInv /\ CaptureInv
      /\ NothingCaptures => \/ NothingCaptures'
                            \/ starter = "opening" /\ starter' = "opened"
                            \/ pump = "opening" /\ pump' = "opened"
      /\ status' = status \/ (NothingCaptures' => NothingCaptures)
      /\ status # "completed" /\ status' # "completed"
      /\ starter # "done" => pump = "none"
  BY OpensOnly, ClosesOnly, PromiseStep DEF SafetyInv, StartInv
<1>1. CASE Start
  <2>1. CASE StartAdd
    BY <2>1, <1>0 DEF StartAdd, StartInv
  <2>2. CASE StartOpen
    BY <2>2, <1>0 DEF StartOpen, TypeOK, Active
  <2>3. CASE StartFails
    BY <2>3, <1>0 DEF StartFails, StartInv, CaptureInv, NothingOpen, NothingCaptures
  <2>4. CASE StartRecord
    BY <2>4, <1>0 DEF StartRecord, StartInv
  <2>5. CASE StartPump
    BY <2>5, <1>0 DEF StartPump
  <2> QED
    BY <1>1, <2>1, <2>2, <2>3, <2>4, <2>5 DEF Start
<1>2. CASE Pump
  <2>1. CASE PumpRelay
    BY <2>1, <1>0 DEF PumpRelay
  <2>2. CASE PumpCompleted
    BY <2>2, <1>0 DEF PumpCompleted, StartInv
  <2>3. CASE PumpEmpty
    BY <2>3, <1>0 DEF PumpEmpty
  <2>4. CASE PumpPoll
    BY <2>4, <1>0 DEF PumpPoll
  <2>5. CASE PumpEnded
    BY <2>5, <1>0 DEF PumpEnded
  <2>6. CASE PumpDrained
    BY <2>6, <1>0 DEF PumpDrained
  <2>7. CASE PumpFinal
    BY <2>7, <1>0 DEF PumpFinal, StopInv, StopSeen, Replacing
  <2>8. CASE PumpAnnounce
    BY <2>8, <1>0 DEF PumpAnnounce
  <2>9. CASE PumpDecide
    BY <2>9, <1>0 DEF PumpDecide, Cancelling, CancelInv, TypeOK, Active, Reopening
  <2>10. CASE PumpBackoff
    BY <2>10, <1>0 DEF PumpBackoff
  <2>11. CASE PumpWaited
    BY <2>11, <1>0 DEF PumpWaited
  <2>12. CASE PumpOpen
    BY <2>12, <1>0 DEF PumpOpen, Reopening, TypeOK, Active
  <2>13. CASE PumpOpenFails
    BY <2>13, <1>0 DEF PumpOpenFails
  <2>14. CASE PumpSwap
    BY <2>14, <1>0 DEF PumpSwap, Cancelling, CancelInv, DesiredActive, TypeOK, Active
  <2>15. CASE PumpReplacementStopped
    BY <2>15, <1>0 DEF PumpReplacementStopped
  <2>16. CASE PumpReplacementTimeout
    BY <2>16, <1>0 DEF PumpReplacementTimeout, StartInv
  <2>17. CASE PumpAbandon
    BY <2>17, <1>0 DEF PumpAbandon
  <2> QED
    BY <1>2, <2>1, <2>2, <2>3, <2>4, <2>5, <2>6, <2>7, <2>8, <2>9, <2>10, <2>11, <2>12, <2>13,
       <2>14, <2>15, <2>16, <2>17 DEF Pump
<1>3. CASE Shutdown
  <2>1. CASE ShutdownCancel
    BY <2>1, <1>0 DEF ShutdownCancel
  <2>2. CASE ShutdownMark
    BY <2>2, <1>0 DEF ShutdownMark, TypeOK, Active
  <2>3. CASE ShutdownCollect
    BY <2>3, <1>0 DEF ShutdownCollect
  <2>4. CASE ShutdownStopReturns
    BY <2>4, <1>0 DEF ShutdownStopReturns
  <2>5. CASE ShutdownStopTimesOut
    BY <2>5, <1>0 DEF ShutdownStopTimesOut
  <2>6. CASE ShutdownFailed
    BY <2>6, <1>0 DEF ShutdownFailed, StartInv
  <2>7. CASE ShutdownComplete
    BY <2>7, <1>0 DEF ShutdownComplete
  <2>8. CASE ShutdownClose
    BY <2>8, <1>0 DEF ShutdownClose
  <2> QED
    BY <1>3, <2>1, <2>2, <2>3, <2>4, <2>5, <2>6, <2>7, <2>8 DEF Shutdown
<1>4. CASE ShutdownBegin
  BY <1>4, <1>0 DEF ShutdownBegin
<1>5. ASSUME NEW n \in Restarts, Workflow(n) PROVE PhaseMove
  <2>1. CASE WorkflowError(n)
    BY <2>1, <1>0 DEF WorkflowError
  <2>2. ASSUME NEW result \in {"stopped", "failed"}, WorkflowComplete(n, result) PROVE PhaseMove
    BY <2>2, <1>0 DEF WorkflowComplete
  <2>3. CASE WorkflowCrash(n)
    BY <2>3, <1>0 DEF WorkflowCrash
  <2>4. CASE WorkflowFinish(n)
    BY <2>4, <1>0 DEF WorkflowFinish
  <2>5. CASE OrphanCloses(n)
    BY <2>5, <1>0 DEF OrphanCloses
  <2> QED
    BY <1>5, <2>1, <2>2, <2>3, <2>4, <2>5 DEF Workflow
<1>6. ASSUME NEW s \in Stoppers, StopRequest(s) \/ Stop(s) PROVE PhaseMove
  <2>1. CASE StopRequest(s)
    BY <2>1, <1>0 DEF StopRequest
  <2>2. CASE StopBegin(s)
    BY <2>2, <1>0 DEF StopBegin
  <2>3. CASE StopReturns(s)
    BY <2>3, <1>0 DEF StopReturns
  <2>4. CASE StopTimesOut(s)
    BY <2>4, <1>0 DEF StopTimesOut
  <2>5. CASE StopFailed(s)
    BY <2>5, <1>0 DEF StopFailed
  <2>6. CASE StopFinally(s)
    BY <2>6, <1>0 DEF StopFinally
  <2> QED
    BY <1>6, <2>1, <2>2, <2>3, <2>4, <2>5, <2>6 DEF Stop
<1>7. CASE UNCHANGED vars
  BY <1>7, <1>0 DEF vars, NothingCaptures, Capturing, Relaying, Orphan
<1> QED
  BY <1>1, <1>2, <1>3, <1>4, <1>5, <1>6, <1>7 DEF Next

(* So every step implements a step of the promise, or none.                 *)
LEMMA MoveKeepsPromise ==
  ASSUME TypeOK, TypeOK', status # "completed", status' # "completed", PhaseMove
  PROVE  [Promise!Next]_(Promise!vars)
<1>1. /\ NothingCaptures <=> ~\E n \in Restarts : Capturing(n)
      /\ NothingCaptures' <=> ~\E n \in Restarts : Capturing(n)'
  BY DEF NothingCaptures
<1> QED
  BY <1>1 DEF Promise!Next, Promise!vars, Promise!Accept, Promise!Refuse, Promise!Open,
     Promise!Close, Promise!Cancel, Promise!Stopped, Promise!Failed, TypeOK, Active, Terminal,
     PhaseMove, Phase


(* The run with all its threads does only what the API promises: it is      *)
(* accepted once, becomes terminal only by way of a cancellation or a       *)
(* failure, is reported stopped only when nothing captures, and never      *)
(* captures again after that.  This is the safety part of the refinement   *)
(* ImplementsPromise; that a stopping run settles is liveness.             *)
THEOREM KeepsPromise ==
  ASSUME ~StopsDuringStart PROVE Spec => Promise!Init /\ [][Promise!Next]_(Promise!vars)
<1>1. Init => StopInv /\ PromiseInv
  BY MicRunAssumption DEF Init, StopInv, PromiseInv, Reopening, Terminal, Restarts
<1>2. SafetyInv /\ StopInv /\ PromiseInv /\ [Next]_vars => StopInv' /\ PromiseInv'
  BY StopStep, PromiseStep
<1>3. Init => Promise!Init
  BY DEF Init, Promise!Init, Capturing, Relaying, Orphan
<1>4. SafetyInv /\ StopInv /\ PromiseInv /\ SafetyInv' /\ PromiseInv' /\ [Next]_vars
        => [Promise!Next]_(Promise!vars)
  BY PhaseStep, MoveKeepsPromise DEF SafetyInv, PromiseInv
<1> QED
  BY <1>1, <1>2, <1>3, <1>4, SafetyInvariant, PTL DEF Spec

-----------------------------------------------------------------------------
(***************************************************************************)
(* What the workflow of a run does with its transcripts (Forwarding), for  *)
(* any numbers of transcripts, attempts and addresses.                     *)
(***************************************************************************)
OutTypes == {"transcript", "match_results", "matching_error", "forwarded",
             "forwarding_error", "workflow_error", "completed"}
OutEvents == [type : OutTypes, chunk : 0 .. MaxChunks]
Outcome == {"forwarded", "forwarding_error", "matching_error"}

\* What a workflow's output says, as a queue: of chunks in their order, up to the
\* present one, the end at most at the end, and one outcome of a chunk.
Ordered(q) == \A i, j \in 1..Len(q) : i < j => q[i].chunk <= q[j].chunk
Upto(q, c) == \A i \in 1..Len(q) : q[i].chunk <= c
Open(q) == \A i \in 1..Len(q) : q[i].type # "completed"
OnceEach(q) ==
  \A i, j \in 1..Len(q) :
    q[i].type \in Outcome /\ q[j].type \in Outcome /\ q[i].chunk = q[j].chunk => i = j
Says(q, e) == \E i \in 1..Len(q) : q[i] = e
HasOutcome(q, k) == \E i \in 1..Len(q) : q[i].chunk = k /\ q[i].type \in Outcome

Proper(q, c) == q \in Seq(OutEvents) /\ Ordered(q) /\ Upto(q, c) /\ OnceEach(q)

(* One more event of the present chunk.                                     *)
LEMMA OutputGrows ==
  ASSUME NEW q, NEW c \in 0 .. MaxChunks, Proper(q, c), Open(q),
         NEW t \in OutTypes, t \notin Outcome \/ ~HasOutcome(q, c)
  PROVE  LET w == Append(q, Event(t, c))
         IN  /\ Proper(w, c) /\ Len(w) = Len(q) + 1 /\ w[Len(w)] = Event(t, c)
             /\ \A i \in 1..Len(q) : w[i] = q[i]
             /\ t # "completed" => Open(w)
             /\ \A k : HasOutcome(w, k) <=> HasOutcome(q, k) \/ (k = c /\ t \in Outcome)
             /\ \A e : Says(w, e) <=> Says(q, e) \/ e = Event(t, c)
<1> DEFINE w == Append(q, Event(t, c))
<1>1. /\ w \in Seq(OutEvents) /\ Len(w) = Len(q) + 1 /\ w[Len(q) + 1] = Event(t, c)
      /\ Len(q) \in Nat /\ \A i \in 1..Len(q) : w[i] = q[i]
  <2>1. q \in Seq(OutEvents) /\ Event(t, c) \in OutEvents
    BY DEF Proper, OutEvents, Event
  <2> QED
    BY <2>1
<1>2. /\ Event(t, c).chunk = c /\ Event(t, c).type = t
      /\ \A i \in 1..Len(q) : q[i] \in OutEvents /\ q[i].chunk \in Int /\ q[i].chunk <= c
  <2>1. q \in Seq(OutEvents) /\ Upto(q, c)
    BY DEF Proper
  <2>2. \A i \in 1..Len(q) : q[i] \in OutEvents
    BY <2>1
  <2> QED
    BY <2>1, <2>2 DEF OutEvents, Event, Upto
<1> HIDE DEF w
<1>3. \A i \in 1..Len(w) : i \in 1..Len(q) \/ i = Len(q) + 1
  BY <1>1
<1>4. 1..Len(q) \subseteq 1..Len(w) /\ Len(w) \in 1..Len(w)
  BY <1>1
<1>5. Ordered(w)
  <2> SUFFICES ASSUME NEW i \in 1..Len(w), NEW j \in 1..Len(w), i < j
               PROVE  w[i].chunk <= w[j].chunk
    BY DEF Ordered
  <2>1. i \in 1..Len(q) /\ w[i] = q[i]
    BY <1>1, <1>3
  <2>2. CASE j \in 1..Len(q)
    BY <1>1, <2>1, <2>2 DEF Proper, Ordered
  <2>3. CASE j = Len(q) + 1
    BY <1>1, <1>2, <2>1, <2>3
  <2> QED
    BY <1>3, <2>2, <2>3
<1>6. Upto(w, c)
  <2> SUFFICES ASSUME NEW i \in 1..Len(w) PROVE w[i].chunk <= c
    BY DEF Upto
  <2> QED
    BY <1>1, <1>2, <1>3
<1>7. OnceEach(w)
  <2> SUFFICES ASSUME NEW i \in 1..Len(w), NEW j \in 1..Len(w), w[i].type \in Outcome,
                      w[j].type \in Outcome, w[i].chunk = w[j].chunk
               PROVE  i = j
    BY DEF OnceEach
  <2>1. CASE i \in 1..Len(q) /\ j \in 1..Len(q)
    BY <1>1, <2>1 DEF Proper, OnceEach
  <2>2. CASE i \in 1..Len(q) /\ j = Len(q) + 1
    BY <1>1, <1>2, <2>2 DEF HasOutcome
  <2>3. CASE i = Len(q) + 1 /\ j \in 1..Len(q)
    BY <1>1, <1>2, <2>3 DEF HasOutcome
  <2> QED
    BY <1>3, <2>1, <2>2, <2>3
<1>8. t # "completed" => Open(w)
  BY <1>1, <1>2, <1>3 DEF Open
<1>9. ASSUME NEW k PROVE HasOutcome(w, k) <=> HasOutcome(q, k) \/ (k = c /\ t \in Outcome)
  <2>1. HasOutcome(w, k) => HasOutcome(q, k) \/ (k = c /\ t \in Outcome)
    BY <1>1, <1>2, <1>3 DEF HasOutcome
  <2>2. HasOutcome(q, k) => HasOutcome(w, k)
    BY <1>1, <1>4 DEF HasOutcome
  <2>3. k = c /\ t \in Outcome => HasOutcome(w, k)
    BY <1>1, <1>2, <1>4 DEF HasOutcome
  <2> QED
    BY <2>1, <2>2, <2>3
<1>10. ASSUME NEW e PROVE Says(w, e) <=> Says(q, e) \/ e = Event(t, c)
  BY <1>1, <1>3, <1>4 DEF Says
<1>11. Proper(w, c)
  BY <1>1, <1>5, <1>6, <1>7 DEF Proper
<1> QED
  BY <1>1, <1>8, <1>9, <1>10, <1>11 DEF w

(* Two events are put as one after the other.                               *)
LEMMA TwoEvents ==
  ASSUME NEW q \in Seq(OutEvents), NEW x \in OutEvents, NEW y \in OutEvents
  PROVE  q \o <<x, y>> = Append(Append(q, x), y)
OBVIOUS

-----------------------------------------------------------------------------
Results == {"transcript", "error", "completed"}

\* Where the first n results are transcripts.
Spoken(q, n) == {i \in 1..n : q[i] = "transcript"}

(* Going over the results one by one counts the transcripts.                *)
LEMMA SpokenNext ==
  ASSUME NEW q, NEW n \in Nat
  PROVE  /\ IsFiniteSet(Spoken(q, n)) /\ Cardinality(Spoken(q, n)) \in Nat
         /\ Cardinality(Spoken(q, n + 1)) =
              Cardinality(Spoken(q, n)) + IF q[n + 1] = "transcript" THEN 1 ELSE 0
<1>1. IsFiniteSet(1..n)
  BY FS_Interval
<1>2. IsFiniteSet(Spoken(q, n)) /\ Cardinality(Spoken(q, n)) \in Nat
  BY <1>1, FS_Subset, FS_CardinalityType DEF Spoken
<1>3. n + 1 \notin Spoken(q, n)
  BY DEF Spoken
<1>4. Spoken(q, n + 1) = IF q[n + 1] = "transcript" THEN Spoken(q, n) \union {n + 1} ELSE Spoken(q, n)
  BY DEF Spoken
<1>5. CASE q[n + 1] = "transcript"
  BY <1>2, <1>3, <1>4, <1>5, FS_AddElement
<1>6. CASE q[n + 1] # "transcript"
  BY <1>2, <1>4, <1>6
<1> QED
  BY <1>5, <1>6

(* Fewer results hold no more transcripts.                                  *)
LEMMA SpokenMonotone ==
  ASSUME NEW q, NEW n \in Nat, NEW m \in Nat, n <= m
  PROVE  Cardinality(Spoken(q, n)) <= Cardinality(Spoken(q, m))
<1>1. Spoken(q, n) \subseteq Spoken(q, m)
  BY DEF Spoken
<1> QED
  BY <1>1, SpokenNext, FS_Subset

(* Only what is looked at counts.                                           *)
LEMMA SpokenSame ==
  ASSUME NEW q, NEW w, NEW n \in Nat, \A i \in 1..n : q[i] = w[i]
  PROVE  Spoken(q, n) = Spoken(w, n)
BY DEF Spoken

(* Transcripts is this count.                                               *)
LEMMA TranscriptsSpoken ==
  ASSUME NEW q \in Seq(Results)
  PROVE  Transcripts(q) = Cardinality(Spoken(q, Len(q))) /\ Transcripts(q) \in Nat
<1>1. {i \in DOMAIN q : q[i] = "transcript"} = Spoken(q, Len(q)) /\ Len(q) \in Nat
  BY DEF Spoken
<1> QED
  BY <1>1, SpokenNext DEF Transcripts

-----------------------------------------------------------------------------
Sending == pc \in {"send", "wait"}
HasReceived(k) == \E i \in 1..Len(received) : received[i] = k

\* The consumer's place in the results of a live session: it has counted the transcripts up
\* to there, and it has stopped at the first end.
LiveInv ==
  kind = "live" =>
    /\ chunk = Cardinality(Spoken(results, at))
    /\ Transcripts(results) <= MaxChunks
    /\ pc \in {"take", "send", "wait"} => \A i \in 1..at : results[i] # "completed"
    /\ pc \in {"finish", "done"} =>
         /\ at \in 1..Len(results) /\ results[at] = "completed"
         /\ \A i \in 1..(at - 1) : results[i] # "completed"

\* A clip is one transcript.
ClipInv ==
  kind = "clip" =>
    /\ results = <<"transcript", "completed">> /\ stop = "idle" /\ pc # "finish"
    /\ IF pc = "take" THEN at = 0 /\ chunk = 0 ELSE at = 2 /\ chunk = 1
    /\ pc # "done" => out = <<>>

\* What is on its way, has arrived or has been answered is of the present chunk or earlier.
SendInv ==
  /\ Sending => chunk \in Chunks /\ attempt \in 1..MaxAttempts /\ address \in 1..Addresses
  /\ pc # "wait" => reply = "none"
  /\ reply = "ok" /\ via # "mqtt0" => HasReceived(chunk)
  /\ \A copy \in flying : copy[1] <= chunk
  /\ \A i \in 1..Len(received) : received[i] <= chunk

\* What has been put out: an outcome of each chunk but the one that is being sent.
OutInv ==
  /\ Proper(out, chunk)
  /\ pc # "done" => Open(out)
  /\ pc = "done" => /\ Len(out) > 0 /\ out[Len(out)] = Event("completed", chunk)
                    /\ \A i \in 1..(Len(out) - 1) : out[i].type # "completed"
  /\ Sending => ~HasOutcome(out, chunk)
  /\ kind = "live" => \A k \in 1..chunk : k < chunk \/ ~Sending => HasOutcome(out, k)

\* What is reported as forwarded was received before anything later.
ArrivedFirst(k) ==
  \E i \in 1..Len(received) : received[i] = k /\ \A j \in 1..i : received[j] <= k
ArrivalInv ==
  via # "mqtt0" => \A k \in Chunks : Says(out, Event("forwarded", k)) => ArrivedFirst(k)

FlowInv == DeliveryTypeOK /\ LiveInv /\ ClipInv /\ SendInv /\ OutInv /\ ArrivalInv

(* A new workflow has nothing taken, sent or said.                          *)
LEMMA FlowStart == ForwardingAssumption /\ DeliveryInit => FlowInv
<1> SUFFICES ASSUME ForwardingAssumption, DeliveryInit PROVE FlowInv
  OBVIOUS
<1> USE DEF DeliveryInit, ForwardingAssumption
<1>0. /\ results \in Seq(Results) /\ at = 0 /\ Len(results) \in Nat
      /\ kind = "live" => results = <<>> /\ Len(results) = 0
  <2>1. CASE kind = "live"
    BY <2>1
  <2>2. CASE kind = "clip"
    <3>1. "transcript" \in Results /\ "completed" \in Results
      BY DEF Results
    <3> QED
      BY <2>2, <3>1
  <2> QED
    BY <2>1, <2>2
<1>1. DeliveryTypeOK
  BY <1>0 DEF DeliveryTypeOK, Results
<1>2. LiveInv
  <2>1. Spoken(results, 0) = {} /\ (kind = "live" => Spoken(results, Len(results)) = {})
    BY <1>0 DEF Spoken
  <2>2. Cardinality(Spoken(results, 0)) = 0 /\ (kind = "live" => Transcripts(results) = 0)
    BY <1>0, <2>1, TranscriptsSpoken, FS_EmptySet
  <2>3. 1..at = {} /\ chunk = 0 /\ 0 <= MaxChunks /\ pc = "take"
    OBVIOUS
  <2> QED
    BY <1>0, <2>2, <2>3 DEF LiveInv
<1>3. ClipInv /\ SendInv
  BY DEF ClipInv, SendInv, Sending
<1>4. OutInv
  <2>1. out \in Seq(OutEvents) /\ Len(out) = 0 /\ 1..Len(out) = {}
    OBVIOUS
  <2>2. 1..chunk = {}
    OBVIOUS
  <2> QED
    BY <2>1, <2>2 DEF OutInv, Proper, Ordered, Upto, OnceEach, Open, Sending
<1>5. ArrivalInv
  <2>1. 1..Len(out) = {}
    OBVIOUS
  <2> QED
    BY <2>1 DEF ArrivalInv, Says
<1> QED
  BY <1>1, <1>2, <1>3, <1>4, <1>5 DEF FlowInv

-----------------------------------------------------------------------------
(* The session adds to its results, whose beginning is what the consumer    *)
(* has seen.                                                                *)
LEMMA ResultsGrow ==
  ASSUME FlowInv, kind = "live", NEW w \in Seq(Results), Len(results) <= Len(w),
         \A i \in 1..Len(results) : w[i] = results[i], Transcripts(w) <= MaxChunks,
         results' = w, UNCHANGED <<kind, at, pc, chunk>>
  PROVE  LiveInv' /\ ClipInv' /\ at' \in 0 .. Len(results')
<1>1. /\ results \in Seq(Results) /\ Len(results) \in Nat /\ Len(w) \in Nat
      /\ at \in 0 .. Len(results)
  BY DEF FlowInv, DeliveryTypeOK, Results
<1>2. Spoken(w, at) = Spoken(results, at)
  BY <1>1, SpokenSame
<1>3. /\ at \in 0 .. Len(w) /\ 1..at \subseteq 1..Len(results)
      /\ 1..(at - 1) \subseteq 1..Len(results)
      /\ at \in 1..Len(results) => at \in 1..Len(w)
  BY <1>1
<1>4. LiveInv'
  <2>1. /\ chunk = Cardinality(Spoken(w, at))
        /\ pc \in {"take", "send", "wait"} => \A i \in 1..at : w[i] # "completed"
        /\ pc \in {"finish", "done"} =>
             /\ at \in 1..Len(w) /\ w[at] = "completed"
             /\ \A i \in 1..(at - 1) : w[i] # "completed"
    BY <1>2, <1>3 DEF FlowInv, LiveInv
  <2> QED
    BY <2>1 DEF LiveInv
<1> QED
  BY <1>3, <1>4 DEF ClipInv

(* The session and stop() leave what is delivered alone.                    *)
LEMMA FlowOfSession ==
  ASSUME ForwardingAssumption, FlowInv,
         SessionEmits \/ SessionEnds \/ StopCall \/ StopSession \/ StopWaited
  PROVE  FlowInv'
<1> USE DEF ForwardingAssumption
<1>0. /\ UNCHANGED <<kind, via, at, pc, sender, received, out>>
      /\ results \in Seq(Results) /\ at \in 0 .. Len(results) /\ Len(results) \in Nat
      /\ stop' \in {"idle", "session", "waits", "returned", "timed_out"}
  BY DEF FlowInv, DeliveryTypeOK, Results, session, SessionEmits, SessionEnds, StopCall, StopSession, StopWaited
<1>1. /\ LiveInv' /\ ClipInv' /\ at' \in 0 .. Len(results') /\ results' \in Seq(Results)
  <2>0. stop # "idle" => kind = "live"
    BY DEF FlowInv, ClipInv, DeliveryTypeOK
  <2>1. CASE SessionEmits
    <3>1. /\ results' = Append(results, "transcript") /\ kind = "live"
          /\ Transcripts(results) < MaxChunks /\ UNCHANGED stop
      BY <2>1 DEF SessionEmits
    <3>2. /\ Append(results, "transcript") \in Seq(Results)
          /\ Len(Append(results, "transcript")) = Len(results) + 1
          /\ \A i \in 1..Len(results) : Append(results, "transcript")[i] = results[i]
      BY <1>0 DEF Results
    <3>3. Transcripts(Append(results, "transcript")) <= MaxChunks
      <4> DEFINE w == Append(results, "transcript")
      <4>1. w \in Seq(Results) /\ Len(w) = Len(results) + 1 /\ \A i \in 1..Len(results) : w[i] = results[i]
        BY <3>2
      <4> HIDE DEF w
      <4>2. Cardinality(Spoken(w, Len(results) + 1)) <= Cardinality(Spoken(w, Len(results))) + 1
        <5>1. /\ Cardinality(Spoken(w, Len(results))) \in Nat
              /\ Cardinality(Spoken(w, Len(results) + 1)) =
                   Cardinality(Spoken(w, Len(results))) + IF w[Len(results) + 1] = "transcript" THEN 1 ELSE 0
          BY <1>0, SpokenNext
        <5> HIDE DEF w
        <5> QED
          BY <5>1
      <4>3. Spoken(w, Len(results)) = Spoken(results, Len(results))
        BY <1>0, <4>1, SpokenSame
      <4>4. Transcripts(w) <= Transcripts(results) + 1
        BY <1>0, <4>1, <4>2, <4>3, TranscriptsSpoken
      <4>5. Transcripts(w) \in Nat /\ Transcripts(results) \in Nat
        BY <1>0, <4>1, TranscriptsSpoken
      <4> QED
        BY <3>1, <4>4, <4>5 DEF w
    <3> DEFINE w == Append(results, "transcript")
    <3>4. /\ w \in Seq(Results) /\ Len(results) <= Len(w) /\ results' = w
          /\ \A i \in 1..Len(results) : w[i] = results[i]
          /\ Transcripts(w) <= MaxChunks /\ UNCHANGED <<kind, at, pc, chunk>>
      BY <1>0, <3>1, <3>2, <3>3 DEF sender
    <3> HIDE DEF w
    <3> QED
      BY <3>1, <3>4, ResultsGrow
  <2>2. ASSUME NEW v \in Seq(Results), results' = results \o v, kind = "live",
               \A i \in 1..Len(v) : v[i] # "transcript"
        PROVE  LiveInv' /\ ClipInv' /\ at' \in 0 .. Len(results') /\ results' \in Seq(Results)
    <3> DEFINE w == results \o v
    <3>1. /\ w \in Seq(Results) /\ Len(w) = Len(results) + Len(v) /\ Len(v) \in Nat
          /\ \A i \in 1..Len(results) : w[i] = results[i]
          /\ \A i \in 1..Len(w) : i > Len(results) => w[i] = v[i - Len(results)] /\ i - Len(results) \in 1..Len(v)
      BY <1>0
    <3> HIDE DEF w
    <3>2. Spoken(w, Len(w)) = Spoken(results, Len(results))
      <4>1. \A i \in 1..Len(w) : w[i] = "transcript" => i \in 1..Len(results) /\ results[i] = w[i]
        <5>1. \A i \in 1..Len(w) : i \in 1..Len(results) \/ i > Len(results)
          BY <1>0, <3>1
        <5>2. \A i \in 1..Len(w) : i > Len(results) => w[i] # "transcript"
          BY <2>2, <3>1
        <5> QED
          BY <3>1, <5>1, <5>2
      <4>2. 1..Len(results) \subseteq 1..Len(w)
        BY <1>0, <3>1
      <4> QED
        BY <3>1, <4>1, <4>2 DEF Spoken
    <3>3. Transcripts(w) <= MaxChunks
      BY <1>0, <2>2, <3>1, <3>2, TranscriptsSpoken DEF FlowInv, LiveInv
    <3>4. /\ Len(results) <= Len(w) /\ results' = w
          /\ UNCHANGED <<kind, at, pc, chunk>>
      BY <1>0, <2>2, <3>1 DEF w, sender
    <3> QED
      BY <2>2, <3>1, <3>3, <3>4, ResultsGrow
  <2>3. /\ <<"completed">> \in Seq(Results) /\ <<"error", "completed">> \in Seq(Results)
        /\ Append(results, "completed") = results \o <<"completed">>
        /\ \A i \in 1..Len(<<"completed">>) : <<"completed">>[i] # "transcript"
        /\ \A i \in 1..Len(<<"error", "completed">>) : <<"error", "completed">>[i] # "transcript"
    BY <1>0 DEF Results
  <2>4. CASE SessionEnds
    BY <2>2, <2>3, <2>4 DEF SessionEnds
  <2>5. CASE StopSession /\ results' # results
    BY <2>0, <2>2, <2>3, <2>5 DEF StopSession
  <2>6. CASE (StopCall \/ StopSession \/ StopWaited) /\ results' = results
    <3>1. LiveInv'
      BY <1>0, <2>6 DEF FlowInv, LiveInv, sender
    <3>2. kind = "live"
      BY <2>0, <2>6 DEF StopCall, StopSession, StopWaited
    <3> QED
      BY <1>0, <2>6, <3>1, <3>2 DEF ClipInv
  <2>7. StopCall \/ StopWaited => results' = results
    BY DEF StopCall, StopWaited
  <2> QED
    BY <2>1, <2>4, <2>5, <2>6, <2>7
<1>2. DeliveryTypeOK'
  BY <1>0, <1>1 DEF FlowInv, DeliveryTypeOK, Results, sender
<1>3. SendInv' /\ OutInv' /\ ArrivalInv'
  BY <1>0 DEF FlowInv, SendInv, OutInv, ArrivalInv, ArrivedFirst, Sending, HasReceived, sender
<1> QED
  BY <1>1, <1>2, <1>3 DEF FlowInv

(* The receiver takes a request, or refuses it.                             *)
LEMMA FlowOfReceiver ==
  ASSUME FlowInv, NEW copy \in flying, Accept(copy) \/ Reject(copy)
  PROVE  FlowInv'
<1>0. /\ UNCHANGED <<kind, via, results, stop, at, pc, chunk, attempt, address, out>>
      /\ flying' = flying \ {copy}
  BY DEF Accept, Reject, session
<1>1. /\ copy[1] <= chunk /\ copy[1] \in Chunks /\ copy[1] \in Int /\ chunk \in Int
      /\ received \in Seq(Chunks) /\ Len(received) \in Nat
      /\ flying \subseteq Chunks \X (1 .. MaxAttempts) \X (1 .. Addresses)
  BY DEF FlowInv, DeliveryTypeOK, SendInv, Chunks
<1>2. /\ received' \in Seq(Chunks) /\ Len(received') \in Nat /\ Len(received) <= Len(received')
      /\ \A i \in 1..Len(received) : received'[i] = received[i]
      /\ \A i \in 1..Len(received') : received'[i] = copy[1] \/ (i \in 1..Len(received) /\ received'[i] = received[i])
      /\ Accept(copy) => \E i \in 1..Len(received') : received'[i] = copy[1]
  <2>1. CASE Accept(copy) /\ ~\E i \in DOMAIN received : received[i] = copy[1]
    <3>1. received' = Append(received, copy[1])
      BY <2>1 DEF Accept
    <3>2. /\ Append(received, copy[1]) \in Seq(Chunks)
          /\ Len(Append(received, copy[1])) = Len(received) + 1
          /\ Append(received, copy[1])[Len(received) + 1] = copy[1]
          /\ \A i \in 1..Len(received) : Append(received, copy[1])[i] = received[i]
      BY <1>1
    <3> QED
      BY <1>1, <3>1, <3>2
  <2>2. CASE Accept(copy) /\ \E i \in DOMAIN received : received[i] = copy[1]
    <3>1. received' = received /\ DOMAIN received = 1..Len(received)
      BY <1>1, <2>2 DEF Accept
    <3> QED
      BY <1>1, <2>2, <3>1
  <2>3. CASE ~Accept(copy)
    BY <1>1, <2>3 DEF Reject
  <2> QED
    BY <2>1, <2>2, <2>3
<1>3. /\ reply' = reply \/ (pc = "wait" /\ reply' \in {"none", "ok", "permanent", "transient", "deferred"})
      /\ reply' = "ok" => reply = "ok" \/ (Accept(copy) /\ copy[1] = chunk)
  <2>1. CASE Accept(copy)
    BY <2>1 DEF Accept, Answer, Copy
  <2>2. CASE Reject(copy)
    BY <2>2 DEF Reject, Answer
  <2> QED
    BY <2>1, <2>2
<1>4. DeliveryTypeOK'
  BY <1>0, <1>1, <1>2, <1>3 DEF FlowInv, DeliveryTypeOK
<1>5. LiveInv' /\ ClipInv' /\ OutInv'
  BY <1>0 DEF FlowInv, LiveInv, ClipInv, OutInv, Sending
<1>6. SendInv'
  <2>1. reply' = "ok" /\ via # "mqtt0" => \E i \in 1..Len(received') : received'[i] = chunk
    <3>1. 1..Len(received) \subseteq 1..Len(received')
      BY <1>1, <1>2
    <3>2. reply = "ok" /\ via # "mqtt0" => \E i \in 1..Len(received) : received[i] = chunk
      BY DEF FlowInv, SendInv, HasReceived
    <3> QED
      BY <1>2, <1>3, <3>1, <3>2
  <2>2. \A i \in 1..Len(received') : received'[i] <= chunk
    BY <1>1, <1>2 DEF FlowInv, SendInv
  <2> QED
    BY <1>0, <1>3, <2>1, <2>2 DEF FlowInv, SendInv, Sending, HasReceived
<1>7. ArrivalInv'
  <2> SUFFICES ASSUME via # "mqtt0", NEW k \in Chunks, Says(out, Event("forwarded", k))
               PROVE  ArrivedFirst(k)'
    BY <1>0 DEF ArrivalInv
  <2>1. PICK i \in 1..Len(received) : received[i] = k /\ \A j \in 1..i : received[j] <= k
    BY DEF FlowInv, ArrivalInv, ArrivedFirst
  <2>2. i \in 1..Len(received') /\ 1..i \subseteq 1..Len(received)
    BY <1>1, <1>2
  <2> QED
    BY <1>2, <2>1, <2>2 DEF ArrivedFirst
<1> QED
  BY <1>4, <1>5, <1>6, <1>7 DEF FlowInv

(* The session's end, or an error of it, is put out as an event of the      *)
(* present chunk.                                                           *)
LEMMA FlowOfEnds ==
  ASSUME ForwardingAssumption, FlowInv, TakeError \/ TakeCompleted \/ Finish
  PROVE  FlowInv'
<1> USE DEF ForwardingAssumption
<1>0. /\ UNCHANGED <<kind, via, results, stop, chunk, attempt, address, reply, flying, received>>
      /\ pc \in {"take", "finish"} /\ pc' # "send" /\ pc' # "wait"
      /\ chunk \in 0 .. MaxChunks /\ results \in Seq(Results) /\ Len(results) \in Nat
      /\ at \in 0 .. Len(results)
  BY DEF TakeError, TakeCompleted, Finish, Taking, session, sender, FlowInv, DeliveryTypeOK, Results
<1>1. /\ Proper(out, chunk) /\ Open(out)
      /\ kind = "live" => \A k \in 1..chunk : HasOutcome(out, k)
  BY <1>0 DEF FlowInv, OutInv, Sending
<1>2. kind = "live"
  <2>1. kind = "clip" => at = 0 /\ results[1] = "transcript" /\ pc = "take"
    BY <1>0 DEF FlowInv, ClipInv
  <2>2. kind = "clip" \/ kind = "live"
    BY DEF FlowInv, DeliveryTypeOK
  <2> QED
    BY <2>1, <2>2 DEF TakeError, TakeCompleted, Finish
<1>3. /\ at' \in 0 .. Len(results) /\ LiveInv'
  <2>1. CASE TakeError \/ TakeCompleted
    <3>1. at < Len(results) /\ at' = at + 1 /\ pc = "take" /\ results[at + 1] # "transcript"
      BY <2>1 DEF TakeError, TakeCompleted, Taking
    <3>2. Cardinality(Spoken(results, at + 1)) = Cardinality(Spoken(results, at))
      <4>1. Spoken(results, at + 1) = Spoken(results, at)
        BY <1>0, <3>1 DEF Spoken
      <4> QED
        BY <4>1
    <3>3. \A i \in 1..(at + 1) : i \in 1..at \/ i = at + 1
      BY <1>0
    <3>4. at + 1 \in 1..Len(results) /\ (at + 1) - 1 = at
      BY <1>0, <3>1
    <3>5. /\ chunk = Cardinality(Spoken(results, at)) /\ Transcripts(results) <= MaxChunks
          /\ \A i \in 1..at : results[i] # "completed"
      BY <1>2, <3>1 DEF FlowInv, LiveInv
    <3>6. CASE TakeError
      <4>1. results[at + 1] # "completed" /\ pc' = "take"
        BY <3>1, <3>6 DEF TakeError
      <4> QED
        BY <1>0, <3>1, <3>2, <3>3, <3>4, <3>5, <4>1 DEF LiveInv
    <3>7. CASE TakeCompleted
      <4>1. results[at + 1] = "completed" /\ pc' = "finish"
        BY <3>7 DEF TakeCompleted
      <4> QED
        BY <1>0, <3>1, <3>2, <3>4, <3>5, <4>1 DEF LiveInv
    <3> QED
      BY <2>1, <3>6, <3>7
  <2>2. CASE Finish
    BY <1>0, <2>2 DEF Finish, FlowInv, LiveInv
  <2> QED
    BY <2>1, <2>2
<1>4. /\ Proper(out', chunk) /\ \A k : HasOutcome(out', k) <=> HasOutcome(out, k)
      /\ \A k : Says(out', Event("forwarded", k)) <=> Says(out, Event("forwarded", k))
      /\ pc' # "done" => Open(out')
      /\ pc' = "done" => /\ Len(out') > 0 /\ out'[Len(out')] = Event("completed", chunk)
                         /\ \A i \in 1..(Len(out') - 1) : out'[i].type # "completed"
  <2>1. /\ "workflow_error" \in OutTypes /\ "match_results" \in OutTypes /\ "completed" \in OutTypes
        /\ "workflow_error" \notin Outcome /\ "match_results" \notin Outcome /\ "completed" \notin Outcome
        /\ \A t \in OutTypes : Event(t, chunk) \in OutEvents
        /\ \A k : /\ Event("forwarded", k) # Event("workflow_error", chunk)
                  /\ Event("forwarded", k) # Event("match_results", chunk)
                  /\ Event("forwarded", k) # Event("completed", chunk)
    BY <1>0 DEF OutTypes, Outcome, OutEvents, Event
  <2>2. CASE TakeError
    <3>1. out' = Append(out, Event("workflow_error", chunk)) /\ pc' # "done"
      BY <1>0, <2>2 DEF TakeError
    <3> QED
      BY <1>0, <1>1, <2>1, <3>1, OutputGrows
  <2>3. CASE TakeCompleted
    <3>1. out' = out /\ pc' # "done"
      BY <2>3 DEF TakeCompleted
    <3> QED
      BY <1>1, <3>1
  <2>4. CASE Finish
    <3> DEFINE e == Event("workflow_error", chunk)
               m == Event("match_results", chunk)
               c == Event("completed", chunk)
               p == Append(out, m)
               r == Append(p, e)
    <3>1. /\ Proper(p, chunk) /\ Open(p) /\ \A k : HasOutcome(p, k) <=> HasOutcome(out, k)
          /\ \A k : Says(p, Event("forwarded", k)) <=> Says(out, Event("forwarded", k))
      BY <1>0, <1>1, <2>1, OutputGrows
    <3>2. /\ Proper(r, chunk) /\ Open(r) /\ \A k : HasOutcome(r, k) <=> HasOutcome(p, k)
          /\ \A k : Says(r, Event("forwarded", k)) <=> Says(p, Event("forwarded", k))
      <4> HIDE DEF p
      <4> QED
        BY <1>0, <2>1, <3>1, OutputGrows
    <3>3. \E q \in {p, r} : out' = Append(q, c)
      <4>1. out \in Seq(OutEvents) /\ m \in OutEvents /\ e \in OutEvents /\ c \in OutEvents
        BY <1>1, <2>1 DEF Proper
      <4>2. PICK x \in {<<>>, <<e>>} : out' = out \o <<m>> \o x \o <<c>>
        BY <2>4 DEF Finish
      <4> HIDE DEF m, e, c
      <4>5. out \o <<m>> = p /\ p \in Seq(OutEvents) /\ r \in Seq(OutEvents)
        BY <4>1
      <4> HIDE DEF p
      <4>6. p \o <<>> = p /\ p \o <<e>> = r
        BY <4>1, <4>5
      <4> HIDE DEF r
      <4>7. p \o <<c>> = Append(p, c) /\ r \o <<c>> = Append(r, c)
        BY <4>1, <4>5
      <4>3. CASE x = <<>>
        BY <4>2, <4>3, <4>5, <4>6, <4>7
      <4>4. CASE x = <<e>>
        BY <4>2, <4>4, <4>5, <4>6, <4>7
      <4> QED
        BY <4>2, <4>3, <4>4
    <3>4. PICK q \in {p, r} : out' = Append(q, c)
      BY <3>3
    <3>5. /\ Proper(q, chunk) /\ Open(q) /\ \A k : HasOutcome(q, k) <=> HasOutcome(out, k)
          /\ \A k : Says(q, Event("forwarded", k)) <=> Says(out, Event("forwarded", k))
      <4> HIDE DEF p, r
      <4> QED
        BY <3>1, <3>2
    <3> HIDE DEF p, r
    <3>6. /\ Proper(out', chunk) /\ Len(out') = Len(q) + 1 /\ out'[Len(out')] = c
          /\ \A i \in 1..Len(q) : out'[i] = q[i]
          /\ \A k : HasOutcome(out', k) <=> HasOutcome(q, k)
          /\ \A k : Says(out', Event("forwarded", k)) <=> Says(q, Event("forwarded", k))
      BY <1>0, <2>1, <3>4, <3>5, OutputGrows
    <3>7. Len(q) \in Nat /\ pc' = "done"
      BY <2>4, <3>5 DEF Proper, Finish
    <3> QED
      BY <3>5, <3>6, <3>7 DEF Open
  <2> QED
    BY <2>2, <2>3, <2>4
<1>5. DeliveryTypeOK'
  <2>1. pc' \in {"take", "finish", "done"} /\ out' \in Seq(OutEvents)
    BY <1>0, <1>4 DEF TakeError, TakeCompleted, Finish, Proper
  <2> QED
    BY <1>0, <1>3, <2>1 DEF FlowInv, DeliveryTypeOK, OutEvents, OutTypes
<1>6. ClipInv' /\ SendInv'
  BY <1>0, <1>2 DEF FlowInv, ClipInv, SendInv, Sending, HasReceived
<1>7. OutInv'
  <2>1. ~Sending' /\ \A k \in 1..chunk : HasOutcome(out', k)
    BY <1>0, <1>1, <1>2, <1>4 DEF Sending
  <2> QED
    BY <1>0, <1>4, <2>1 DEF OutInv
<1>8. ArrivalInv'
  BY <1>0, <1>4 DEF FlowInv, ArrivalInv, ArrivedFirst
<1> QED
  BY <1>3, <1>5, <1>6, <1>7, <1>8 DEF FlowInv

(* A live session's next transcript is put out, and is sent or has its      *)
(* outcome.                                                                 *)
LEMMA FlowOfTranscript ==
  ASSUME ForwardingAssumption, FlowInv, TakeTranscript
  PROVE  FlowInv'
<1> USE DEF ForwardingAssumption
<1>0. /\ UNCHANGED <<kind, via, results, stop, reply, flying, received>>
      /\ kind = "live" /\ pc = "take" /\ reply = "none" /\ at' = at + 1 /\ chunk' = chunk + 1
      /\ results \in Seq(Results) /\ Len(results) \in Nat /\ chunk \in 0 .. MaxChunks
      /\ at \in 0 .. Len(results) /\ at < Len(results) /\ results[at + 1] = "transcript"
  BY DEF TakeTranscript, Taking, session, FlowInv, DeliveryTypeOK, SendInv, Results
<1>1. /\ Proper(out, chunk) /\ Open(out) /\ \A k \in 1..chunk : HasOutcome(out, k)
  BY <1>0 DEF FlowInv, OutInv, Sending
<1>2. chunk + 1 = Cardinality(Spoken(results, at + 1)) /\ chunk + 1 \in Chunks
  <2>1. /\ Cardinality(Spoken(results, at + 1)) = chunk + 1
    <3>1. at \in Nat /\ chunk = Cardinality(Spoken(results, at))
      BY <1>0 DEF FlowInv, LiveInv
    <3> QED
      BY <1>0, <3>1, SpokenNext
  <2>2. Cardinality(Spoken(results, at + 1)) <= Transcripts(results)
    BY <1>0, SpokenMonotone, TranscriptsSpoken
  <2>3. Transcripts(results) <= MaxChunks /\ Transcripts(results) \in Nat
    BY <1>0, TranscriptsSpoken DEF FlowInv, LiveInv
  <2> QED
    BY <1>0, <2>1, <2>2, <2>3 DEF Chunks
<1>3. LiveInv' /\ ClipInv'
  <2>1. \A i \in 1..(at + 1) : i \in 1..at \/ i = at + 1
    BY <1>0
  <2>2. pc' \in {"take", "send"}
    BY <1>0 DEF TakeTranscript, Begin
  <2>3. \A i \in 1..(at + 1) : results[i] # "completed"
    BY <1>0, <2>1 DEF FlowInv, LiveInv
  <2> QED
    BY <1>0, <1>2, <2>2, <2>3 DEF FlowInv, LiveInv, ClipInv
<1>4. PICK t \in {"match_results", "matching_error"} :
        /\ out' = out \o <<Event("transcript", chunk + 1), Event(t, chunk + 1)>>
        /\ IF t = "match_results" THEN attempt' = 1 /\ address' = 1 /\ pc' = "send"
                                  ELSE UNCHANGED <<pc, attempt, address>>
  BY <1>0 DEF TakeTranscript, Begin
<1>5. /\ Proper(out', chunk + 1) /\ Open(out')
      /\ \A k : HasOutcome(out', k) <=> HasOutcome(out, k) \/ (k = chunk + 1 /\ t = "matching_error")
      /\ \A k : Says(out', Event("forwarded", k)) <=> Says(out, Event("forwarded", k))
      /\ ~HasOutcome(out, chunk + 1)
  <2> DEFINE c == chunk + 1
             p == Append(out, Event("transcript", c))
  <2>1. /\ "transcript" \in OutTypes /\ t \in OutTypes /\ "transcript" \notin Outcome
        /\ t \in Outcome <=> t = "matching_error"
        /\ t # "completed" /\ c \in 0 .. MaxChunks
        /\ Event("transcript", c) \in OutEvents /\ Event(t, c) \in OutEvents
        /\ \A k : Event("forwarded", k) # Event("transcript", c) /\ Event("forwarded", k) # Event(t, c)
    BY <1>0, <1>2 DEF OutTypes, Outcome, OutEvents, Event, Chunks
  <2>2. /\ out \in Seq(OutEvents) /\ \A i \in 1..Len(out) : out[i].chunk <= chunk /\ out[i].chunk \in Int
    <3>1. out \in Seq(OutEvents) /\ Upto(out, chunk)
      BY <1>1 DEF Proper
    <3>2. \A i \in 1..Len(out) : out[i] \in OutEvents
      BY <3>1
    <3> QED
      BY <3>1, <3>2 DEF Upto, OutEvents
  <2>3. ~HasOutcome(out, c) /\ Proper(out, c)
    <3>1. ~HasOutcome(out, c)
      BY <1>0, <2>2 DEF HasOutcome
    <3>2. Upto(out, c)
      BY <1>0, <2>2 DEF Upto
    <3> QED
      BY <1>1, <3>1, <3>2 DEF Proper
  <2>4. out' = Append(p, Event(t, c)) /\ p \in Seq(OutEvents)
    BY <1>4, <2>1, <2>2, TwoEvents
  <2> HIDE DEF c
  <2>5. /\ Proper(p, c) /\ Open(p) /\ \A k : HasOutcome(p, k) <=> HasOutcome(out, k)
        /\ \A k : Says(p, Event("forwarded", k)) <=> Says(out, Event("forwarded", k))
    BY <1>1, <2>1, <2>3, OutputGrows
  <2> HIDE DEF p
  <2>6. /\ Proper(out', c) /\ Open(out')
        /\ \A k : HasOutcome(out', k) <=> HasOutcome(p, k) \/ (k = c /\ t \in Outcome)
        /\ \A k : Says(out', Event("forwarded", k)) <=> Says(p, Event("forwarded", k))
    BY <2>1, <2>3, <2>4, <2>5, OutputGrows
  <2> QED
    BY <2>1, <2>3, <2>5, <2>6 DEF c
<1>6. DeliveryTypeOK'
  <2>1. pc' \in {"take", "send"} /\ attempt' \in 0 .. MaxAttempts /\ address' \in 0 .. Addresses
    BY <1>0, <1>4 DEF FlowInv, DeliveryTypeOK
  <2>2. out' \in Seq(OutEvents)
    BY <1>5 DEF Proper
  <2>3. chunk' \in 0 .. MaxChunks /\ at' \in 0 .. Len(results')
    BY <1>0, <1>2 DEF Chunks
  <2> QED
    BY <1>0, <2>1, <2>2, <2>3 DEF FlowInv, DeliveryTypeOK, OutEvents, OutTypes
<1>7. SendInv'
  <2>1. \A copy \in flying : copy[1] <= chunk + 1
    <3>1. \A copy \in flying : copy[1] <= chunk /\ copy[1] \in Int
      BY DEF FlowInv, DeliveryTypeOK, SendInv, Chunks
    <3> QED
      BY <1>0, <3>1
  <2>2. \A i \in 1..Len(received) : received[i] <= chunk + 1
    <3>1. \A i \in 1..Len(received) : received[i] <= chunk /\ received[i] \in Int
      BY DEF FlowInv, DeliveryTypeOK, SendInv, Chunks
    <3> QED
      BY <1>0, <3>1
  <2> QED
    BY <1>0, <1>2, <1>4, <2>1, <2>2 DEF SendInv, Sending
<1>8. OutInv'
  <2>1. /\ pc' # "done" /\ (Sending' <=> t = "match_results")
    BY <1>0, <1>4 DEF Sending
  <2>2. \A k \in 1..(chunk + 1) : k \in 1..chunk \/ k = chunk + 1
    BY <1>0
  <2> QED
    BY <1>0, <1>1, <1>5, <2>1, <2>2 DEF OutInv
<1>9. ArrivalInv'
  BY <1>0, <1>5 DEF FlowInv, ArrivalInv, ArrivedFirst
<1> QED
  BY <1>3, <1>6, <1>7, <1>8, <1>9 DEF FlowInv

(* What is put out for a clip, all at once.                                 *)
LEMMA ClipOutput ==
  ASSUME MaxChunks \in Nat \ {0}, NEW w, NEW t \in {"forwarded", "forwarding_error"},
         \/ w = <<Event("workflow_error", 1), Event("completed", 1)>>
         \/ w = <<Event("transcript", 1), Event("match_results", 1), Event("completed", 1)>>
         \/ w = <<Event("transcript", 1), Event("match_results", 1), Event(t, 1), Event("completed", 1)>>
  PROVE  /\ Proper(w, 1) /\ Len(w) > 0 /\ w[Len(w)] = Event("completed", 1)
         /\ \A i \in 1..(Len(w) - 1) : w[i].type # "completed"
         /\ \A k : Says(w, Event("forwarded", k)) =>
              k = 1 /\ t = "forwarded" /\ Len(w) = 4
<1>1. \A u \in OutTypes : Event(u, 1) \in OutEvents /\ Event(u, 1).type = u /\ Event(u, 1).chunk = 1
  BY DEF OutEvents, Event
<1>2. /\ "workflow_error" \in OutTypes /\ "completed" \in OutTypes /\ "transcript" \in OutTypes
      /\ "match_results" \in OutTypes /\ t \in OutTypes /\ t # "completed"
      /\ {"workflow_error", "completed", "transcript", "match_results"} \intersect Outcome = {}
      /\ \A k, u : Event("forwarded", k) = Event(u, 1) => u = "forwarded" /\ k = 1
  BY DEF OutTypes, Outcome, Event
<1>3. /\ w \in Seq(OutEvents) /\ Len(w) \in 2..4
      /\ \A i \in 1..Len(w) : w[i].chunk = 1
      /\ w[Len(w)] = Event("completed", 1)
      /\ \A i \in 1..(Len(w) - 1) : w[i].type # "completed"
      /\ \A i \in 1..Len(w) : w[i].type \in Outcome => i = 3
      /\ \A i \in 1..Len(w) : \A k : w[i] = Event("forwarded", k) => k = 1 /\ t = "forwarded" /\ Len(w) = 4
  <2>1. CASE w = <<Event("workflow_error", 1), Event("completed", 1)>>
    <3>1. w \in Seq(OutEvents) /\ Len(w) = 2 /\ w[1] = Event("workflow_error", 1) /\ w[2] = Event("completed", 1)
      BY <1>1, <1>2, <2>1
    <3> QED
      BY <1>1, <1>2, <3>1
  <2>2. CASE w = <<Event("transcript", 1), Event("match_results", 1), Event("completed", 1)>>
    <3>1. /\ w \in Seq(OutEvents) /\ Len(w) = 3 /\ w[1] = Event("transcript", 1)
          /\ w[2] = Event("match_results", 1) /\ w[3] = Event("completed", 1)
      BY <1>1, <1>2, <2>2
    <3> QED
      BY <1>1, <1>2, <3>1
  <2>3. CASE w = <<Event("transcript", 1), Event("match_results", 1), Event(t, 1), Event("completed", 1)>>
    <3>1. /\ w \in Seq(OutEvents) /\ Len(w) = 4 /\ w[1] = Event("transcript", 1)
          /\ w[2] = Event("match_results", 1) /\ w[3] = Event(t, 1) /\ w[4] = Event("completed", 1)
      BY <1>1, <1>2, <2>3
    <3> QED
      BY <1>1, <1>2, <3>1
  <2> QED
    BY <2>1, <2>2, <2>3
<1>4. Ordered(w) /\ Upto(w, 1) /\ OnceEach(w)
  BY <1>3 DEF Ordered, Upto, OnceEach
<1> QED
  BY <1>3, <1>4 DEF Proper, Says

(* What holds of a clip that is over.                                       *)
LEMMA FlowOfClip ==
  ASSUME ForwardingAssumption, FlowInv, kind = "clip", NEW t \in {"forwarded", "forwarding_error"},
         \/ out' = <<Event("workflow_error", 1), Event("completed", 1)>>
         \/ out' = <<Event("transcript", 1), Event("match_results", 1), Event("completed", 1)>>
         \/ /\ out' = <<Event("transcript", 1), Event("match_results", 1), Event(t, 1), Event("completed", 1)>>
            /\ t = "forwarded" /\ via # "mqtt0" => HasReceived(1),
         UNCHANGED <<kind, via, session, flying, received>>,
         pc' = "done", reply' = "none", chunk' = 1, chunk <= 1, at' = 2,
         attempt' \in 0 .. MaxAttempts, address' \in 0 .. Addresses
  PROVE  FlowInv'
<1> USE DEF ForwardingAssumption
<1>1. /\ Proper(out', 1) /\ Len(out') > 0 /\ out'[Len(out')] = Event("completed", 1)
      /\ \A i \in 1..(Len(out') - 1) : out'[i].type # "completed"
      /\ \A k : Says(out', Event("forwarded", k)) => k = 1 /\ t = "forwarded" /\ Len(out') = 4
  BY ClipOutput
<1>2. /\ results = <<"transcript", "completed">> /\ stop = "idle" /\ Len(results) = 2
      /\ results' = results /\ stop' = stop
  BY DEF FlowInv, ClipInv, session
<1>3. /\ received \in Seq(Chunks) /\ \A i \in 1..Len(received) : received[i] <= 1 /\ received[i] \in Int
      /\ \A copy \in flying : copy[1] <= 1
  <2>1. \A i \in 1..Len(received) : received[i] <= chunk /\ received[i] \in Int
    BY DEF FlowInv, DeliveryTypeOK, SendInv, Chunks
  <2>2. \A copy \in flying : copy[1] <= chunk /\ copy[1] \in Int
    BY DEF FlowInv, DeliveryTypeOK, SendInv, Chunks
  <2>3. received \in Seq(Chunks) /\ Len(received) \in Nat /\ chunk \in Int
    BY DEF FlowInv, DeliveryTypeOK
  <2>4. \A i \in 1..Len(received) : received[i] <= 1 /\ received[i] \in Int
    BY <2>1, <2>3
  <2>5. \A copy \in flying : copy[1] <= 1
    BY <2>2, <2>3
  <2> QED
    BY <2>3, <2>4, <2>5
<1>4. DeliveryTypeOK'
  BY <1>1, <1>2 DEF FlowInv, DeliveryTypeOK, Proper, OutEvents, OutTypes
<1>5. LiveInv' /\ ClipInv' /\ SendInv'
  BY <1>2, <1>3 DEF LiveInv, ClipInv, SendInv, Sending
<1>6. OutInv'
  BY <1>1 DEF OutInv, Sending
<1>7. ArrivalInv'
  <2> SUFFICES ASSUME via # "mqtt0", NEW k \in Chunks, Says(out', Event("forwarded", k))
               PROVE  ArrivedFirst(k)'
    BY DEF ArrivalInv
  <2>1. k = 1 /\ t = "forwarded" /\ Len(out') = 4
    BY <1>1
  <2>2. /\ Len(<<Event("workflow_error", 1), Event("completed", 1)>>) = 2
        /\ Len(<<Event("transcript", 1), Event("match_results", 1), Event("completed", 1)>>) = 3
    OBVIOUS
  <2>3. HasReceived(1)
    BY <2>1, <2>2
  <2>4. PICK i \in 1..Len(received) : received[i] = 1
    BY <2>3 DEF HasReceived
  <2>5. 1..i \subseteq 1..Len(received)
    BY <1>3
  <2> QED
    BY <1>3, <2>1, <2>4, <2>5 DEF ArrivedFirst
<1> QED
  BY <1>4, <1>5, <1>6, <1>7 DEF FlowInv

(* A clip is sent, or is over at once.                                      *)
LEMMA FlowOfTakeClip ==
  ASSUME ForwardingAssumption, FlowInv, TakeClip
  PROVE  FlowInv'
<1> USE DEF ForwardingAssumption
<1>0. /\ kind = "clip" /\ pc = "take" /\ at = 0 /\ chunk = 0 /\ chunk' = 1 /\ reply = "none" /\ out = <<>>
      /\ results = <<"transcript", "completed">> /\ stop = "idle" /\ Len(results) = 2 /\ at' = 2
      /\ UNCHANGED <<kind, via, results, stop, session, reply, flying, received>>
  BY DEF FlowInv, ClipInv, SendInv, TakeClip, Taking, session
<1>1. CASE pc' = "done"
  <2>1. \/ out' = <<Event("workflow_error", 1), Event("completed", 1)>>
        \/ out' = <<Event("transcript", 1), Event("match_results", 1), Event("completed", 1)>>
    BY <1>1 DEF TakeClip, Begin
  <2>2. attempt' \in 0 .. MaxAttempts /\ address' \in 0 .. Addresses
    BY <1>1 DEF TakeClip, Begin, FlowInv, DeliveryTypeOK
  <2> QED
    BY <1>0, <1>1, <2>1, <2>2, FlowOfClip
<1>2. CASE pc' # "done"
  <2>1. pc' = "send" /\ attempt' = 1 /\ address' = 1 /\ out' = out
    BY <1>2 DEF TakeClip, Begin
  <2>2. DeliveryTypeOK'
    BY <1>0, <2>1 DEF FlowInv, DeliveryTypeOK
  <2>3. LiveInv' /\ ClipInv'
    BY <1>0, <2>1 DEF LiveInv, ClipInv
  <2>4. SendInv'
    <3>1. \A i \in 1..Len(received) : received[i] <= 0 /\ received[i] \in Int
      BY <1>0 DEF FlowInv, DeliveryTypeOK, SendInv, Chunks
    <3>2. \A copy \in flying : copy[1] <= 0 /\ copy[1] \in Int
      BY <1>0 DEF FlowInv, DeliveryTypeOK, SendInv, Chunks
    <3> QED
      BY <1>0, <2>1, <3>1, <3>2 DEF SendInv, Sending, Chunks
  <2>5. OutInv' /\ ArrivalInv'
    <3>1. out' = <<>> /\ out' \in Seq(OutEvents) /\ Len(out') = 0 /\ 1..Len(out') = {}
      BY <1>0, <2>1
    <3>2. /\ Proper(out', 1) /\ Open(out') /\ ~HasOutcome(out', 1)
          /\ \A k : ~Says(out', Event("forwarded", k))
      BY <3>1 DEF Proper, Ordered, Upto, OnceEach, Open, HasOutcome, Says
    <3> QED
      BY <1>0, <2>1, <3>2 DEF OutInv, ArrivalInv, Sending
  <2> QED
    BY <2>2, <2>3, <2>4, <2>5 DEF FlowInv
<1> QED
  BY <1>1, <1>2

(* The record's outcome is put out, after which a live session goes on.     *)
LEMMA FlowOfAnswer ==
  ASSUME ForwardingAssumption, FlowInv, Sending,
         NEW t \in {"forwarded", "forwarding_error"}, Answered(t),
         t = "forwarded" /\ via # "mqtt0" => HasReceived(chunk),
         address' = 1, UNCHANGED <<kind, via, session, at, chunk, attempt, flying, received>>
  PROVE  FlowInv'
<1> USE DEF ForwardingAssumption
<1>0. /\ chunk \in Chunks /\ chunk \in 1 .. MaxChunks /\ attempt \in 1..MaxAttempts
      /\ pc \in {"send", "wait"} /\ reply' = "none"
      /\ UNCHANGED <<results, stop>>
  BY DEF FlowInv, SendInv, Sending, Chunks, Answered, session
<1>1. CASE kind = "clip"
  <2>1. chunk = 1 /\ at = 2 /\ pc' = "done"
    BY <1>0, <1>1 DEF FlowInv, ClipInv, Answered
  <2>2. out' = <<Event("transcript", 1), Event("match_results", 1), Event(t, 1), Event("completed", 1)>>
    BY <1>1 DEF Answered
  <2>3. address' \in 0 .. Addresses /\ attempt' \in 0 .. MaxAttempts
    BY <1>0
  <2> QED
    BY <1>0, <1>1, <2>1, <2>2, <2>3, FlowOfClip
<1>2. CASE kind = "live"
  <2>0. out' = Append(out, Event(t, chunk)) /\ pc' = "take"
    BY <1>2 DEF Answered
  <2>1. /\ Proper(out, chunk) /\ Open(out) /\ ~HasOutcome(out, chunk)
        /\ \A k \in 1..chunk : k < chunk => HasOutcome(out, k)
    BY <1>0, <1>2 DEF FlowInv, OutInv, Sending
  <2>2. /\ chunk \in 0 .. MaxChunks /\ t \in OutTypes /\ t # "completed" /\ t \in Outcome
        /\ \A k : Event("forwarded", k) = Event(t, chunk) => t = "forwarded" /\ k = chunk
    BY <1>0 DEF OutTypes, Outcome, Event
  <2>3. /\ Proper(out', chunk) /\ Open(out')
        /\ \A k : HasOutcome(out', k) <=> HasOutcome(out, k) \/ k = chunk
        /\ \A k : Says(out', Event("forwarded", k)) =>
             Says(out, Event("forwarded", k)) \/ (t = "forwarded" /\ k = chunk)
    <3>1. /\ Proper(out', chunk) /\ Open(out')
          /\ \A k : HasOutcome(out', k) <=> HasOutcome(out, k) \/ (k = chunk /\ t \in Outcome)
          /\ \A e : Says(out', e) <=> Says(out, e) \/ e = Event(t, chunk)
      BY <2>0, <2>1, <2>2, OutputGrows
    <3> QED
      BY <2>2, <3>1
  <2>4. DeliveryTypeOK'
    BY <1>0, <2>0, <2>3 DEF FlowInv, DeliveryTypeOK, Proper, OutEvents, OutTypes
  <2>5. LiveInv' /\ ClipInv' /\ SendInv'
    BY <1>0, <1>2, <2>0 DEF FlowInv, LiveInv, ClipInv, SendInv, Sending, HasReceived
  <2>6. OutInv'
    <3>1. \A k \in 1..chunk : k < chunk \/ k = chunk
      BY <1>0
    <3> QED
      BY <1>0, <2>0, <2>1, <2>3, <3>1 DEF OutInv, Sending
  <2>7. ArrivalInv'
    <3> SUFFICES ASSUME via # "mqtt0", NEW k \in Chunks, Says(out', Event("forwarded", k))
                 PROVE  ArrivedFirst(k)'
      BY DEF ArrivalInv
    <3>1. CASE Says(out, Event("forwarded", k))
      BY <1>0, <3>1 DEF FlowInv, ArrivalInv, ArrivedFirst
    <3>2. CASE t = "forwarded" /\ k = chunk
      <4>1. PICK i \in 1..Len(received) : received[i] = chunk
        BY <3>2 DEF HasReceived
      <4>2. 1..i \subseteq 1..Len(received) /\ \A j \in 1..Len(received) : received[j] <= chunk
        <5>1. received \in Seq(Chunks)
          BY DEF FlowInv, DeliveryTypeOK
        <5> QED
          BY <5>1 DEF FlowInv, SendInv
      <4> QED
        BY <3>2, <4>1, <4>2 DEF ArrivedFirst
    <3> QED
      BY <2>3, <3>1, <3>2
  <2> QED
    BY <2>4, <2>5, <2>6, <2>7 DEF FlowInv
<1> QED
  BY <1>1, <1>2 DEF FlowInv, DeliveryTypeOK

(* An attempt ends: the record has its outcome or is tried again.           *)
LEMMA FlowOfConcludes ==
  ASSUME ForwardingAssumption, FlowInv, Sending, NEW result, Concludes(result),
         result = "ok" /\ via # "mqtt0" => HasReceived(chunk)
  PROVE  FlowInv'
<1> USE DEF ForwardingAssumption
<1>0. address' = 1 /\ UNCHANGED <<kind, via, session, at, chunk, flying, received>>
  BY DEF Concludes
<1>1. CASE Delivered(result)
  BY <1>0, <1>1, FlowOfAnswer DEF Concludes, Delivered
<1>2. CASE ~Delivered(result) /\ ~MayRetry(result)
  BY <1>0, <1>2, FlowOfAnswer DEF Concludes, GivesUp
<1>3. CASE ~Delivered(result) /\ MayRetry(result)
  <2>1. pc' = "send" /\ attempt' = attempt + 1 /\ reply' = "none" /\ out' = out /\ attempt < MaxAttempts
    BY <1>3 DEF Concludes, MayRetry, NextAttempt
  <2>2. /\ pc \in {"send", "wait"} /\ chunk \in Chunks /\ attempt \in 1..MaxAttempts
        /\ UNCHANGED <<results, stop>>
    BY <1>0 DEF FlowInv, SendInv, Sending, session
  <2>3. DeliveryTypeOK'
    BY <1>0, <2>1, <2>2 DEF FlowInv, DeliveryTypeOK
  <2>4. LiveInv' /\ ClipInv'
    BY <1>0, <2>1, <2>2 DEF FlowInv, LiveInv, ClipInv
  <2>5. SendInv'
    BY <1>0, <2>1, <2>2 DEF FlowInv, SendInv, Sending, HasReceived
  <2>6. OutInv' /\ ArrivalInv'
    BY <1>0, <2>1, <2>2 DEF FlowInv, OutInv, ArrivalInv, ArrivedFirst, Sending
  <2> QED
    BY <2>3, <2>4, <2>5, <2>6 DEF FlowInv
<1> QED
  BY <1>1, <1>2, <1>3

(* A request leaves, or goes to the next address.                           *)
LEMMA FlowOfSending ==
  ASSUME ForwardingAssumption, FlowInv, Send \/ OtherAddress
  PROVE  FlowInv'
<1> USE DEF ForwardingAssumption
<1>0. /\ UNCHANGED <<kind, via, results, stop, at, chunk, attempt, received, out>>
      /\ pc \in {"send", "wait"} /\ pc' \in {"send", "wait"} /\ reply = "none"
      /\ chunk \in Chunks /\ chunk \in 0 .. MaxChunks
      /\ attempt \in 1..MaxAttempts /\ address \in 1..Addresses /\ address' \in 1..Addresses
  <2>1. CASE Send
    BY <2>1 DEF Send, FlowInv, SendInv, Sending, session, Chunks
  <2>2. CASE OtherAddress
    BY <2>2 DEF OtherAddress, NextAddress, FlowInv, SendInv, Sending, session, Chunks
  <2> QED
    BY <2>1, <2>2
<1>1. /\ flying' \subseteq Chunks \X (1 .. MaxAttempts) \X (1 .. Addresses)
      /\ \A copy \in flying' : copy[1] <= chunk
      /\ reply' \in {"none", "ok"}
      /\ pc' # "wait" => reply' = "none"
      /\ reply' = "ok" => via = "mqtt0"
  <2>0. /\ flying \subseteq Chunks \X (1 .. MaxAttempts) \X (1 .. Addresses)
        /\ \A copy \in flying : copy[1] <= chunk
    BY DEF FlowInv, DeliveryTypeOK, SendInv
  <2>1. CASE Send
    <3>1. flying' = flying \union {<<chunk, attempt, address>>} /\ pc' = "wait"
      BY <2>1 DEF Send, Copy
    <3>2. /\ <<chunk, attempt, address>> \in Chunks \X (1 .. MaxAttempts) \X (1 .. Addresses)
          /\ <<chunk, attempt, address>>[1] <= chunk
      BY <1>0 DEF Chunks
    <3>3. reply' = IF via = "mqtt0" THEN "ok" ELSE "none"
      BY <2>1 DEF Send
    <3> QED
      BY <2>0, <3>1, <3>2, <3>3
  <2>2. CASE OtherAddress
    BY <1>0, <2>0, <2>2 DEF OtherAddress
  <2> QED
    BY <2>1, <2>2
<1>2. DeliveryTypeOK'
  BY <1>0, <1>1 DEF FlowInv, DeliveryTypeOK
<1>3. LiveInv' /\ ClipInv' /\ SendInv'
  BY <1>0, <1>1 DEF FlowInv, LiveInv, ClipInv, SendInv, Sending
<1>4. OutInv' /\ ArrivalInv'
  BY <1>0 DEF FlowInv, OutInv, ArrivalInv, ArrivedFirst, Sending
<1> QED
  BY <1>2, <1>3, <1>4 DEF FlowInv

(* So it is with every step.                                                *)
LEMMA FlowStep ==
  ASSUME ForwardingAssumption, FlowInv, [DeliveryNext]_deliveryVars
  PROVE  FlowInv'
<1>1. CASE SessionEmits \/ SessionEnds \/ StopCall \/ StopSession \/ StopWaited
  BY <1>1, FlowOfSession
<1>2. CASE TakeTranscript
  BY <1>2, FlowOfTranscript
<1>3. CASE TakeClip
  BY <1>3, FlowOfTakeClip
<1>4. CASE TakeError \/ TakeCompleted \/ Finish
  BY <1>4, FlowOfEnds
<1>5. CASE Send \/ OtherAddress
  BY <1>5, FlowOfSending
<1>6. CASE Refused
  BY <1>6, FlowOfConcludes DEF Refused, Sending
<1>7. CASE Replied
  <2>1. Sending /\ Concludes(reply) /\ (reply = "ok" /\ via # "mqtt0" => HasReceived(chunk))
    BY <1>7 DEF Replied, Sending, FlowInv, SendInv
  <2> QED
    BY <2>1, FlowOfConcludes
<1>8. CASE TimesOut
  BY <1>8, FlowOfConcludes DEF TimesOut, Sending
<1>9. CASE \E copy \in flying : Accept(copy) \/ Reject(copy)
  BY <1>9, FlowOfReceiver
<1>10. CASE UNCHANGED deliveryVars
  <2>1. UNCHANGED <<kind, via, results, stop, at, pc, chunk, attempt, address, reply, flying, received, out>>
    BY <1>10 DEF deliveryVars, session, sender
  <2> QED
    BY <2>1 DEF FlowInv, DeliveryTypeOK, LiveInv, ClipInv, SendInv, OutInv, ArrivalInv, ArrivedFirst,
                Sending, HasReceived
<1> QED
  BY <1>1, <1>2, <1>3, <1>4, <1>5, <1>6, <1>7, <1>8, <1>9, <1>10 DEF DeliveryNext, ConsumerStep

(* The invariant holds from the start.                                      *)
LEMMA FlowAlways == ASSUME ForwardingAssumption PROVE DeliverySpec => []FlowInv
<1>1. DeliveryInit => FlowInv
  BY FlowStart
<1>2. FlowInv /\ [DeliveryNext]_deliveryVars => FlowInv'
  BY FlowStep
<1> QED
  BY <1>1, <1>2, PTL DEF DeliverySpec

(* The queues, the attempts and the requests on the network stay in their   *)
(* bounds.                                                                  *)
THEOREM DeliveryTypes == ASSUME ForwardingAssumption PROVE DeliverySpec => []DeliveryTypeOK
<1>1. FlowInv => DeliveryTypeOK
  BY DEF FlowInv
<1> QED
  BY <1>1, FlowAlways, PTL

(* What is reported as forwarded has been received, before any later        *)
(* transcript was, whatever the network loses, doubles or delays.           *)
THEOREM DeliveredInOrderAlways == ASSUME ForwardingAssumption PROVE DeliverySpec => []DeliveredInOrder
<1>1. FlowInv => DeliveredInOrder
  <2> SUFFICES ASSUME FlowInv, via # "mqtt0", NEW k \in Chunks, Forwarded(k)
               PROVE  \E i \in DOMAIN received : received[i] = k /\ \A j \in 1 .. i : received[j] <= k
    BY DEF DeliveredInOrder
  <2>1. DOMAIN out = 1..Len(out) /\ DOMAIN received = 1..Len(received)
    BY DEF FlowInv, DeliveryTypeOK
  <2>2. ArrivedFirst(k)
    BY <2>1 DEF FlowInv, ArrivalInv, Says, Forwarded
  <2> QED
    BY <2>1, <2>2 DEF ArrivedFirst
<1> QED
  BY <1>1, FlowAlways, PTL

(* The first end of the results is where the consumer stopped, so what was  *)
(* put before it is what the consumer has counted.                          *)
LEMMA ToldIsTaken ==
  ASSUME FlowInv, kind = "live", pc = "done"
  PROVE  Told = chunk
<1>1. /\ results \in Seq(Results) /\ Len(results) \in Nat /\ at \in 1..Len(results)
      /\ results[at] = "completed" /\ \A i \in 1..(at - 1) : results[i] # "completed"
      /\ chunk = Cardinality(Spoken(results, at)) /\ DOMAIN results = 1..Len(results)
  BY DEF FlowInv, DeliveryTypeOK, LiveInv, Results
<1>2. Ended(results)
  BY <1>1 DEF Ended
<1>3. \A n \in 0..Len(results) : /\ Before(n) \in Seq(Results) /\ Len(Before(n)) = n
                                 /\ DOMAIN Before(n) = 1..n
                                 /\ \A i \in 1..n : Before(n)[i] = results[i]
  BY <1>1 DEF Before
<1>4. \A i \in DOMAIN results :
        results[i] = "completed" /\ ~Ended(Before(i - 1)) <=> i = at
  <2> SUFFICES ASSUME NEW i \in 1..Len(results)
               PROVE  results[i] = "completed" /\ ~Ended(Before(i - 1)) <=> i = at
    BY <1>1
  <2>1. i - 1 \in 0..Len(results) /\ 1..(i - 1) \subseteq 1..Len(results)
    BY <1>1
  <2>2. Ended(Before(i - 1)) <=> \E j \in 1..(i - 1) : results[j] = "completed"
    BY <1>3, <2>1 DEF Ended
  <2>0. i \in Int /\ at \in Int
    BY <1>1
  <2>3. CASE i < at
    <3>1. i \in 1..(at - 1)
      BY <2>0, <2>3
    <3> QED
      BY <1>1, <2>3, <3>1
  <2>4. CASE i > at
    <3>1. at \in 1..(i - 1)
      BY <1>1, <2>4
    <3> QED
      BY <1>1, <2>2, <2>4, <3>1
  <2>5. CASE i = at
    BY <1>1, <2>2, <2>5
  <2> QED
    BY <2>0, <2>3, <2>4, <2>5
<1>5. (CHOOSE i \in DOMAIN results : results[i] = "completed" /\ ~Ended(Before(i - 1))) = at
  BY <1>1, <1>4
<1>6. Told = Transcripts(Before(at))
  BY <1>2, <1>5 DEF Told
<1>7. Spoken(Before(at), at) = Spoken(results, at)
  BY <1>1, <1>3 DEF Spoken
<1> QED
  BY <1>1, <1>3, <1>6, <1>7, TranscriptsSpoken

(* Every transcript of a live session that is over has one outcome, in      *)
(* order, and the completed event ends the output, although stop() may have *)
(* given up waiting or have ended the session meanwhile.                    *)
THEOREM EveryChunkAnsweredAlways == ASSUME ForwardingAssumption PROVE DeliverySpec => []EveryChunkAnswered
<1>1. FlowInv => EveryChunkAnswered
  <2> SUFFICES ASSUME FlowInv PROVE EveryChunkAnswered
    OBVIOUS
  <2>0. /\ DOMAIN out = 1..Len(out) /\ Len(out) \in Nat /\ Ordered(out) /\ OnceEach(out)
        /\ chunk \in Nat
    BY DEF FlowInv, DeliveryTypeOK, OutInv, Proper
  <2>1. ASSUME NEW i \in DOMAIN out, NEW j \in DOMAIN out, i < j
        PROVE  out[i].chunk <= out[j].chunk /\ out[i].type # "completed"
    <3>1. out[i].chunk <= out[j].chunk
      BY <2>0, <2>1 DEF Ordered
    <3>2. i \in 1..(Len(out) - 1)
      BY <2>0, <2>1
    <3> QED
      BY <2>0, <3>1, <3>2 DEF FlowInv, OutInv, Open
  <2>2. ASSUME NEW k \in Chunks PROVE Cardinality(Outcomes(k)) <= 1
    <3>1. \A i, j \in Outcomes(k) : i = j
      BY <2>0 DEF Outcomes, OnceEach, Outcome
    <3>2. CASE Outcomes(k) = {}
      BY <3>2, FS_EmptySet
    <3>3. CASE Outcomes(k) # {}
      <4>1. PICK i \in Outcomes(k) : TRUE
        BY <3>3
      <4>2. Outcomes(k) = {i}
        BY <3>1, <4>1
      <4> QED
        BY <4>2, FS_Singleton
    <3> QED
      BY <3>2, <3>3
  <2>3. ASSUME kind = "live", pc = "done"
        PROVE  out[Len(out)].type = "completed" /\ \A k \in 1 .. Told : Outcomes(k) # {}
    <3>1. out[Len(out)] = Event("completed", chunk)
      BY <2>3 DEF FlowInv, OutInv
    <3>2. \A k \in 1..chunk : HasOutcome(out, k)
      BY <2>3 DEF FlowInv, OutInv, Sending
    <3>3. \A k : HasOutcome(out, k) => Outcomes(k) # {}
      BY <2>0 DEF HasOutcome, Outcomes, Outcome
    <3> QED
      BY <2>3, <3>1, <3>2, <3>3, ToldIsTaken DEF Event
  <2> QED
    BY <2>1, <2>2, <2>3 DEF EveryChunkAnswered
<1> QED
  BY <1>1, FlowAlways, PTL

=============================================================================
