--------------------------- MODULE SessionPipeline ---------------------------
(***************************************************************************)
(* The sessions that share one ModelHandle: audio callbacks, the ingress   *)
(* dispatcher, the inference worker, the threads that stop a session and   *)
(* the threads that end one after a fatal error.                           *)
(*                                                                         *)
(* Steps are what runs under a session's lock.  Two locks are held while   *)
(* something else is waited for: a callback keeps its session's lock until *)
(* all its chunks are enqueued, and a stopping session keeps the handle's  *)
(* ingress lock until the queue takes its chunk.                           *)
(***************************************************************************)
EXTENDS Integers, Sequences, FiniteSets, Functions

CONSTANTS
  Sessions,      \* the sessions, all of them started
  Drop,          \* those with overload_policy "drop"; the others have "fail"
  IngressCap,    \* maxsize of _ingress_queue
  WorkCap,       \* maxsize of _work_queue: queue_capacity
  MaxSequence,   \* bound: the last chunk each session numbers
  Stopped,       \* bound: the sessions stop is called for
  Faulty,        \* bound: the sessions whose capture, preprocessing or detector may fail
  Timed,         \* do stop calls carry a timeout?
  None           \* no session

ASSUME SessionPipelineAssumption ==
  /\ Drop \subseteq Sessions /\ Stopped \subseteq Sessions /\ Faulty \subseteq Sessions
  /\ None \notin Sessions
  /\ IngressCap \in Nat \ {0} /\ WorkCap \in Nat \ {0}
  /\ MaxSequence \in [Sessions -> Nat] /\ Timed \in BOOLEAN

VARIABLES
  active,       \* _active
  stopping,     \* _stopping
  fatal,        \* _fatal_error
  pending,      \* _pending
  captureDone,  \* _capture_done
  lastSequence, \* _last_sequence
  answers,      \* sequence numbers the inference worker has answered, in order
  refused,      \* sequence numbers no queue accepted
  completions,  \* the status of the completed events; _terminal once there is one
  source,       \* the capture source
  callback,     \* chunks the running callback has still to enqueue; 0: no callback
  ingress,      \* _ingress_queue: chunks <<session, sequence>> and <<session, End>>
  work,         \* _work_queue
  ingressLock,  \* the stopping session that holds _ingress_lock, or None
  workMutex,    \* the session whose purge holds the work queue's mutex, or None
  ingressPc, ingressItem,   \* the ingress worker and the item in its hands
  modelPc, modelItem,       \* the model worker and the item in its hands
  stopPc,       \* the thread in session.stop
  tail,         \* chunks of _shutdown_chunks still to enqueue
  endEnqueued,  \* _shutdown_end_enqueued
  fatalDue,     \* a thread that will run _fatal has been spawned
  fatalPc       \* the thread in _fatal that got past its first test

stateVars == <<active, stopping, fatal, pending, captureDone, lastSequence>>
eventVars == <<answers, refused, completions>>
captureVars == <<source, callback>>
queueVars == <<ingress, work, ingressLock, workMutex>>
ingressVars == <<ingressPc, ingressItem>>
modelVars == <<modelPc, modelItem>>
stopVars == <<stopPc, tail, endEnqueued>>
fatalVars == <<fatalDue, fatalPc>>
vars == <<stateVars, eventVars, captureVars, queueVars, ingressVars, modelVars, stopVars, fatalVars>>

End == -1
Numbers == UNION {0..MaxSequence[s] : s \in Sessions}
Item == Sessions \X (Numbers \union {End})
NoItem == <<None, End>>
MaxBatch == 2   \* bound: chunks completed by one callback
MaxTail == 1    \* bound: chunks left for stop to flush

Init ==
  /\ active = [s \in Sessions |-> TRUE] /\ stopping = [s \in Sessions |-> FALSE]
  /\ fatal = [s \in Sessions |-> FALSE] /\ pending = [s \in Sessions |-> 0]
  /\ captureDone = [s \in Sessions |-> FALSE]
  /\ lastSequence = [s \in Sessions |-> -1]
  /\ answers = [s \in Sessions |-> <<>>] /\ refused = [s \in Sessions |-> {}]
  /\ completions = [s \in Sessions |-> <<>>]
  /\ source = [s \in Sessions |-> "open"] /\ callback = [s \in Sessions |-> 0]
  /\ ingress = <<>> /\ work = <<>> /\ ingressLock = None /\ workMutex = None
  /\ ingressPc = "idle" /\ ingressItem = NoItem
  /\ modelPc = "idle" /\ modelItem = NoItem
  /\ stopPc = [s \in Sessions |-> "idle"]
  /\ tail = [s \in Sessions |-> 0] /\ endEnqueued = [s \in Sessions |-> FALSE]
  /\ fatalDue = [s \in Sessions |-> FALSE] /\ fatalPc = [s \in Sessions |-> "none"]

Terminal(s) == completions[s] # <<>>

\* A callback holds its session's lock from its first chunk to its last.
LockFree(s) == callback[s] = 0

\* Mutant: the queue takes one item too many.
IngressRoom_OffByOne == Len(ingress) <= IngressCap

IngressRoom == Len(ingress) < IngressCap
WorkRoom == Len(work) < WorkCap

\* The one way to list a set of positions from first to last.
Listing(S) ==
  CHOOSE f \in [1..Cardinality(S) -> S] : \A i, j \in 1..Cardinality(S) : i < j => f[i] < f[j]

\* What is left of a queue, in its order, when the items of s are taken out.
Others(queue, s) ==
  LET kept == {i \in 1..Len(queue) : queue[i][1] # s}
  IN  [i \in 1..Cardinality(kept) |-> queue[Listing(kept)[i]]]
-----------------------------------------------------------------------------
(* Capture callbacks: _on_audio, _on_error.                                *)

CallbackUnchanged ==
  UNCHANGED <<active, stopping, fatal, pending, captureDone, answers, completions, source, work,
              ingressLock, workMutex, ingressVars, modelVars, stopVars, fatalPc>>

\* Chunks below the silence threshold leave no trace and are not counted.
CallbackBegin(s) ==
  /\ source[s] = "open" /\ callback[s] = 0
  /\ active[s] /\ ~stopping[s]
  /\ \E n \in 1..MaxBatch :
       /\ lastSequence[s] + n <= MaxSequence[s]
       /\ callback' = [callback EXCEPT ![s] = n]
  /\ UNCHANGED <<lastSequence, refused, ingress, fatalDue>>
  /\ CallbackUnchanged

\* Preprocessing the chunk failed: the callback gives up and spawns _fatal.
\* Bound: not again while that thread has not begun; it would spawn one more of them.
CallbackFails(s) ==
  /\ s \in Faulty /\ callback[s] > 0 /\ ~fatalDue[s]
  /\ callback' = [callback EXCEPT ![s] = 0]
  /\ fatalDue' = [fatalDue EXCEPT ![s] = TRUE]
  /\ UNCHANGED <<lastSequence, refused, ingress>>
  /\ CallbackUnchanged

NumberChunk(s) == lastSequence' = [lastSequence EXCEPT ![s] = @ + 1]

CallbackEnqueue(s) ==
  /\ callback[s] > 0 /\ ingressLock = None
  /\ NumberChunk(s)
  /\ IF IngressRoom
     THEN /\ ingress' = Append(ingress, <<s, lastSequence'[s]>>)
          /\ UNCHANGED refused
     ELSE /\ refused' = [refused EXCEPT ![s] = @ \union {lastSequence'[s]}]
          /\ UNCHANGED ingress
  /\ IF IngressRoom \/ s \in Drop
     THEN callback' = [callback EXCEPT ![s] = @ - 1] /\ UNCHANGED fatalDue
     ELSE /\ callback' = [callback EXCEPT ![s] = 0]
          /\ fatalDue' = [fatalDue EXCEPT ![s] = TRUE]
  /\ CallbackUnchanged

\* The source reports an error that is not an overflow.
CaptureError(s) ==
  /\ s \in Faulty /\ source[s] = "open" /\ ~fatalDue[s]
  /\ fatalDue' = [fatalDue EXCEPT ![s] = TRUE]
  /\ UNCHANGED <<callback, lastSequence, refused, ingress>>
  /\ CallbackUnchanged

\* source.stop: it ends when the running callback has, or fails.
SourceEnds(s) ==
  /\ source[s] = "stopping"
  /\ \/ callback[s] = 0 /\ source' = [source EXCEPT ![s] = "closed"]
     \/ s \in Faulty /\ source' = [source EXCEPT ![s] = "failed"]
  /\ UNCHANGED <<stateVars, eventVars, callback, queueVars, ingressVars, modelVars, stopVars, fatalVars>>

StopSource(s) == source' = [source EXCEPT ![s] = IF @ = "open" THEN "stopping" ELSE @]
-----------------------------------------------------------------------------
(* _fatal, in a thread of its own or called by a worker or by stop.        *)

\* The first to get here ends the session; then it stops the source.
FatalEntry(s) ==
  /\ active[s] /\ ~Terminal(s)
  /\ active' = [active EXCEPT ![s] = FALSE]
  /\ fatal' = [fatal EXCEPT ![s] = TRUE]
  /\ fatalPc' = [fatalPc EXCEPT ![s] = IF source[s] = "open" THEN "source" ELSE "stopped"]
  /\ StopSource(s)

FatalIgnored(s) == (~active[s] \/ Terminal(s)) /\ UNCHANGED <<active, fatal, fatalPc, source>>

FatalCalled(s) == LockFree(s) /\ (FatalEntry(s) \/ FatalIgnored(s))

FatalBegin(s) ==
  /\ fatalDue[s]
  /\ fatalDue' = [fatalDue EXCEPT ![s] = FALSE]
  /\ FatalCalled(s)
  /\ UNCHANGED <<stopping, pending, captureDone, lastSequence, eventVars, callback, queueVars,
                 ingressVars, modelVars, stopVars>>

\* source.stop has returned or raised; at once, if it had been called before.
FatalPurgeIngress(s) ==
  /\ fatalPc[s] = "stopped" \/ (fatalPc[s] = "source" /\ source[s] # "stopping")
  /\ fatalPc' = [fatalPc EXCEPT ![s] = "purge"]
  /\ ingress' = Others(ingress, s)
  /\ UNCHANGED <<stateVars, eventVars, captureVars, work, ingressLock, workMutex, ingressVars,
                 modelVars, stopVars, fatalDue>>

\* The queue's mutex is kept until the session's lock is got.
FatalLockWork(s) ==
  /\ fatalPc[s] = "purge" /\ workMutex = None
  /\ workMutex' = s
  /\ UNCHANGED <<stateVars, eventVars, captureVars, ingress, work, ingressLock, ingressVars,
                 modelVars, stopVars, fatalVars>>

\* Mutants: the pending count is not corrected; the whole queue is emptied.
FatalPurgeWork_NotCounted(s) ==
  /\ workMutex = s
  /\ Others(work, s) = work \/ LockFree(s)
  /\ work' = Others(work, s)
  /\ pending' = pending
  /\ workMutex' = None
  /\ fatalPc' = [fatalPc EXCEPT ![s] = "emit"]
  /\ UNCHANGED <<active, stopping, fatal, captureDone, lastSequence, eventVars, captureVars,
                 ingress, ingressLock, ingressVars, modelVars, stopVars, fatalDue>>

FatalPurgeWork(s) ==
  /\ workMutex = s
  /\ Others(work, s) = work \/ LockFree(s)
  /\ work' = Others(work, s)
  /\ LET removed == Len(work) - Len(work')
     IN  pending' = [pending EXCEPT ![s] = IF removed <= @ THEN @ - removed ELSE 0]
  /\ workMutex' = None
  /\ fatalPc' = [fatalPc EXCEPT ![s] = "emit"]
  /\ UNCHANGED <<active, stopping, fatal, captureDone, lastSequence, eventVars, captureVars,
                 ingress, ingressLock, ingressVars, modelVars, stopVars, fatalDue>>

\* _emit_completed: the first completed event is the only one.
Complete(s, result) ==
  completions' = [completions EXCEPT ![s] = IF @ = <<>> THEN <<result>> ELSE @]

\* Mutant: the completed event is held back from a session that is not active.
FatalEmit_IfActive(s) ==
  /\ fatalPc[s] = "emit" /\ LockFree(s)
  /\ IF active[s] THEN Complete(s, "failed") ELSE UNCHANGED completions
  /\ fatalPc' = [fatalPc EXCEPT ![s] = "done"]
  /\ UNCHANGED <<stateVars, answers, refused, captureVars, queueVars, ingressVars, modelVars,
                 stopVars, fatalDue>>

FatalEmit(s) ==
  /\ fatalPc[s] = "emit" /\ LockFree(s)
  /\ Complete(s, "failed")
  /\ fatalPc' = [fatalPc EXCEPT ![s] = "done"]
  /\ UNCHANGED <<stateVars, answers, refused, captureVars, queueVars, ingressVars, modelVars,
                 stopVars, fatalDue>>
-----------------------------------------------------------------------------
(* The thread in session.stop.                                             *)

StopUnchanged ==
  UNCHANGED <<pending, captureDone, answers, completions, callback, work, workMutex,
              ingressVars, modelVars>>

\* Called by the workflow, and once more by handle.close if that failed.
StopCall(s) ==
  /\ s \in Stopped /\ stopPc[s] \in {"idle", "raised"} /\ LockFree(s)
  /\ lastSequence[s] + tail[s] <= MaxSequence[s]   \* bound: a retry numbers the chunk anew
  /\ stopPc' = [stopPc EXCEPT ![s] =
       IF Terminal(s) THEN "returned"
       ELSE IF stopping[s] THEN "enqueue"
       ELSE IF ~active[s] THEN "wait"
       ELSE IF source[s] = "open" THEN "source" ELSE "flush"]
  /\ IF stopPc'[s] = "source" THEN StopSource(s) ELSE UNCHANGED source
  /\ UNCHANGED <<active, stopping, fatal, lastSequence, refused, ingress, ingressLock, tail,
                 endEnqueued, fatalVars>>
  /\ StopUnchanged

StopGoto(s, label) == stopPc' = [stopPc EXCEPT ![s] = label]

StopSourceEnded(s) ==
  /\ stopPc[s] = "source" /\ source[s] = "closed"
  /\ StopGoto(s, "flush")
  /\ UNCHANGED <<active, stopping, fatal, lastSequence, refused, source, ingress, ingressLock,
                 tail, endEnqueued, fatalVars>>
  /\ StopUnchanged

\* The source could not be stopped: _fatal, in this thread, and return.
StopSourceFailed(s) ==
  /\ stopPc[s] = "source" /\ source[s] = "failed"
  /\ FatalCalled(s)
  /\ StopGoto(s, IF fatalPc' = fatalPc THEN "returned" ELSE "fatal")
  /\ UNCHANGED <<stopping, lastSequence, refused, ingress, ingressLock, tail, endEnqueued, fatalDue>>
  /\ StopUnchanged

StopFatalReturns(s) ==
  /\ stopPc[s] = "fatal" /\ fatalPc[s] = "done"
  /\ StopGoto(s, "returned")
  /\ UNCHANGED <<active, stopping, fatal, lastSequence, refused, source, ingress, ingressLock,
                 tail, endEnqueued, fatalVars>>
  /\ StopUnchanged

StopFlush(s) ==
  /\ stopPc[s] = "flush" /\ LockFree(s)
  /\ stopping' = [stopping EXCEPT ![s] = TRUE]
  /\ \E n \in 0..MaxTail :
       /\ lastSequence[s] + n <= MaxSequence[s]
       /\ tail' = [tail EXCEPT ![s] = n]
  /\ StopGoto(s, "enqueue")
  /\ UNCHANGED <<active, fatal, lastSequence, refused, source, ingress, ingressLock, endEnqueued,
                 fatalVars>>
  /\ StopUnchanged

\* The session has ended: what _enqueue_chunk returns is not looked at.
StopSkip(s) ==
  /\ stopPc[s] = "enqueue" /\ tail[s] > 0
  /\ ingressLock = None /\ LockFree(s) /\ ~active[s]
  /\ tail' = [tail EXCEPT ![s] = @ - 1]
  /\ UNCHANGED <<active, stopping, fatal, lastSequence, refused, source, ingress, ingressLock,
                 stopPc, endEnqueued, fatalVars>>
  /\ StopUnchanged

\* Preprocessing the chunk failed; stop goes on with the next one.
StopChunkFails(s) ==
  /\ s \in Faulty /\ stopPc[s] = "enqueue" /\ tail[s] > 0
  /\ tail' = [tail EXCEPT ![s] = @ - 1]
  /\ fatalDue' = [fatalDue EXCEPT ![s] = TRUE]
  /\ UNCHANGED <<active, stopping, fatal, lastSequence, refused, source, ingress, ingressLock,
                 stopPc, endEnqueued, fatalPc>>
  /\ StopUnchanged

\* Number the next chunk; the ingress lock is kept while the queue is full.
StopNumber(s) ==
  /\ stopPc[s] = "enqueue" /\ tail[s] > 0
  /\ ingressLock = None /\ LockFree(s) /\ active[s]
  /\ NumberChunk(s)
  /\ ingressLock' = s
  /\ StopGoto(s, "put")
  /\ UNCHANGED <<active, stopping, fatal, refused, source, ingress, tail, endEnqueued, fatalVars>>
  /\ StopUnchanged

StopPut(s) ==
  /\ stopPc[s] = "put" /\ IngressRoom
  /\ ingress' = Append(ingress, <<s, lastSequence[s]>>)
  /\ tail' = [tail EXCEPT ![s] = @ - 1]
  /\ ingressLock' = None
  /\ StopGoto(s, "enqueue")
  /\ UNCHANGED <<active, stopping, fatal, lastSequence, refused, source, endEnqueued, fatalVars>>
  /\ StopUnchanged

\* Full: a "drop" session goes on without the chunk; a "fail" session raises,
\* unless its time was up before it tried, and then it spawns _fatal.
StopPutTimeout(s) ==
  /\ Timed /\ stopPc[s] = "put" /\ ~IngressRoom
  /\ refused' = [refused EXCEPT ![s] = @ \union {lastSequence[s]}]
  /\ ingressLock' = None
  /\ \/ /\ s \in Drop
        /\ tail' = [tail EXCEPT ![s] = @ - 1] /\ StopGoto(s, "enqueue") /\ UNCHANGED fatalDue
     \/ /\ s \notin Drop
        /\ StopGoto(s, "raised") /\ UNCHANGED <<tail, fatalDue>>
     \/ /\ s \notin Drop
        /\ tail' = [tail EXCEPT ![s] = @ - 1] /\ StopGoto(s, "enqueue")
        /\ fatalDue' = [fatalDue EXCEPT ![s] = TRUE]
  /\ UNCHANGED <<active, stopping, fatal, lastSequence, source, ingress, endEnqueued, fatalPc>>
  /\ StopUnchanged

\* Mutant: the end overtakes the chunks that are still to be enqueued.
StopEnd_Early(s) ==
  /\ stopPc[s] = "enqueue" /\ (endEnqueued[s] \/ IngressRoom)
  /\ ingress' = IF endEnqueued[s] THEN ingress ELSE Append(ingress, <<s, End>>)
  /\ endEnqueued' = [endEnqueued EXCEPT ![s] = TRUE]
  /\ StopGoto(s, IF tail[s] = 0 THEN "wait" ELSE "enqueue")
  /\ UNCHANGED <<active, stopping, fatal, lastSequence, refused, source, ingressLock, tail, fatalVars>>
  /\ StopUnchanged

StopEnd(s) ==
  /\ stopPc[s] = "enqueue" /\ tail[s] = 0 /\ (endEnqueued[s] \/ IngressRoom)
  /\ ingress' = IF endEnqueued[s] THEN ingress ELSE Append(ingress, <<s, End>>)
  /\ endEnqueued' = [endEnqueued EXCEPT ![s] = TRUE]
  /\ StopGoto(s, "wait")
  /\ UNCHANGED <<active, stopping, fatal, lastSequence, refused, source, ingressLock, tail, fatalVars>>
  /\ StopUnchanged

StopWait(s) ==
  /\ stopPc[s] = "wait" /\ LockFree(s) /\ Terminal(s)
  /\ StopGoto(s, "returned")
  /\ UNCHANGED <<active, stopping, fatal, lastSequence, refused, source, ingress, ingressLock,
                 tail, endEnqueued, fatalVars>>
  /\ StopUnchanged

\* The time is up: the source, the queue or the workers took too long.
StopTimesOut(s) ==
  /\ Timed
  /\ \/ stopPc[s] = "source" /\ source[s] = "stopping"
     \/ stopPc[s] = "enqueue" /\ tail[s] = 0 /\ ~endEnqueued[s] /\ ~IngressRoom
     \/ stopPc[s] = "wait" /\ ~Terminal(s)
  /\ StopGoto(s, "raised")
  /\ UNCHANGED <<active, stopping, fatal, lastSequence, refused, source, ingress, ingressLock,
                 tail, endEnqueued, fatalVars>>
  /\ StopUnchanged
-----------------------------------------------------------------------------
(* ingress_worker.                                                         *)

IngressUnchanged ==
  UNCHANGED <<stopping, lastSequence, answers, callback, ingressLock, workMutex, modelVars,
              stopVars, fatalDue>>

IngressGoto(label) == ingressPc' = label /\ UNCHANGED ingressItem
IngressDone == ingressPc' = "idle" /\ ingressItem' = NoItem

IngressTake ==
  /\ ingressPc = "idle" /\ ingress # <<>>
  /\ ingressItem' = Head(ingress) /\ ingress' = Tail(ingress)
  /\ ingressPc' = IF Head(ingress)[2] = End THEN "end" ELSE "taken"
  /\ UNCHANGED <<active, fatal, pending, captureDone, refused, completions, source, work, fatalPc>>
  /\ IngressUnchanged

\* _capture_finished: the session completes unless chunks are pending.
IngressEnd(s) ==
  /\ ingressPc = "end" /\ ingressItem[1] = s /\ LockFree(s)
  /\ captureDone' = [captureDone EXCEPT ![s] = TRUE]
  /\ IF pending[s] = 0 /\ ~Terminal(s) THEN IngressGoto("conclude") ELSE IngressDone
  /\ UNCHANGED <<active, fatal, pending, refused, completions, source, ingress, work, fatalPc>>
  /\ IngressUnchanged

\* The lock has been free in between.
IngressConclude(s) ==
  /\ ingressPc = "conclude" /\ ingressItem[1] = s /\ LockFree(s)
  /\ active' = [active EXCEPT ![s] = FALSE]
  /\ Complete(s, "stopped")
  /\ IngressDone
  /\ UNCHANGED <<fatal, pending, captureDone, refused, source, ingress, work, fatalPc>>
  /\ IngressUnchanged

\* The chunk of a session that has ended is thrown away; the voice detector
\* may find speech, or none, or fail.
IngressDetect(s) ==
  /\ ingressPc = "taken" /\ ingressItem[1] = s /\ LockFree(s)
  /\ \/ ~active[s] /\ IngressDone
     \/ active[s] /\ IngressGoto("detected")
     \/ active[s] /\ s \in Faulty /\ IngressGoto("undetected")
  /\ UNCHANGED <<active, fatal, pending, captureDone, refused, completions, source, ingress, work,
                 fatalPc>>
  /\ IngressUnchanged

IngressCount(s) ==
  /\ ingressPc = "detected" /\ ingressItem[1] = s /\ LockFree(s)
  /\ IF active[s]
     THEN pending' = [pending EXCEPT ![s] = @ + 1] /\ IngressGoto("put")
     ELSE UNCHANGED pending /\ IngressDone
  /\ UNCHANGED <<active, fatal, captureDone, refused, completions, source, ingress, work, fatalPc>>
  /\ IngressUnchanged

IngressPut ==
  /\ ingressPc = "put" /\ workMutex = None /\ WorkRoom
  /\ work' = Append(work, ingressItem)
  /\ IngressDone
  /\ UNCHANGED <<active, fatal, pending, captureDone, refused, completions, source, ingress, fatalPc>>
  /\ IngressUnchanged

\* The work queue remained full; a "drop" session does not wait for it.
IngressPutTimeout(s) ==
  /\ ingressPc = "put" /\ ingressItem[1] = s /\ workMutex = None /\ ~WorkRoom /\ LockFree(s)
  /\ pending' = [pending EXCEPT ![s] = IF @ > 0 THEN @ - 1 ELSE 0]
  /\ refused' = [refused EXCEPT ![s] = @ \union {ingressItem[2]}]
  /\ IF active[s] /\ s \notin Drop THEN IngressGoto("rejected") ELSE IngressDone
  /\ UNCHANGED <<active, fatal, captureDone, completions, source, ingress, work, fatalPc>>
  /\ IngressUnchanged

\* The worker itself runs _fatal, and is back when that has returned.
IngressFails(s) ==
  /\ ingressPc \in {"undetected", "rejected"} /\ ingressItem[1] = s
  /\ FatalCalled(s)
  /\ IF fatalPc' = fatalPc THEN IngressDone ELSE IngressGoto("fatal")
  /\ UNCHANGED <<pending, captureDone, refused, completions, ingress, work>>
  /\ IngressUnchanged

IngressFailed(s) ==
  /\ ingressPc = "fatal" /\ ingressItem[1] = s /\ fatalPc[s] = "done"
  /\ IngressDone
  /\ UNCHANGED <<active, fatal, pending, captureDone, refused, completions, source, ingress, work,
                 fatalPc>>
  /\ IngressUnchanged
-----------------------------------------------------------------------------
(* model_worker.                                                           *)

ModelUnchanged ==
  UNCHANGED <<stopping, fatal, captureDone, lastSequence, refused, captureVars, ingress,
              ingressLock, workMutex, ingressVars, stopVars, fatalVars>>

ModelDone == modelPc' = "idle" /\ modelItem' = NoItem

ModelTake ==
  /\ modelPc = "idle" /\ workMutex = None /\ work # <<>>
  /\ modelItem' = Head(work) /\ work' = Tail(work) /\ modelPc' = "taken"
  /\ UNCHANGED <<active, pending, answers, completions>>
  /\ ModelUnchanged

\* Inference, failed inference or a skipped chunk, and _complete_work; nothing
\* is published for a session that has ended.
ModelComplete(s) ==
  /\ modelPc = "taken" /\ modelItem[1] = s /\ LockFree(s)
  /\ answers' = [answers EXCEPT ![s] = IF active[s] /\ ~Terminal(s) THEN Append(@, modelItem[2]) ELSE @]
  /\ pending' = [pending EXCEPT ![s] = IF @ > 0 THEN @ - 1 ELSE 0]
  /\ IF captureDone[s] /\ pending'[s] = 0 /\ ~Terminal(s)
     THEN modelPc' = "conclude" /\ UNCHANGED modelItem ELSE ModelDone
  /\ UNCHANGED <<active, completions, work>>
  /\ ModelUnchanged

\* The lock has been free in between.
ModelConclude(s) ==
  /\ modelPc = "conclude" /\ modelItem[1] = s /\ LockFree(s)
  /\ active' = [active EXCEPT ![s] = FALSE]
  /\ Complete(s, "stopped")
  /\ ModelDone
  /\ UNCHANGED <<pending, answers, work>>
  /\ ModelUnchanged
-----------------------------------------------------------------------------
Fatal(s) ==
  \/ FatalBegin(s) \/ FatalPurgeIngress(s) \/ FatalLockWork(s) \/ FatalPurgeWork(s) \/ FatalEmit(s)

Stop(s) ==
  \/ StopSourceEnded(s) \/ StopSourceFailed(s) \/ StopFatalReturns(s) \/ StopFlush(s)
  \/ StopSkip(s) \/ StopNumber(s) \/ StopPut(s) \/ StopPutTimeout(s) \/ StopEnd(s)
  \/ StopWait(s) \/ StopTimesOut(s)

IngressWorker ==
  \/ IngressTake \/ IngressPut
  \/ \E s \in Sessions :
       \/ IngressEnd(s) \/ IngressConclude(s) \/ IngressDetect(s) \/ IngressCount(s)
       \/ IngressPutTimeout(s) \/ IngressFails(s) \/ IngressFailed(s)

ModelWorker == ModelTake \/ \E s \in Sessions : ModelComplete(s) \/ ModelConclude(s)

Next ==
  \/ IngressWorker \/ ModelWorker
  \/ \E s \in Sessions :
       \/ CallbackBegin(s) \/ CallbackEnqueue(s) \/ CallbackFails(s) \/ CaptureError(s)
       \/ SourceEnds(s) \/ Fatal(s)
       \/ StopCall(s) \/ Stop(s) \/ StopChunkFails(s)

Spec == Init /\ [][Next]_vars

(* Every thread that can run runs; since sessions number finitely many      *)
(* chunks no lock is taken and given back for ever, so weak fairness is     *)
(* enough.  Nobody has to speak into a microphone, to fail or to call stop. *)
Fairness ==
  /\ WF_vars(IngressWorker) /\ WF_vars(ModelWorker)
  /\ \A s \in Sessions :
       /\ WF_vars(CallbackEnqueue(s)) /\ WF_vars(SourceEnds(s)) /\ WF_vars(Fatal(s)) /\ WF_vars(Stop(s))

FairSpec == Spec /\ Fairness
-----------------------------------------------------------------------------
TypeOK ==
  /\ active \in [Sessions -> BOOLEAN] /\ stopping \in [Sessions -> BOOLEAN]
  /\ fatal \in [Sessions -> BOOLEAN] /\ captureDone \in [Sessions -> BOOLEAN]
  /\ pending \in [Sessions -> Nat] /\ lastSequence \in [Sessions -> Numbers \union {-1}]
  /\ answers \in [Sessions -> Seq(Numbers)] /\ refused \in [Sessions -> SUBSET Numbers]
  /\ completions \in [Sessions -> {<<>>, <<"stopped">>, <<"failed">>}]
  /\ source \in [Sessions -> {"open", "stopping", "closed", "failed"}]
  /\ callback \in [Sessions -> 0..MaxBatch]
  /\ ingress \in Seq(Item) /\ Len(ingress) <= IngressCap
  /\ work \in Seq(Sessions \X Numbers) /\ Len(work) <= WorkCap
  /\ ingressLock \in Sessions \union {None} /\ workMutex \in Sessions \union {None}
  /\ ingressPc \in {"idle", "end", "conclude", "taken", "detected", "put", "undetected",
                   "rejected", "fatal"}
  /\ ingressItem \in Item \union {NoItem}
  /\ modelPc \in {"idle", "taken", "conclude"} /\ modelItem \in Item \union {NoItem}
  /\ stopPc \in [Sessions -> {"idle", "source", "flush", "enqueue", "put", "wait", "fatal",
                              "returned", "raised"}]
  /\ tail \in [Sessions -> 0..MaxTail] /\ endEnqueued \in [Sessions -> BOOLEAN]
  /\ fatalDue \in [Sessions -> BOOLEAN]
  /\ fatalPc \in [Sessions -> {"none", "source", "stopped", "purge", "emit", "done"}]

\* The numbers of the chunks of s that a worker has in hand, or a queue holds.
InHand(held, item, s) == {n \in Numbers : held /\ item = <<s, n>>}
Chunks(queue, s) == {n \in Numbers : <<s, n>> \in Range(queue)}

\* The places a chunk of s passes, from its answer back to its numbering.
Answered(s) == Range(answers[s])
InModel(s) == InHand(modelPc = "taken", modelItem, s)
InIngress(s) ==
  InHand(ingressPc \in {"taken", "detected", "undetected", "put"}, ingressItem, s)
Putting(s) == {n \in Numbers : stopPc[s] = "put" /\ n = lastSequence[s]}
Places(s) ==
  <<Answered(s), InModel(s), Chunks(work, s), InIngress(s), Chunks(ingress, s), Putting(s)>>

\* The chunks of s past the ingress worker's count.
Scheduled(s) ==
  InModel(s) \union Chunks(work, s) \union InHand(ingressPc = "put", ingressItem, s)

\* The chunks of s that are numbered and neither answered nor refused.
Underway(s) ==
  InModel(s) \union Chunks(work, s) \union InIngress(s) \union Chunks(ingress, s) \union Putting(s)

(* The pending count is the number of chunks between the dispatcher's count *)
(* and the worker's answer, whatever a purge took out in between: a session *)
(* can only be completed when it reaches zero, and never before.            *)
PendingCounted == \A s \in Sessions : pending[s] = Cardinality(Scheduled(s))

QueueInOrder(queue, s) ==
  \A i, j \in 1..Len(queue) :
    i < j /\ queue[i][1] = s /\ queue[j][1] = s /\ queue[j][2] # End => queue[i][2] < queue[j][2]

(* The answers to a session come in the order its chunks were spoken in,    *)
(* and those still to come are later ones, whichever queue they wait in; so *)
(* a chunk is in one place only, and answered once.                         *)
InOrder ==
  \A s \in Sessions :
    /\ \A i, j \in 1..Len(answers[s]) : i < j => answers[s][i] < answers[s][j]
    /\ QueueInOrder(work, s) /\ QueueInOrder(ingress, s)
    /\ \A i, j \in 1..Len(Places(s)) : i < j =>
         \A n \in Places(s)[i], m \in Places(s)[j] : n < m

(* No chunk of a session without a fatal error is lost: each is answered or *)
(* on its way, or has been refused with a diagnostic and is neither; the    *)
(* purge of another session does not touch it.                              *)
ChunksKept ==
  \A s \in Sessions : ~fatal[s] =>
    /\ Answered(s) \union Underway(s) \union refused[s] = 0..lastSequence[s]
    /\ (Answered(s) \union Underway(s)) \intersect refused[s] = {}

(* Each chunk is where it should be, in its order, and counted.             *)
ChunksAccounted == PendingCounted /\ InOrder /\ ChunksKept

(* A session that ends as stopped has answered every chunk it accepted.     *)
StoppedMeansDrained ==
  \A s \in Sessions : completions[s] = <<"stopped">> /\ ~fatal[s] =>
    Underway(s) = {} /\ tail[s] = 0

(* A fatal error is followed by completed(status="failed").                 *)
FatalReported ==
  \A s \in Sessions : fatal[s] => completions[s] \in {<<>>, <<"failed">>}

(* session.stop does not return before the terminal event.                  *)
ReturnedMeansTerminal == \A s \in Sessions : stopPc[s] = "returned" => Terminal(s)

(* stop returns or raises.                                                  *)
StopReturns ==
  \A s \in Sessions : stopPc[s] = "source" ~> stopPc[s] \in {"returned", "raised"}

(* A session settles: whatever it numbered is answered or refused, or, after *)
(* a fatal error, it is completed; nothing stays on its way for ever.       *)
Settled(s) ==
  IF fatal[s]
  THEN Terminal(s)
  ELSE 0..lastSequence[s] \subseteq refused[s] \union Answered(s)
SessionSettles == []<>(\A s \in Sessions : Settled(s))
=============================================================================
