---------------------------- MODULE ProcessGroup ----------------------------
(***************************************************************************)
(* Microphone process groups (features/model_deployment/process_topology). *)
(* start_multiprocess_microphone_flows spawns one capture process a source *)
(* and, in the shared-model topology, one process that owns the model.     *)
(* Captures send chunks through the manager's _BoundedFIFO, the model      *)
(* process answers on the FIFO's own event queue, and every process also   *)
(* reports on one output queue.  The owner's dispatcher thread reads both  *)
(* queues, hands each session its events and watches exit codes.           *)
(*                                                                         *)
(* An event is a record of its kind and its chunk: "answer" stands for a   *)
(* transcript, a skipped-chunk measurement or CHUNK_INFERENCE_FAILED;      *)
(* "drop" for a non-fatal INPUT_QUEUE_TIMEOUT; "fatal" for a fatal error a *)
(* capture reports; "exited" for PROCESS_EXITED; "stopped" and "failed"    *)
(* for a completed event.  A per-input process runs the session that       *)
(* SessionPipeline models: here it answers its chunks in order.            *)
(***************************************************************************)
EXTENDS Integers, Sequences, FiniteSets, Functions

CONSTANTS
    Sessions,       \* the group's sources in order, one capture process each
    Replays,        \* those whose audio source is a file (ReplaySource)
    Topologies,     \* subset of {"shared-model", "per-input-model"}
    Dropping,       \* sources whose flow["overload_policy"] is "drop"
    Chunks,         \* bound: eligible chunks a source makes
    Capacity,       \* model_config["queue_capacity"]
    TelemetryRoom,  \* telemetry records the telemetry pipe can hold
    Mortal,         \* processes that may die on their own,
    Crashes         \* at most so many of them

ASSUME GroupAssumption ==
    /\ Sessions \in Seq(Range(Sessions)) /\ Sessions # <<>> /\ IsInjective(Sessions)
    /\ "model" \notin Range(Sessions)
    /\ Replays \subseteq Range(Sessions) /\ Dropping \subseteq Range(Sessions)
    /\ Topologies \subseteq {"shared-model", "per-input-model"}
    /\ Chunks \in Nat /\ Capacity \in Nat \ {0}
    /\ TelemetryRoom \in Nat /\ Crashes \in Nat

VARIABLES
    topology,
    phase,      \* what the owner is doing with the group
    pc,         \* where each process is; "clean" and "crashed" are exit codes
    ready,      \* ready_queue: what each process put there, "read" once taken
    control,    \* source_control of each capture
    made,       \* last sequence each capture assigned
    dropped,    \* chunks the drop policy discarded
    local,      \* per-input: chunks made and not yet answered
    inq,        \* _BoundedFIFO.items
    modelEv,    \* _BoundedFIFO.model_events
    retired,    \* _BoundedFIFO.retired
    working,    \* item the model process holds
    shutdown,   \* model_control holds "shutdown"
    outq,       \* output_queue, by the process that put
    results,    \* result_queue of each session
    idle,       \* idle_since is not None
    exitSeen,   \* exit_observed_at
    asked,      \* sessions whose stop() was called, a prefix of Sessions
    telemetry,  \* records in the telemetry pipe
    stuck,      \* processes with telemetry that did not fit
    crashes

owner == <<phase, asked>>
fifo == <<inq, modelEv, retired>>
worker == <<working, shutdown>>
dispatch == <<results, idle, exitSeen>>
tele == <<telemetry, stuck>>
vars == <<topology, owner, pc, ready, control, made, dropped, local, fifo, worker,
          outq, dispatch, tele, crashes>>

Sources == Range(Sessions)
Model == "model"
Procs == Sources \cup {Model}
Shared == topology = "shared-model"
NoItem == [kind |-> "none", source |-> Model, chunk |-> 0]
Item(kind, s, n) == [kind |-> kind, source |-> s, chunk |-> n]
Event(kind, n) == [kind |-> kind, chunk |-> n]

Alive(p) == pc[p] \notin {"none", "clean", "crashed"}
LastKind(s) == IF results[s] = <<>> THEN "none" ELSE results[s][Len(results[s])].kind
Terminal(s) == LastKind(s) \in {"stopped", "failed"}
Ended == phase \in {"failed", "stopped", "aborted"}

Init ==
    /\ topology \in Topologies
    /\ phase = IF Shared THEN "model" ELSE "captures"
    /\ pc = [p \in Procs |-> IF p = Model
                             THEN IF Shared THEN "loading" ELSE "none"
                             ELSE IF Shared THEN "none" ELSE "starting"]
    /\ ready = [p \in Procs |-> "none"]
    /\ control = [s \in Sources |-> <<>>]
    /\ made = [s \in Sources |-> 0]
    /\ dropped = [s \in Sources |-> {}]
    /\ local = [s \in Sources |-> 0]
    /\ inq = <<>> /\ modelEv = <<>> /\ retired = {}
    /\ working = NoItem /\ shutdown = FALSE
    /\ outq = [s \in Sources |-> <<>>]
    /\ results = [s \in Sources |-> <<>>]
    /\ idle = FALSE /\ exitSeen = {}
    /\ asked = 0
    /\ telemetry = 0 /\ stuck = {} /\ crashes = 0

(***************************************************************************)
(* The bounded FIFO: each method holds its condition, so each is one step. *)
(***************************************************************************)
Full == Len(inq) >= Capacity

\* Mutant: put does not wait for room.
FifoPut_NoWait(item) == inq' = Append(inq, item)

FifoPut(item) == ~Full /\ inq' = Append(inq, item)

\* The one way to list a set of positions from first to last.
Listing(S) ==
    CHOOSE f \in [1..Cardinality(S) -> S] :
        \A i, j \in 1..Cardinality(S) : i < j => f[i] < f[j]

\* What is left of a queue, in its order, when the items of s are taken out.
Without(q, s) ==
    LET kept == {i \in 1..Len(q) : q[i].source # s}
    IN  [i \in 1..Cardinality(kept) |-> q[Listing(kept)[i]]]

RetireSource(s) ==
    /\ retired' = retired \cup {s}
    /\ inq' = Without(inq, s)
    /\ modelEv' = Without(modelEv, s)

\* publish_model_event refuses a retired source, and a completed event
\* retires its own.
PublishModelEvent(event) ==
    IF event.source \in retired
    THEN UNCHANGED <<modelEv, retired>>
    ELSE /\ modelEv' = Append(modelEv, event)
         /\ retired' = IF event.kind = "stopped" THEN retired \cup {event.source}
                                                 ELSE retired

\* A record goes to the telemetry pipe while it has room; what does not fit
\* stays with the process, whose exit joins the feeder thread.
PutTelemetry(p) ==
    IF telemetry < TelemetryRoom
    THEN telemetry' = telemetry + 1 /\ UNCHANGED stuck
    ELSE stuck' = stuck \cup {p} /\ UNCHANGED telemetry

(***************************************************************************)
(* A capture process (_capture_chunks).  pc "wait": a file-backed source   *)
(* holds its audio until "start"; "capture": the read loop; "drain" and    *)
(* "drainErr": after source.stop(), without and with a capture error;      *)
(* "exit": it has reported its end.                                        *)
(***************************************************************************)
Put(s, events) == outq' = [outq EXCEPT ![s] = @ \o events]
Goto(p, there) == pc' = [pc EXCEPT ![p] = there]

CaptureReady(s) ==
    /\ pc[s] = "starting"
    /\ Goto(s, IF s \in Replays THEN "wait" ELSE "capture")
    /\ ready' = [ready EXCEPT ![s] = "ok"]
    /\ UNCHANGED <<topology, owner, control, made, dropped, local, fifo, worker,
                   outq, dispatch, tele, crashes>>

\* The device does not open, or the per-input model does not load: the error
\* goes to ready_queue and the process returns.
CaptureFailsToStart(s) ==
    /\ pc[s] = "starting"
    /\ Goto(s, "clean")
    /\ ready' = [ready EXCEPT ![s] = "error"]
    /\ UNCHANGED <<topology, owner, control, made, dropped, local, fifo, worker,
                   outq, dispatch, tele, crashes>>

TakeCommand(s) ==
    /\ pc[s] \in {"wait", "capture"} /\ control[s] # <<>>
    /\ Goto(s, IF Head(control[s]) = "stop" THEN "drain" ELSE "capture")
    /\ control' = [control EXCEPT ![s] = Tail(@)]
    /\ UNCHANGED <<topology, owner, ready, made, dropped, local, fifo, worker,
                   outq, dispatch, tele, crashes>>

\* A file source reaches its end, or the device reports an error.
SourceEnds(s) ==
    /\ pc[s] = "capture"
    /\ \/ s \in Replays /\ Goto(s, "drain")
       \/ Shared /\ Goto(s, "drainErr")
    /\ UNCHANGED <<topology, owner, ready, control, made, dropped, local, fifo,
                   worker, outq, dispatch, tele, crashes>>

MakeChunk(s) ==
    /\ pc[s] \in {"capture", "drain", "drainErr"} /\ made[s] < Chunks
    /\ made' = [made EXCEPT ![s] = @ + 1]

\* submit(): the chunk (or its "skip" record) enters the FIFO; a per-input
\* process hands it to its own session.
Submit(s) ==
    /\ MakeChunk(s)
    /\ IF Shared
       THEN FifoPut(Item("chunk", s, made[s] + 1)) /\ UNCHANGED local
       ELSE /\ local[s] < Capacity
            /\ local' = [local EXCEPT ![s] = @ + 1]
            /\ UNCHANGED inq
    /\ UNCHANGED <<topology, owner, pc, ready, control, dropped, modelEv, retired,
                   worker, outq, dispatch, tele, crashes>>

\* submit() in drop mode with the FIFO full.
SubmitDropped(s) ==
    /\ Shared /\ MakeChunk(s) /\ s \in Dropping /\ Full
    /\ dropped' = [dropped EXCEPT ![s] = @ \cup {made[s] + 1}]
    /\ Put(s, <<Event("drop", made[s] + 1)>>)
    /\ UNCHANGED <<topology, owner, pc, ready, control, local, fifo, worker,
                   dispatch, tele, crashes>>

\* Failing: the source leaves the FIFO with its items and its unread events,
\* and the error and the completed event go to the output queue.  The
\* "retire" control sent in between finds nothing left to do in the model
\* process, since the FIFO already refuses the source's events.
Fail(s) ==
    /\ IF Shared THEN RetireSource(s) ELSE UNCHANGED fifo
    /\ Put(s, <<Event("fatal", 0), Event("failed", made[s])>>)
    /\ Goto(s, "exit")

\* submit() gives up: the FIFO stayed full past the enqueue timeout, or
\* detect_speech raised.
SubmitFails(s) ==
    /\ Shared /\ MakeChunk(s)
    /\ \E cause \in {"full", "vad"} :
          cause = "full" => Full /\ s \notin Dropping
    /\ Fail(s)
    /\ UNCHANGED <<topology, owner, ready, control, dropped, local, worker,
                   dispatch, tele, crashes>>

\* Mutant: a shared capture reports its completion on the output queue.
Complete_Direct(s) ==
    /\ pc[s] = "drain" /\ local[s] = 0
    /\ Put(s, <<Event("stopped", made[s])>>)
    /\ Goto(s, "exit")
    /\ UNCHANGED <<topology, owner, ready, control, made, dropped, local, fifo,
                   worker, dispatch, tele, crashes>>

\* The frames accepted before the stop are used up and the source ends:
\* shared, its "complete" item queues behind its chunks.
Complete(s) ==
    /\ pc[s] = "drain"
    /\ IF Shared
       THEN FifoPut(Item("complete", s, made[s])) /\ UNCHANGED outq
       ELSE local[s] = 0 /\ Put(s, <<Event("stopped", made[s])>>) /\ UNCHANGED inq
    /\ Goto(s, "exit")
    /\ UNCHANGED <<topology, owner, ready, control, made, dropped, local, modelEv,
                   retired, worker, dispatch, tele, crashes>>

\* ... or the completion does not fit, or there was a capture error.
CompleteFails(s) ==
    /\ Shared
    /\ pc[s] = "drainErr" \/ (pc[s] = "drain" /\ Full)
    /\ Fail(s)
    /\ UNCHANGED <<topology, owner, ready, control, made, dropped, local,
                   worker, dispatch, tele, crashes>>

\* The per-input session answers its oldest chunk and the process forwards
\* the event.
AnswerLocal(s) ==
    /\ ~Shared /\ pc[s] \in {"capture", "drain"} /\ local[s] > 0
    /\ Put(s, <<Event("answer", made[s] - local[s] + 1)>>)
    /\ local' = [local EXCEPT ![s] = @ - 1]
    /\ PutTelemetry(s)
    /\ UNCHANGED <<topology, owner, pc, ready, control, made, dropped, fifo,
                   worker, dispatch, crashes>>

\* An exception in the loop (the outer except) reports without retiring the
\* source; so does a per-input session that fails or cannot stop in time.
CaptureRaises(s) ==
    /\ pc[s] \in {"capture", "drain"}
    /\ Put(s, <<Event("fatal", 0), Event("failed", 0)>>)
    /\ Goto(s, "exit")
    /\ UNCHANGED <<topology, owner, ready, control, made, dropped, local, fifo,
                   worker, dispatch, tele, crashes>>

\* A process exits once what it put on its queues is in their pipes.
Exit(p) ==
    /\ pc[p] = "exit" /\ p \notin stuck
    /\ Goto(p, "clean")
    /\ UNCHANGED <<topology, owner, ready, control, made, dropped, local, fifo,
                   worker, outq, dispatch, tele, crashes>>

\* A process dies: events still in its feeder never reach the pipe.
Crash(p) ==
    /\ Alive(p) /\ p \in Mortal /\ crashes < Crashes
    /\ Goto(p, "crashed")
    /\ crashes' = crashes + 1
    /\ IF p = Model THEN UNCHANGED outq
       ELSE \E n \in 0..Len(outq[p]) :
               outq' = [outq EXCEPT ![p] = SubSeq(@, 1, n)]
    /\ UNCHANGED <<topology, owner, ready, control, made, dropped, local, fifo,
                   worker, dispatch, tele>>

(***************************************************************************)
(* The model process (_shared_model_worker).                               *)
(***************************************************************************)
ModelLoads(loaded) ==
    /\ pc[Model] = "loading"
    /\ Goto(Model, IF loaded THEN "loop" ELSE "clean")
    /\ ready' = [ready EXCEPT ![Model] = IF loaded THEN "ok" ELSE "error"]
    /\ UNCHANGED <<topology, owner, control, made, dropped, local, fifo, worker,
                   outq, dispatch, tele, crashes>>

\* apply_controls at the head of the loop finds "shutdown".
ApplyShutdown ==
    /\ pc[Model] = "loop" /\ shutdown
    /\ Goto(Model, "exit")
    /\ UNCHANGED <<topology, owner, ready, control, made, dropped, local, fifo,
                   worker, outq, dispatch, tele, crashes>>

\* input_queue.get: a completion is passed on at once, a chunk transcribed.
GetItem ==
    /\ pc[Model] = "loop" /\ ~shutdown /\ inq # <<>>
    /\ inq' = Tail(inq)
    /\ IF Head(inq).kind = "complete"
       THEN /\ PublishModelEvent([Head(inq) EXCEPT !.kind = "stopped"])
            /\ UNCHANGED <<pc, working>>
       ELSE /\ working' = Head(inq)
            /\ Goto(Model, "answer")
            /\ UNCHANGED <<modelEv, retired>>
    /\ UNCHANGED <<topology, owner, ready, control, made, dropped, local,
                   shutdown, outq, dispatch, tele, crashes>>

\* The inference ended, with text or with an error.
PublishAnswer ==
    /\ pc[Model] = "answer"
    /\ PublishModelEvent([working EXCEPT !.kind = "answer"])
    /\ PutTelemetry(Model)
    /\ working' = NoItem
    /\ Goto(Model, "loop")
    /\ UNCHANGED <<topology, owner, ready, control, made, dropped, local, inq,
                   shutdown, outq, dispatch, crashes>>

(***************************************************************************)
(* The dispatcher thread (_dispatch).  A step is the end of one round of   *)
(* its loop, the look at the exit codes, and the start of the next, the    *)
(* poll: between a poll and the look that follows it the system moves.     *)
(* Puts reach the pipe at once: what a live process still buffers is as    *)
(* good as not put yet.                                                    *)
(***************************************************************************)
Dispatching == phase \in {"running", "stopping", "closing"}

\* A session takes events until its completed event.
Deliver(events, s) ==
    results' = IF Terminal(s) THEN results
                              ELSE [results EXCEPT ![s] = @ \o events]

\* Mutant: no exit code matters in the shared topology.
ExitCounts_PerInput(s) ==
    ~Terminal(s) /\ ~Shared /\ pc[s] \in {"crashed", "clean"}

\* An exit code that means trouble: shared captures exit with 0 while the
\* model still answers them.
ExitCounts(s) ==
    /\ ~Terminal(s)
    /\ pc[s] = "crashed" \/ (pc[s] = "clean" /\ ~Shared)

Look == exitSeen' = {s \in Sources : ExitCounts(s)}

\* A model event, else an output event.
DispatchEvent ==
    /\ Dispatching /\ Look
    /\ idle' = FALSE
    /\ IF modelEv # <<>>
       THEN /\ Deliver(<<Event(Head(modelEv).kind, Head(modelEv).chunk)>>,
                       Head(modelEv).source)
            /\ modelEv' = Tail(modelEv)
            /\ UNCHANGED outq
       ELSE \E s \in Sources :
               /\ outq[s] # <<>>
               /\ Deliver(<<Head(outq[s])>>, s)
               /\ outq' = [outq EXCEPT ![s] = Tail(@)]
               /\ UNCHANGED modelEv
    /\ UNCHANGED <<topology, owner, pc, ready, control, made, dropped, local, inq,
                   retired, worker, tele, crashes>>

\* Neither queue has anything.
DispatchIdle ==
    /\ Dispatching /\ Look
    /\ modelEv = <<>> /\ \A s \in Sources : outq[s] = <<>>
    /\ idle' = TRUE
    /\ UNCHANGED <<topology, owner, pc, ready, control, made, dropped, local, fifo,
                   worker, outq, results, tele, crashes>>

\* Mutant: the first look that sees the exit fails the source.
DispatchExited_AtOnce(s) ==
    /\ Dispatching
    /\ idle /\ ExitCounts(s)
    /\ Deliver(<<Event("exited", 0), Event("failed", 0)>>, s)
    /\ exitSeen' = exitSeen \ {s}
    /\ UNCHANGED <<topology, owner, pc, ready, control, made, dropped, local, fifo,
                   worker, outq, idle, tele, crashes>>

\* The look fails a source whose exit an earlier look had seen, when the poll
\* in between found nothing and 0.25 s have gone by since both.
DispatchExited(s) ==
    /\ Dispatching
    /\ s \in exitSeen /\ idle /\ ExitCounts(s)
    /\ Deliver(<<Event("exited", 0), Event("failed", 0)>>, s)
    /\ exitSeen' = exitSeen \ {s}
    /\ UNCHANGED <<topology, owner, pc, ready, control, made, dropped, local, fifo,
                   worker, outq, idle, tele, crashes>>

(***************************************************************************)
(* The owner: start_multiprocess_microphone_flows, stop() and abort().     *)
(***************************************************************************)
ModelReady ==
    /\ phase = "model" /\ ready[Model] = "ok"
    /\ ready' = [ready EXCEPT ![Model] = "read"]
    /\ phase' = "captures"
    /\ pc' = [p \in Procs |-> IF p = Model THEN pc[p] ELSE "starting"]
    /\ UNCHANGED <<topology, asked, control, made, dropped, local, fifo, worker,
                   outq, dispatch, tele, crashes>>

\* Once every capture is ready, each is told to start and the group exists.
CollectReady(s) ==
    /\ phase = "captures" /\ ready[s] = "ok"
    /\ ready' = [ready EXCEPT ![s] = "read"]
    /\ IF \A o \in Sources : ready'[o] = "read"
       THEN /\ phase' = "running"
            /\ control' = [o \in Sources |-> <<"start">>]
       ELSE UNCHANGED <<phase, control>>
    /\ UNCHANGED <<topology, asked, pc, made, dropped, local, fifo, worker, outq,
                   dispatch, tele, crashes>>

\* Mutant: the clean-up forgets the model process.
TerminateAll_Captures ==
    pc' = [p \in Procs |-> IF Alive(p) /\ p # Model THEN "crashed" ELSE pc[p]]

\* terminate() of every process of the group that is still alive.
TerminateAll ==
    pc' = [p \in Procs |-> IF Alive(p) THEN "crashed" ELSE pc[p]]

\* A process reported an error, or 60 s passed without a report.
StartFails ==
    /\ phase \in {"model", "captures"}
    /\ phase' = "failed"
    /\ TerminateAll
    /\ UNCHANGED <<topology, asked, ready, control, made, dropped, local,
                   fifo, worker, outq, dispatch, tele, crashes>>

\* stop() asks the sessions one after the other: the previous one has exited
\* and its completed event has been delivered.
Stopped(s) == ~Alive(s) /\ Terminal(s)
AskedStopped == asked > 0 => Stopped(Sessions[asked])

StopSession ==
    /\ phase \in {"running", "stopping"} /\ asked < Len(Sessions) /\ AskedStopped
    /\ phase' = "stopping"
    /\ asked' = asked + 1
    /\ LET s == Sessions[asked + 1]
       IN  control' = IF Alive(s) THEN [control EXCEPT ![s] = Append(@, "stop")]
                                  ELSE control
    /\ UNCHANGED <<topology, pc, ready, made, dropped, local, fifo, worker, outq,
                   dispatch, tele, crashes>>

ShutdownModel ==
    /\ phase = "stopping" /\ asked = Len(Sessions) /\ AskedStopped
    /\ phase' = "closing"
    /\ shutdown' = Alive(Model)
    /\ UNCHANGED <<topology, asked, pc, ready, control, made, dropped, local,
                   fifo, working, outq, dispatch, tele, crashes>>

StopReturns ==
    /\ phase = "closing" /\ ~Alive(Model)
    /\ phase' = "stopped"
    /\ UNCHANGED <<topology, asked, pc, ready, control, made, dropped, local,
                   fifo, worker, outq, dispatch, tele, crashes>>

\* stop() timed out and its caller aborts: terminate, join, kill.
Abort ==
    /\ phase \in {"stopping", "closing"}
    /\ phase' = "aborted"
    /\ TerminateAll
    /\ UNCHANGED <<topology, asked, ready, control, made, dropped, local,
                   fifo, worker, outq, dispatch, tele, crashes>>

Terminated == Ended /\ UNCHANGED vars

\* What a live process does by itself, once it has something to do.
CaptureWork(s) ==
    \/ TakeCommand(s) \/ Complete(s) \/ CompleteFails(s) \/ AnswerLocal(s)
    \/ Exit(s)

ModelWork == ApplyShutdown \/ GetItem \/ PublishAnswer \/ Exit(Model)

Dispatch == DispatchEvent \/ DispatchIdle \/ \E s \in Sources : DispatchExited(s)

OwnerWork ==
    \/ (asked # 0 /\ StopSession)
    \/ ShutdownModel \/ StopReturns

Next ==
    \/ \E s \in Sources :
          \/ CaptureReady(s) \/ CaptureFailsToStart(s) \/ SourceEnds(s)
          \/ Submit(s) \/ SubmitDropped(s) \/ SubmitFails(s) \/ CaptureRaises(s)
          \/ CaptureWork(s)
          \/ CollectReady(s)
    \/ \E p \in Procs : Crash(p)
    \/ \E loaded \in BOOLEAN : ModelLoads(loaded)
    \/ ModelWork \/ Dispatch
    \/ ModelReady \/ StartFails \/ StopSession \/ ShutdownModel \/ StopReturns
    \/ Abort
    \/ Terminated

Spec == Init /\ [][Next]_vars

\* Processes and threads run; the 0.25 s of grace pass.  stop()'s timeout is
\* no part of it: what is shown to end, ends without it.
Fairness ==
    /\ \A s \in Sources : WF_vars(CaptureWork(s))
    /\ WF_vars(ModelWork) /\ WF_vars(Dispatch) /\ WF_vars(OwnerWork)
    /\ \A s \in Sources : WF_vars(DispatchExited(s))

FairSpec == Spec /\ Fairness

(***************************************************************************)
(* Properties                                                              *)
(***************************************************************************)
Events == [kind : {"answer", "drop", "fatal", "exited", "stopped", "failed"},
           chunk : 0..Chunks]
Items == [kind : {"chunk", "complete"}, source : Sources, chunk : 0..Chunks]
ModelEvents == [kind : {"answer", "stopped"}, source : Sources, chunk : 0..Chunks]
CapturePlaces == {"none", "starting", "wait", "capture", "drain", "drainErr", "exit",
                  "clean", "crashed"}
ModelPlaces == {"none", "loading", "loop", "answer", "exit", "clean", "crashed"}

\* The values the variables take.
TypeOK ==
    /\ topology \in Topologies
    /\ phase \in {"model", "captures", "running", "stopping", "closing",
                  "failed", "stopped", "aborted"}
    /\ pc \in [Procs -> CapturePlaces \cup ModelPlaces]
    /\ pc[Model] \in ModelPlaces /\ \A s \in Sources : pc[s] \in CapturePlaces
    /\ ready \in [Procs -> {"none", "ok", "error", "read"}]
    /\ control \in [Sources -> Seq({"start", "stop"})]
    /\ made \in [Sources -> 0..Chunks]
    /\ dropped \in [Sources -> SUBSET (1..Chunks)]
    /\ local \in [Sources -> 0..Chunks]
    /\ \A s \in Sources : /\ dropped[s] \subseteq 1..made[s]
                          /\ local[s] <= IF Shared THEN 0 ELSE made[s]
    /\ outq \in [Sources -> Seq(Events)] /\ results \in [Sources -> Seq(Events)]
    /\ inq \in Seq(Items) /\ Len(inq) <= Capacity
    /\ modelEv \in Seq(ModelEvents)
    /\ retired \subseteq Sources /\ shutdown \in BOOLEAN
    /\ working \in Items \cup {NoItem}
    /\ idle \in BOOLEAN
    /\ exitSeen \subseteq Sources /\ asked \in 0..Len(Sessions)
    /\ telemetry \in 0..TelemetryRoom /\ stuck \subseteq Procs
    /\ crashes \in 0..Crashes

Answers(q) == {n \in 0..Chunks : Event("answer", n) \in Range(q)}
InOrder(q) ==
    \A i, j \in DOMAIN q :
        i < j /\ q[i].kind = "answer" /\ q[j].kind = "answer" => q[i].chunk < q[j].chunk

\* A session's consumer sees chunks in order, none twice, and a completed
\* event that says "stopped" comes only after an answer to every chunk the
\* source made and did not drop, though chunks and completion cross three
\* processes and two queues.
StoppedMeansAnswered ==
    \A s \in Sources :
        /\ InOrder(results[s])
        /\ LastKind(s) = "stopped" => Answers(results[s]) = (1..made[s]) \ dropped[s]

\* A failed completion is never bare: the session got the fatal error that
\* explains it first, and PROCESS_EXITED is said only of a process that did
\* die, never of one whose own completion was still on its way.
FailureExplained ==
    \A s \in Sources : LastKind(s) = "failed" =>
        \E e \in Range(results[s]) :
            e.kind = "fatal" \/ (e.kind = "exited" /\ pc[s] = "crashed")

\* Once stop() has returned, an abort is over or a start has failed, none of
\* the group's processes runs; and stop() returns only when every session has
\* its completed event.
EndedMeansOver ==
    Ended => /\ \A p \in Procs : ~Alive(p)
             /\ phase = "stopped" => \A s \in Sources : Terminal(s)

\* stop() ends by itself, without its timeout, whatever the sources were
\* doing and though captures may die, unless the model process died: the
\* dispatcher does not watch that one, and only the timeout helps.
StopEnds ==
    phase = "stopping" ~> (phase \in {"stopped", "aborted"} \/ pc[Model] = "crashed")
\* A chunk the drop policy discarded is reported to the session before its
\* completed event.  (It does not hold: the report goes by the output queue,
\* and the completion overtakes it on the model's event queue.)
DropsReported ==
    \A s \in Sources : LastKind(s) = "stopped" =>
        \A n \in dropped[s] : Event("drop", n) \in Range(results[s])

=============================================================================
