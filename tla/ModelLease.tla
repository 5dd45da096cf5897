----------------------------- MODULE ModelLease -----------------------------
(***************************************************************************)
(* TranscriptionService: loaded model handles cached per configuration and *)
(* reference-counted by leases, the workflows and processes the service    *)
(* owns, and close().  One operation is a clip or a microphone start; a    *)
(* microphone's lease is released by its workflow's consumer thread.       *)
(*                                                                         *)
(* The model lock is an RLock shared with the condition                    *)
(* _model_users_changed; what runs under it is one step.  The start lock   *)
(* and the shared-workflows lock are held across steps, so they are        *)
(* variables.  A handle is named by the operation that loaded it.          *)
(***************************************************************************)
EXTENDS Integers, FiniteSets

CONSTANTS
  Ops,      \* operations; each runs once
  Keys,     \* effective model configurations (cache keys)
  KeyOf,    \* the configuration of each operation
  KindOf,   \* "clip", "mic", "isolated" or "process"
  None,     \* no handle, no lock holder
  Closer    \* the thread that calls close()

ASSUME ModelLeaseAssumption ==
  /\ IsFiniteSet(Ops)
  /\ KeyOf \in [Ops -> Keys]
  /\ KindOf \in [Ops -> {"clip", "mic", "isolated", "process"}]
  /\ None \notin Ops /\ Closer \notin Ops /\ None # Closer

VARIABLES
  handle,          \* _model_handles
  users,           \* _model_users
  closingKeys,     \* _closing_model_keys
  modelsClosing,   \* _models_closing
  loaded,          \* the handles that hold a model in memory
  startLock,       \* holder of _microphone_start_lock
  sharedLock,      \* holder of _shared_workflows_lock
  sharedWorkflows, \* _shared_workflows
  isolated,        \* _isolated_processes
  groups,          \* _process_groups
  running,         \* process groups whose processes run
  pc,              \* the thread that runs the operation
  lease,           \* the handle of its lease, None before and after
  toClose,         \* the handle its lease's release is closing
  attached,        \* holder["workflow"] is set
  wf,              \* its workflow's consumer thread
  closing,         \* _closing
  closer,          \* program counter of close()
  toStop,          \* workflows, then process groups, close() has yet to stop
  stopAsked        \* workflows close() has called stop() on

modelVars == <<handle, users, closingKeys, modelsClosing, loaded>>
lockVars == <<startLock, sharedLock>>
ownVars == <<sharedWorkflows, isolated, groups, running>>
opVars == <<pc, lease, toClose, attached, wf>>
closeVars == <<closing, closer, toStop, stopAsked>>
vars == <<modelVars, lockVars, ownVars, opVars, closeVars>>

Init ==
  /\ handle = [k \in Keys |-> None] /\ users = [k \in Keys |-> 0]
  /\ closingKeys = {} /\ modelsClosing = 0 /\ loaded = {}
  /\ startLock = None /\ sharedLock = None
  /\ sharedWorkflows = {} /\ isolated = {} /\ groups = {} /\ running = {}
  /\ pc = [o \in Ops |-> "idle"]
  /\ lease = [o \in Ops |-> None] /\ toClose = [o \in Ops |-> None]
  /\ attached = [o \in Ops |-> FALSE] /\ wf = [o \in Ops |-> "none"]
  /\ closing = FALSE /\ closer = "idle" /\ toStop = {} /\ stopAsked = {}

Goto(o, label) == pc' = [pc EXCEPT ![o] = label]
-----------------------------------------------------------------------------
(* Leases: _acquire_model_config, _release_model and what they share.      *)

\* A key whose last handle is still being closed is waited for.
KeyFree(o) == KeyOf[o] \notin closingKeys

\* Mutant: an operation that finds the handle cached is not counted.
Acquire_Uncounted(o) ==
  LET k == KeyOf[o] IN
  /\ KeyFree(o) /\ ~closing
  /\ IF handle[k] = None
     THEN /\ handle' = [handle EXCEPT ![k] = o]
          /\ loaded' = loaded \union {o}
          /\ users' = [users EXCEPT ![k] = @ + 1]
     ELSE UNCHANGED <<handle, loaded, users>>
  /\ lease' = [lease EXCEPT ![o] = handle'[k]]
  /\ UNCHANGED <<closingKeys, modelsClosing>>

\* Use the cached handle or load one, all of it under the model lock.
Acquire(o) ==
  LET k == KeyOf[o] IN
  /\ KeyFree(o) /\ ~closing
  /\ IF handle[k] = None
     THEN /\ handle' = [handle EXCEPT ![k] = o]
          /\ loaded' = loaded \union {o}
     ELSE UNCHANGED <<handle, loaded>>
  /\ lease' = [lease EXCEPT ![o] = handle'[k]]
  /\ users' = [users EXCEPT ![k] = @ + 1]
  /\ UNCHANGED <<closingKeys, modelsClosing>>

\* The service is closing, or the model cannot be loaded.
AcquireRefused(o) == KeyFree(o) /\ (closing \/ handle[KeyOf[o]] = None)

\* The last user takes the handle out of the cache and is the one to close it.
LastRelease(o) ==
  /\ users' = [users EXCEPT ![KeyOf[o]] = 0]
  /\ handle' = [handle EXCEPT ![KeyOf[o]] = None]
  /\ closingKeys' = closingKeys \union {KeyOf[o]}
  /\ modelsClosing' = modelsClosing + 1
  /\ toClose' = [toClose EXCEPT ![o] = lease[o]]

\* Give the lease back, unless the cache no longer holds its handle.
Release(o) ==
  /\ lease' = [lease EXCEPT ![o] = None]
  /\ IF handle[KeyOf[o]] # lease[o]
     THEN UNCHANGED <<handle, users, closingKeys, modelsClosing, toClose>>
     ELSE \/ users[KeyOf[o]] <= 1 /\ LastRelease(o)
          \/ /\ users[KeyOf[o]] > 1
             /\ users' = [users EXCEPT ![KeyOf[o]] = @ - 1]
             /\ UNCHANGED <<handle, closingKeys, modelsClosing, toClose>>
  /\ UNCHANGED loaded

\* handle.close(), outside the model lock.
HandleClosed(o) ==
  /\ toClose[o] \in loaded
  /\ loaded' = loaded \ {toClose[o]}
  /\ UNCHANGED <<handle, users, closingKeys, modelsClosing, lockVars, ownVars, opVars, closeVars>>

\* The finally clause: whoever waits for the key or for close may go on.
CloseReported(o) ==
  /\ toClose[o] \notin loaded \union {None}
  /\ toClose' = [toClose EXCEPT ![o] = None]
  /\ modelsClosing' = modelsClosing - 1
  /\ closingKeys' = closingKeys \ {KeyOf[o]}
  /\ UNCHANGED <<handle, users, loaded, lockVars, ownVars, pc, lease, attached, wf, closeVars>>

Released(o) == lease[o] = None /\ toClose[o] = None
-----------------------------------------------------------------------------
(* transcribe_clip with a shared handle, and in a process of its own.      *)

ClipAcquire(o) ==
  /\ KindOf[o] = "clip" /\ pc[o] = "idle"
  /\ Acquire(o)
  /\ Goto(o, "using")
  /\ UNCHANGED <<lockVars, ownVars, toClose, attached, wf, closeVars>>

ClipRefused(o) ==
  /\ KindOf[o] = "clip" /\ pc[o] = "idle"
  /\ AcquireRefused(o)
  /\ Goto(o, "refused")
  /\ UNCHANGED <<modelVars, lockVars, ownVars, lease, toClose, attached, wf, closeVars>>

ClipReturns(o) ==
  /\ KindOf[o] = "clip" /\ pc[o] = "using"
  /\ Release(o)
  /\ Goto(o, "done")
  /\ UNCHANGED <<lockVars, ownVars, attached, wf, closeVars>>

IsolatedStart(o) ==
  /\ KindOf[o] = "isolated" /\ pc[o] = "idle" /\ ~closing
  /\ isolated' = isolated \union {o}
  /\ Goto(o, "using")
  /\ UNCHANGED <<modelVars, lockVars, sharedWorkflows, groups, running, lease, toClose,
                 attached, wf, closeVars>>

IsolatedRefused(o) ==
  /\ KindOf[o] = "isolated" /\ pc[o] = "idle" /\ closing
  /\ Goto(o, "refused")
  /\ UNCHANGED <<modelVars, lockVars, ownVars, lease, toClose, attached, wf, closeVars>>

IsolatedEnds(o) ==
  /\ KindOf[o] = "isolated" /\ pc[o] = "using"
  /\ isolated' = isolated \ {o}
  /\ Goto(o, "done")
  /\ UNCHANGED <<modelVars, lockVars, sharedWorkflows, groups, running, lease, toClose,
                 attached, wf, closeVars>>
-----------------------------------------------------------------------------
(* start_microphone with a shared handle, under the start lock.            *)

StartLock(o) ==
  /\ KindOf[o] \in {"mic", "process"} /\ pc[o] = "idle"
  /\ startLock = None
  /\ startLock' = o
  /\ Goto(o, "locked")
  /\ UNCHANGED <<modelVars, sharedLock, ownVars, lease, toClose, attached, wf, closeVars>>

MicAcquire(o) ==
  /\ KindOf[o] = "mic" /\ pc[o] = "locked"
  /\ Acquire(o)
  /\ Goto(o, "opening")
  /\ UNCHANGED <<lockVars, ownVars, toClose, attached, wf, closeVars>>

MicRefused(o) ==
  /\ KindOf[o] = "mic" /\ pc[o] = "locked"
  /\ AcquireRefused(o)
  /\ startLock' = None
  /\ Goto(o, "refused")
  /\ UNCHANGED <<modelVars, sharedLock, ownVars, lease, toClose, attached, wf, closeVars>>

\* From here on the consumer thread runs, and may end, on its own.
MicOpen(o) ==
  /\ KindOf[o] = "mic" /\ pc[o] = "opening"
  /\ wf' = [wf EXCEPT ![o] = "live"]
  /\ Goto(o, "opened")
  /\ UNCHANGED <<modelVars, lockVars, ownVars, lease, toClose, attached, closeVars>>

MicOpenFails(o) ==
  /\ KindOf[o] = "mic" /\ pc[o] = "opening"
  /\ Release(o)
  /\ Goto(o, "failing")
  /\ UNCHANGED <<lockVars, ownVars, attached, wf, closeVars>>

MicFailed(o) ==
  /\ pc[o] = "failing" /\ Released(o)
  /\ startLock' = None
  /\ Goto(o, "refused")
  /\ UNCHANGED <<modelVars, sharedLock, ownVars, lease, toClose, attached, wf, closeVars>>

MicAttach(o) ==
  /\ pc[o] = "opened"
  /\ attached' = [attached EXCEPT ![o] = TRUE]
  /\ Goto(o, "attached")
  /\ UNCHANGED <<modelVars, lockVars, ownVars, lease, toClose, wf, closeVars>>

MicRegister(o) ==
  /\ pc[o] = "attached" /\ sharedLock = None
  /\ sharedWorkflows' = IF lease[o] # None THEN sharedWorkflows \union {o} ELSE sharedWorkflows
  /\ startLock' = None
  /\ Goto(o, "done")
  /\ UNCHANGED <<modelVars, sharedLock, isolated, groups, running, lease, toClose, attached,
                 wf, closeVars>>

\* The consumer thread's finished(): it keeps the lock until the lease is
\* back and, if it was the last one, the handle closed.
WorkflowEnds(o) ==
  /\ KindOf[o] = "mic" /\ wf[o] = "live" /\ sharedLock = None
  /\ sharedLock' = o
  /\ sharedWorkflows' = IF attached[o] THEN sharedWorkflows \ {o} ELSE sharedWorkflows
  /\ Release(o)
  /\ wf' = [wf EXCEPT ![o] = "finishing"]
  /\ UNCHANGED <<startLock, isolated, groups, running, pc, attached, closeVars>>

\* Mutant: the lock is kept.
WorkflowFinished_KeepsLock(o) ==
  /\ wf[o] = "finishing" /\ Released(o)
  /\ sharedLock' = sharedLock
  /\ wf' = [wf EXCEPT ![o] = "finished"]
  /\ UNCHANGED <<modelVars, startLock, ownVars, pc, lease, toClose, attached, closeVars>>

WorkflowFinished(o) ==
  /\ wf[o] = "finishing" /\ Released(o)
  /\ sharedLock' = None
  /\ wf' = [wf EXCEPT ![o] = "finished"]
  /\ UNCHANGED <<modelVars, startLock, ownVars, pc, lease, toClose, attached, closeVars>>
-----------------------------------------------------------------------------
(* start_microphone in a process of its own: nothing here asks _closing.   *)

ProcessStart(o) ==
  /\ KindOf[o] = "process" /\ pc[o] = "locked"
  /\ groups' = groups \union {o} /\ running' = running \union {o}
  /\ wf' = [wf EXCEPT ![o] = "live"]
  /\ startLock' = None
  /\ Goto(o, "done")
  /\ UNCHANGED <<modelVars, sharedLock, sharedWorkflows, isolated, lease, toClose, attached,
                 closeVars>>

ProcessRefused(o) ==
  /\ KindOf[o] = "process" /\ pc[o] = "locked"
  /\ startLock' = None
  /\ Goto(o, "refused")
  /\ UNCHANGED <<modelVars, sharedLock, ownVars, lease, toClose, attached, wf, closeVars>>

\* finish_group or abort_group: the owner closes the group once.
ProcessEnds(o) ==
  /\ KindOf[o] = "process" /\ wf[o] = "live"
  /\ wf' = [wf EXCEPT ![o] = "finished"]
  /\ running' = running \ {o} /\ groups' = groups \ {o}
  /\ UNCHANGED <<modelVars, lockVars, sharedWorkflows, isolated, pc, lease, toClose, attached,
                 closeVars>>
-----------------------------------------------------------------------------
(* close().                                                                *)

CloseUnchanged == UNCHANGED <<isolated, opVars>>

\* Mutant: close does not take the start lock.
CloseLock_NoLock ==
  /\ closer = "idle" /\ closer' = "locked"
  /\ UNCHANGED <<modelVars, lockVars, sharedWorkflows, groups, running, closing, toStop, stopAsked>>
  /\ CloseUnchanged

CloseLock ==
  /\ closer = "idle" /\ startLock = None
  /\ closer' = "locked" /\ startLock' = Closer
  /\ UNCHANGED <<modelVars, sharedLock, sharedWorkflows, groups, running, closing, toStop, stopAsked>>
  /\ CloseUnchanged

CloseMark ==
  /\ closer = "locked" /\ closer' = "marked"
  /\ closing' = TRUE
  /\ UNCHANGED <<modelVars, lockVars, sharedWorkflows, groups, running, toStop, stopAsked>>
  /\ CloseUnchanged

CloseCollect ==
  /\ closer = "marked" /\ sharedLock = None
  /\ closer' = "stopping"
  /\ toStop' = sharedWorkflows
  /\ startLock' = IF startLock = Closer THEN None ELSE startLock
  /\ UNCHANGED <<modelVars, sharedLock, sharedWorkflows, groups, running, closing, stopAsked>>
  /\ CloseUnchanged

CloseStop(o) ==
  /\ closer = "stopping" /\ o \in toStop /\ stopAsked \intersect toStop = {}
  /\ stopAsked' = stopAsked \union {o}
  /\ UNCHANGED <<modelVars, lockVars, sharedWorkflows, groups, running, closing, closer, toStop>>
  /\ CloseUnchanged

\* workflow.stop() returns or times out; close swallows the exception.
CloseStopped(o) ==
  /\ closer = "stopping" /\ o \in toStop \intersect stopAsked
  /\ toStop' = toStop \ {o}
  /\ UNCHANGED <<modelVars, lockVars, sharedWorkflows, groups, running, closing, closer, stopAsked>>
  /\ CloseUnchanged

CloseGroups ==
  /\ closer = "stopping" /\ toStop = {}
  /\ closer' = "groups" /\ toStop' = groups
  /\ UNCHANGED <<modelVars, lockVars, sharedWorkflows, groups, running, closing, stopAsked>>
  /\ CloseUnchanged

CloseGroup(o) ==
  /\ closer = "groups" /\ o \in toStop
  /\ toStop' = toStop \ {o}
  /\ running' = running \ {o} /\ groups' = groups \ {o}
  /\ UNCHANGED <<modelVars, lockVars, sharedWorkflows, closing, closer, stopAsked>>
  /\ CloseUnchanged

\* Wait for every lease, closing handle and isolated process; close the rest.
CloseFinish ==
  /\ closer = "groups" /\ toStop = {}
  /\ \A k \in Keys : users[k] = 0
  /\ modelsClosing = 0 /\ isolated = {}
  /\ loaded' = loaded \ {handle[k] : k \in Keys}
  /\ handle' = [k \in Keys |-> None] /\ users' = [k \in Keys |-> 0]
  /\ closer' = "done"
  /\ UNCHANGED <<closingKeys, modelsClosing, lockVars, sharedWorkflows, groups, running,
                 closing, toStop, stopAsked>>
  /\ CloseUnchanged
-----------------------------------------------------------------------------
\* The thread of an operation, once it has begun, and the consumer thread.
Proceeds(o) ==
  \/ HandleClosed(o) \/ CloseReported(o)
  \/ ClipReturns(o) \/ IsolatedEnds(o)
  \/ MicAcquire(o) \/ MicRefused(o) \/ MicOpen(o) \/ MicOpenFails(o) \/ MicFailed(o)
  \/ MicAttach(o) \/ MicRegister(o) \/ WorkflowFinished(o)
  \/ ProcessStart(o) \/ ProcessRefused(o)

Op(o) ==
  \/ Proceeds(o)
  \/ ClipAcquire(o) \/ ClipRefused(o) \/ IsolatedStart(o) \/ IsolatedRefused(o) \/ StartLock(o)
  \/ WorkflowEnds(o) \/ ProcessEnds(o)

Close ==
  \/ CloseMark \/ CloseCollect \/ CloseGroups \/ CloseFinish
  \/ \E o \in Ops : CloseStop(o) \/ CloseStopped(o) \/ CloseGroup(o)

Next == (\E o \in Ops : Op(o)) \/ CloseLock \/ Close

Spec == Init /\ [][Next]_vars

(* Threads that can run do.  A workflow close has called stop on ends, when *)
(* it gets the lock for it.  Nobody has to call close, or end by himself.   *)
StoppedEnds(o) == o \in stopAsked /\ WorkflowEnds(o)

Fairness ==
  /\ \A o \in Ops : WF_vars(Proceeds(o)) /\ WF_vars(StoppedEnds(o))
  /\ WF_vars(Close)

FairSpec == Spec /\ Fairness
-----------------------------------------------------------------------------
TypeOK ==
  /\ handle \in [Keys -> Ops \union {None}]
  /\ users \in [Keys -> Nat]
  /\ closingKeys \subseteq Keys /\ modelsClosing \in Nat /\ loaded \subseteq Ops
  /\ startLock \in Ops \union {None, Closer} /\ sharedLock \in Ops \union {None}
  /\ sharedWorkflows \subseteq Ops /\ isolated \subseteq Ops
  /\ groups \subseteq Ops /\ running \subseteq Ops
  /\ pc \in [Ops -> {"idle", "refused", "using", "locked", "opening", "opened", "failing",
                     "attached", "done"}]
  /\ lease \in [Ops -> Ops \union {None}] /\ toClose \in [Ops -> Ops \union {None}]
  /\ attached \in [Ops -> BOOLEAN]
  /\ wf \in [Ops -> {"none", "live", "finishing", "finished"}]
  /\ closing \in BOOLEAN
  /\ closer \in {"idle", "locked", "marked", "stopping", "groups", "done"}
  /\ toStop \subseteq Ops /\ stopAsked \subseteq Ops

Leasing(k) == {o \in Ops : KeyOf[o] = k /\ lease[o] # None}

(* Whoever holds a lease uses the cached, loaded handle of its key: no      *)
(* release by another operation closes a model that is in use.             *)
LeaseLive ==
  \A o \in Ops : lease[o] # None => lease[o] = handle[KeyOf[o]] /\ lease[o] \in loaded

(* The reference count of a key is the number of leases on it, whatever     *)
(* refused, failed and finished starts did in between.                     *)
LeasesCounted == \A k \in Keys : users[k] = Cardinality(Leasing(k))

(* A configuration is in memory once: a later operation loads a fresh       *)
(* handle only when the old one has been closed.                           *)
LoadedOnce ==
  \A h, g \in loaded : KeyOf[h] = KeyOf[g] => h = g

(* _shared_workflows never keeps a workflow that has finished, and once     *)
(* close has collected it, no other workflow is live behind its back:       *)
(* starts either made it into the set or are refused.                      *)
CloseSeesAll ==
  /\ \A o \in sharedWorkflows : wf[o] = "live" /\ lease[o] # None
  /\ closer \notin {"idle", "locked", "marked"} =>
    \A o \in Ops : KindOf[o] = "mic" /\ wf[o] = "live" => o \in toStop \union stopAsked

(* After close nothing is loaded or leased, and no clip process is left.    *)
ClosedMeansUnloaded ==
  closer = "done" => loaded = {} /\ isolated = {} /\ \A o \in Ops : Released(o)

(* Leases, counts and handles agree: what is in use is loaded, once.        *)
LeaseSafe == LeaseLive /\ LeasesCounted /\ LoadedOnce

(* close sees everything that got started, and leaves nothing behind.       *)
CloseComplete == CloseSeesAll /\ ClosedMeansUnloaded

(* close stops the workflows the service owns: none runs afterwards.        *)
ClosedOwnsNothing == closer = "done" => running = {}

(* close returns, if the workflows it stops end, and a start that got the   *)
(* start lock gives it back: waiting for a key that is being closed, or for *)
(* the shared-workflows lock, never deadlocks.                             *)
NobodyStuck ==
  /\ closing ~> closer = "done"
  /\ \A o \in Ops : (startLock = o) ~> (startLock # o)
=============================================================================
