---------------------------- MODULE RunRegistry ----------------------------
(***************************************************************************)
(* BackendRuntime: the bounded registries of runs and stress tests, the    *)
(* handlers that reserve a place in them before the work begins, the       *)
(* worker pool that clips and stress tests share, model deletion and       *)
(* shutdown.  What one microphone run does inside is RunPromise.           *)
(*                                                                         *)
(* What runs under registry_lock is one step.  profile_run_start_lock is   *)
(* held from the look for an active run until the start has returned, so   *)
(* it is a variable.                                                       *)
(***************************************************************************)
EXTENDS Integers, FiniteSets, SequencesExt

CONSTANTS
  Mics, Clips, Stresses,  \* the requests: each makes at most one record
  ProfileOf,              \* the profile a microphone run starts from, or None
  ModelOf,                \* the model each request uses
  MaxRuns,                \* max_runs, also max_stress_runs
  MaxMics,                \* max_microphone_runs
  Workers,                \* worker_count
  None

Runs == Mics \union Clips
Jobs == Clips \union Stresses
Requests == Mics \union Clips \union Stresses

ASSUME RunRegistryAssumption ==
  /\ IsFiniteSet(Requests)
  /\ Mics \intersect Clips = {} /\ Mics \intersect Stresses = {} /\ Clips \intersect Stresses = {}
  /\ None \notin Requests
  /\ DOMAIN ProfileOf = Mics /\ DOMAIN ModelOf = Requests
  /\ MaxRuns \in Nat \ {0} /\ MaxMics \in Nat \ {0} /\ Workers \in Nat \ {0}

Models == Range(ModelOf)

VARIABLES
  runs,         \* the ids in runs, oldest first
  stressRuns,   \* the ids in stress_runs, oldest first
  status,       \* the status of a record; "absent" before it is added and once it is removed
  capturing,    \* does a workflow of the run hold its audio source?
  pc,           \* the handler of a request
  profileLock,  \* holder of profile_run_start_lock
  queue,        \* jobs submitted to the executor, not taken yet
  busy,         \* jobs a worker executes
  models,       \* models whose local files exist
  shutdown,     \* shutdown_event
  shut,         \* program counter of shutdown()
  joining       \* the microphone runs shutdown() collected

registry == <<runs, stressRuns>>
pool == <<queue, busy>>
shutVars == <<shutdown, shut, joining>>
vars == <<registry, status, capturing, pc, profileLock, pool, models, shutVars>>

Terminal == {"completed", "stopped", "failed"}
MicActive == {"starting", "recording", "stopping"}
JobActive == {"queued", "running"}

Init ==
  /\ runs = <<>> /\ stressRuns = <<>>
  /\ status = [r \in Requests |-> "absent"]
  /\ capturing = [m \in Mics |-> FALSE]
  /\ pc = [r \in Requests |-> "idle"]
  /\ profileLock = None
  /\ queue = <<>> /\ busy = {}
  /\ models = Models
  /\ shutdown = FALSE /\ shut = "idle" /\ joining = {}

-----------------------------------------------------------------------------
(* Admission.                                                              *)

\* Positions of the oldest terminal record of a registry: one, or none.
OldestTerminal(records) ==
  {i \in 1..Len(records) :
     /\ status[records[i]] \in Terminal
     /\ \A j \in 1..(i - 1) : status[records[j]] \notin Terminal}

\* What a registry becomes when it admits r; no member if it is full.
Admitted(records, r) ==
  IF Len(records) < MaxRuns THEN {Append(records, r)}
  ELSE {Append(RemoveAt(records, i), r) : i \in OldestTerminal(records)}

\* What a registry becomes when it forgets r: dict.pop(r, None).
Removed(records, r) ==
  IF r \in Range(records) THEN {RemoveAt(records, i) : i \in {n \in 1..Len(records) : records[n] = r}}
  ELSE {records}

\* Mutant: a stress test that is queued does not count.
StressActive_RunningOnly == \E t \in Range(stressRuns) : status[t] = "running"

StressActive == \E t \in Range(stressRuns) : status[t] \in JobActive

ActiveMics == {m \in Range(runs) \intersect Mics : status[m] \in MicActive}

MicSlotFree == Cardinality(ActiveMics) < MaxMics

\* The run of the same profile get_active_profile_run would find.
ActiveProfileRun(m) == {n \in ActiveMics : ProfileOf[n] = ProfileOf[m]}
-----------------------------------------------------------------------------
(* Microphone starts: start_microphone_workflow.                           *)

Unlock(m) == profileLock' = IF profileLock = m THEN None ELSE profileLock

MicLock(m) ==
  /\ pc[m] = "idle" /\ ProfileOf[m] # None
  /\ profileLock = None
  /\ profileLock' = m
  /\ pc' = [pc EXCEPT ![m] = "locked"]
  /\ UNCHANGED <<registry, status, capturing, pool, models, shutVars>>

\* The profile has an active run already: its snapshot is the answer.
MicExisting(m) ==
  /\ pc[m] = "locked" /\ ActiveProfileRun(m) # {}
  /\ pc' = [pc EXCEPT ![m] = "done"]
  /\ Unlock(m)
  /\ UNCHANGED <<registry, status, capturing, pool, models, shutVars>>

MicScanned(m) ==
  /\ pc[m] = "locked" /\ ActiveProfileRun(m) = {}
  /\ pc' = [pc EXCEPT ![m] = "scanned"]
  /\ UNCHANGED <<registry, status, capturing, profileLock, pool, models, shutVars>>

MicReady(m) == pc[m] = "scanned" \/ (pc[m] = "idle" /\ ProfileOf[m] = None)

MicAdmissible(m) == ~shutdown /\ ~StressActive /\ MicSlotFree

\* add_run, for a record in status "starting".
MicAdd(m) ==
  /\ MicReady(m) /\ MicAdmissible(m)
  /\ runs' \in Admitted(runs, m)
  /\ status' = [status EXCEPT ![m] = "starting"]
  /\ pc' = [pc EXCEPT ![m] = "opening"]
  /\ UNCHANGED <<stressRuns, capturing, profileLock, pool, models, shutVars>>

MicRefused(m) ==
  /\ MicReady(m)
  /\ ~MicAdmissible(m) \/ Admitted(runs, m) = {}
  /\ pc' = [pc EXCEPT ![m] = "done"]
  /\ Unlock(m)
  /\ UNCHANGED <<registry, status, capturing, pool, models, shutVars>>

\* workflow_service.start_microphone returns a workflow, or raises.
MicOpen(m) ==
  /\ pc[m] = "opening"
  /\ capturing' = [capturing EXCEPT ![m] = TRUE]
  /\ pc' = [pc EXCEPT ![m] = "opened"]
  /\ UNCHANGED <<registry, status, profileLock, pool, models, shutVars>>

MicOpenFails(m) ==
  /\ pc[m] = "opening"
  /\ runs' \in Removed(runs, m)
  /\ status' = [status EXCEPT ![m] = "absent"]
  /\ pc' = [pc EXCEPT ![m] = "done"]
  /\ Unlock(m)
  /\ UNCHANGED <<stressRuns, capturing, pool, models, shutVars>>

\* Also over a status "stopping" that a stop request has set meanwhile.
MicRecord(m) ==
  /\ pc[m] = "opened"
  /\ status' = [status EXCEPT ![m] = "recording"]
  /\ pc' = [pc EXCEPT ![m] = "done"]
  /\ Unlock(m)
  /\ UNCHANGED <<registry, capturing, pool, models, shutVars>>
-----------------------------------------------------------------------------
(* The life of a microphone run, as MicRun implements it.                  *)

MicLost(m) ==
  /\ capturing[m]
  /\ capturing' = [capturing EXCEPT ![m] = FALSE]
  /\ UNCHANGED <<registry, status, pc, profileLock, pool, models, shutVars>>

\* Mutant: recovery does not look whether the run is terminal.
MicReopen_Always(m) ==
  /\ pc[m] = "done" /\ status[m] # "absent" /\ ~capturing[m]
  /\ capturing' = [capturing EXCEPT ![m] = TRUE]
  /\ UNCHANGED <<registry, status, pc, profileLock, pool, models, shutVars>>

\* Recovery; also an open under way when the run was cancelled.
MicReopen(m) ==
  /\ pc[m] = "done" /\ status[m] \in {"recording", "stopping"} /\ ~capturing[m]
  /\ capturing' = [capturing EXCEPT ![m] = TRUE]
  /\ UNCHANGED <<registry, status, pc, profileLock, pool, models, shutVars>>

MicStop(m) ==
  /\ m \in Range(runs) /\ status[m] \in {"starting", "recording"}
  /\ status' = [status EXCEPT ![m] = "stopping"]
  /\ UNCHANGED <<registry, capturing, pc, profileLock, pool, models, shutVars>>

MicStopped(m) ==
  /\ pc[m] = "done" /\ status[m] = "stopping" /\ ~capturing[m]
  /\ status' = [status EXCEPT ![m] = "stopped"]
  /\ UNCHANGED <<registry, capturing, pc, profileLock, pool, models, shutVars>>

\* Stopping failed; shutdown may find that out of a run that has stopped.
MicFailed(m) ==
  /\ pc[m] = "done"
  /\ status[m] = "stopping" \/ (status[m] = "stopped" /\ shut = "joining" /\ m \in joining)
  /\ status' = [status EXCEPT ![m] = "failed"]
  /\ UNCHANGED <<registry, capturing, pc, profileLock, pool, models, shutVars>>
-----------------------------------------------------------------------------
(* Clips and stress tests: reserve a record, submit a job, execute it.     *)

ClipAdd(c) ==
  /\ pc[c] = "idle" /\ ~shutdown
  /\ runs' \in Admitted(runs, c)
  /\ status' = [status EXCEPT ![c] = "queued"]
  /\ pc' = [pc EXCEPT ![c] = "submitting"]
  /\ UNCHANGED <<stressRuns, capturing, profileLock, pool, models, shutVars>>

ClipRefused(c) ==
  /\ pc[c] = "idle"
  /\ shutdown \/ Admitted(runs, c) = {}
  /\ pc' = [pc EXCEPT ![c] = "done"]
  /\ UNCHANGED <<registry, status, capturing, profileLock, pool, models, shutVars>>

\* add_stress_test does not ask shutdown_event.
StressAdd(t) ==
  /\ pc[t] = "idle" /\ ~StressActive /\ ActiveMics = {}
  /\ stressRuns' \in Admitted(stressRuns, t)
  /\ status' = [status EXCEPT ![t] = "queued"]
  /\ pc' = [pc EXCEPT ![t] = "submitting"]
  /\ UNCHANGED <<runs, capturing, profileLock, pool, models, shutVars>>

StressRefused(t) ==
  /\ pc[t] = "idle"
  /\ StressActive \/ ActiveMics # {} \/ Admitted(stressRuns, t) = {}
  /\ pc' = [pc EXCEPT ![t] = "done"]
  /\ UNCHANGED <<registry, status, capturing, profileLock, pool, models, shutVars>>

Submit(j) ==
  /\ pc[j] = "submitting" /\ shut \notin {"waiting", "done"}
  /\ queue' = Append(queue, j)
  /\ pc' = [pc EXCEPT ![j] = "done"]
  /\ UNCHANGED <<registry, status, capturing, profileLock, busy, models, shutVars>>

\* Mutant: the record of a job that could not be submitted stays.
SubmitFails_KeepsRecord(j) ==
  /\ pc[j] = "submitting"
  /\ pc' = [pc EXCEPT ![j] = "done"]
  /\ UNCHANGED <<registry, status, capturing, profileLock, pool, models, shutVars>>

\* executor.submit raises: it has been shut down, or cannot start a thread.
SubmitFails(j) ==
  /\ pc[j] = "submitting"
  /\ runs' \in Removed(runs, j) /\ stressRuns' \in Removed(stressRuns, j)
  /\ status' = [status EXCEPT ![j] = "absent"]
  /\ pc' = [pc EXCEPT ![j] = "done"]
  /\ UNCHANGED <<capturing, profileLock, pool, models, shutVars>>

\* A worker takes the oldest job: _clip_worker, _stress_worker.
JobStart ==
  /\ queue # <<>> /\ Cardinality(busy) < Workers
  /\ busy' = busy \union {Head(queue)} /\ queue' = Tail(queue)
  /\ status' = [status EXCEPT ![Head(queue)] = "running"]
  /\ UNCHANGED <<registry, capturing, pc, profileLock, models, shutVars>>

JobEnd(j) ==
  /\ j \in busy
  /\ busy' = busy \ {j}
  /\ \E result \in {"completed", "failed"} : status' = [status EXCEPT ![j] = result]
  /\ UNCHANGED <<registry, capturing, pc, profileLock, queue, models, shutVars>>
-----------------------------------------------------------------------------
(* Model deletion, all of it under registry_lock.                          *)

\* Mutant: only runs at work block the deletion.
ModelUseBlockers_AtWork(x) ==
  {r \in Range(runs) \union Range(stressRuns) :
     ModelOf[r] = x /\ status[r] \in {"recording", "stopping", "running"}}

\* _model_use_blockers, for a model no profile or default setting refers to.
ModelUseBlockers(x) ==
  {r \in Range(runs) : ModelOf[r] = x /\ status[r] \notin Terminal}
    \union {t \in Range(stressRuns) : ModelOf[t] = x /\ status[t] \in JobActive}

DeleteModel(x) ==
  /\ x \in models /\ ModelUseBlockers(x) = {}
  /\ models' = models \ {x}
  /\ UNCHANGED <<registry, status, capturing, pc, profileLock, pool, shutVars>>
-----------------------------------------------------------------------------
(* shutdown(), which the application's lifespan runs when no microphone     *)
(* start is in progress.                                                   *)

Starting == {m \in Mics : pc[m] \in {"opening", "opened"}}

ShutdownBegin ==
  /\ shut = "idle" /\ Starting = {}
  /\ shutdown' = TRUE
  /\ joining' = Range(runs) \intersect Mics
  /\ status' = [r \in Requests |->
                  IF r \in joining' /\ status[r] \notin Terminal THEN "stopping" ELSE status[r]]
  /\ shut' = "joining"
  /\ UNCHANGED <<registry, capturing, pc, profileLock, pool, models>>

\* Mutant: shutdown does not join the controller threads.
ShutdownJoined_NoJoin ==
  /\ shut = "joining" /\ shut' = "waiting"
  /\ UNCHANGED <<registry, status, capturing, pc, profileLock, pool, models, shutdown, joining>>

\* Every controller thread has ended; executor.shutdown refuses new jobs.
ShutdownJoined ==
  /\ shut = "joining" /\ \A m \in joining : status[m] \in Terminal
  /\ shut' = "waiting"
  /\ UNCHANGED <<registry, status, capturing, pc, profileLock, pool, models, shutdown, joining>>

\* executor.shutdown(wait=True, cancel_futures=False) has returned.
ShutdownDone ==
  /\ shut = "waiting" /\ queue = <<>> /\ busy = {}
  /\ shut' = "done"
  /\ UNCHANGED <<registry, status, capturing, pc, profileLock, pool, models, shutdown, joining>>
-----------------------------------------------------------------------------
\* A request's handler, once it has begun.
Proceeds(r) ==
  \/ r \in Mics /\ ( \/ MicExisting(r) \/ MicScanned(r)
                     \/ pc[r] = "scanned" /\ (MicAdd(r) \/ MicRefused(r))
                     \/ MicOpen(r) \/ MicOpenFails(r) \/ MicRecord(r) )
  \/ r \in Jobs /\ (Submit(r) \/ SubmitFails(r))

Arrives(r) ==
  \/ r \in Mics /\ (MicLock(r) \/ (pc[r] = "idle" /\ (MicAdd(r) \/ MicRefused(r))))
  \/ r \in Clips /\ (ClipAdd(r) \/ ClipRefused(r))
  \/ r \in Stresses /\ (StressAdd(r) \/ StressRefused(r))

Settles(m) == MicStopped(m) \/ MicFailed(m)

Lives(m) == MicLost(m) \/ MicReopen(m) \/ MicStop(m) \/ Settles(m)

Work == JobStart \/ \E j \in Jobs : JobEnd(j)

Shutdown == ShutdownJoined \/ ShutdownDone

Next ==
  \/ \E r \in Requests : Proceeds(r) \/ Arrives(r)
  \/ \E m \in Mics : Lives(m)
  \/ Work
  \/ \E x \in Models : DeleteModel(x)
  \/ ShutdownBegin \/ Shutdown

Spec == Init /\ [][Next]_vars

(* Handlers that have begun, workers and shutdown go on; a job ends, and a  *)
(* run that is being stopped settles, as MicRun shows.  Nobody has to send  *)
(* a request, stop a run or shut down.                                     *)
Fairness ==
  /\ \A r \in Requests : WF_vars(Proceeds(r))
  /\ \A m \in Mics : WF_vars(status[m] = "stopping" /\ Settles(m))
  /\ WF_vars(JobStart) /\ \A j \in Jobs : WF_vars(JobEnd(j))
  /\ WF_vars(Shutdown)

FairSpec == Spec /\ Fairness
-----------------------------------------------------------------------------
Distinct(s) == \A i, j \in 1..Len(s) : s[i] = s[j] => i = j

TypeOK ==
  /\ runs \in Seq(Runs) /\ Len(runs) <= MaxRuns /\ Distinct(runs)
  /\ stressRuns \in Seq(Stresses) /\ Len(stressRuns) <= MaxRuns /\ Distinct(stressRuns)
  /\ status \in [Requests -> Terminal \union MicActive \union JobActive \union {"absent"}]
  /\ capturing \in [Mics -> BOOLEAN]
  /\ pc \in [Requests -> {"idle", "locked", "scanned", "opening", "opened", "submitting", "done"}]
  /\ profileLock \in Mics \union {None}
  /\ queue \in Seq(Jobs) /\ busy \subseteq Jobs
  /\ models \subseteq Models
  /\ shutdown \in BOOLEAN /\ shut \in {"idle", "joining", "waiting", "done"}
  /\ joining \subseteq Mics

\* Runs that hold an audio source, those given up as failed apart.
CapturingMics == {m \in Mics : capturing[m] /\ status[m] # "failed"}

\* Jobs that wait for a worker or have one.
InPool == Range(queue) \union busy

(* While a stress test is queued or running no microphone captures and no   *)
(* second stress test runs: concurrent starts cannot both pass the check.   *)
StressAlone ==
  \A t \in Stresses : status[t] \in JobActive =>
    CapturingMics = {} /\ \A u \in Stresses : status[u] \in JobActive => u = t

(* No more than max_microphone_runs sources are open, those of runs that    *)
(* recovery reopens at any time included.                                  *)
MicLimit == Cardinality(CapturingMics) <= MaxMics

(* A profile has at most one active run, however its starts, recoveries and *)
(* stops interleave.                                                       *)
OneRunPerProfile ==
  \A m, n \in Mics :
    /\ ProfileOf[m] # None /\ ProfileOf[n] = ProfileOf[m]
    /\ status[m] \in MicActive /\ status[n] \in MicActive
    => m = n

(* Active runs are never evicted: what captures, waits for a worker or has  *)
(* one can be found in its registry, so that it can be stopped and watched. *)
ActiveRegistered ==
  /\ CapturingMics \subseteq Range(runs)
  /\ InPool \subseteq Range(runs) \union Range(stressRuns)

(* The registry's rules, which starts, recoveries, stress tests, evictions  *)
(* and stops cannot get round in any interleaving.                         *)
LimitsKept == StressAlone /\ MicLimit /\ OneRunPerProfile /\ ActiveRegistered

(* A model is not deleted under a run that captures or a job that will use  *)
(* it.                                                                     *)
ModelsKept ==
  [][\A x \in models : x \notin models' =>
       \A r \in CapturingMics \union InPool : ModelOf[r] # x]_vars

(* When shutdown has returned no job is left and no source is open: what it *)
(* did not see had been refused, or was done.                              *)
ShutdownDrained == shut = "done" => InPool = {} /\ CapturingMics = {}

(* Every request comes to its end: an accepted job is worked off or its     *)
(* record taken back, the profile lock, held while a source is opened, is   *)
(* given back, and shutdown gets past the runs and jobs it waits for.       *)
Quiet ==
  /\ \A j \in Jobs : status[j] \notin JobActive
  /\ profileLock = None
  /\ shutdown => shut = "done"
RequestsSettle == []<>Quiet

Promise(m) == INSTANCE RunPromise WITH
  phase <- IF status[m] = "absent" THEN "absent"
           ELSE IF pc[m] # "done" \/ status[m] \in {"starting", "recording"} THEN "active"
           ELSE status[m],
  capturing <- capturing[m]

(* Seen from the registry each run does what MicRun is shown to implement:  *)
(* whatever the requests on other runs do, each of its steps is a step of   *)
(* its promise, or none.                                                   *)
RunsKeepPromise ==
  /\ \A m \in Mics : Promise(m)!Init
  /\ [][\A m \in Mics : Promise(m)!Next \/ UNCHANGED Promise(m)!vars]_vars
=============================================================================
