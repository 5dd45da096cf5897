----------------------------- MODULE ModelStore -----------------------------
(***************************************************************************)
(* The local model store: the preparation jobs and the guarded deletion of *)
(* workflows/model_management/service.py and backend/api/routes/models.py, *)
(* and what they do to the models directory                                *)
(* (features/model_deployment/model_management.py).  A key's assets are a  *)
(* source checkpoint and a runtime artifact (one precision); the registry  *)
(* file maps keys to repositories and is replaced whole.  Every change     *)
(* under the directory is one rename or one rmtree, so the process can die *)
(* or an OSError can strike between any two of them.                       *)
(*                                                                         *)
(* An asset is the repository its marker file names and its state: whole,  *)
(* torn (an rmtree stopped half way, the marker is still there) or         *)
(* unmarked (half way, the marker is gone).                                *)
(***************************************************************************)
EXTENDS Integers, FiniteSets

CONSTANTS
    Keys, Repos, Absent,
    Builtins,       \* BUILTINS: [Keys -> Repos \cup {None}]
    Requests,       \* preparations asked for: subset of Keys \X Repos \X BOOLEAN (convert)
    Started,        \* keys runs and stress tests are started with
    Named,          \* keys profiles are saved with
    MaxFaults       \* bound: OSErrors and deaths of the backend

ASSUME StoreAssumption ==
    /\ Absent \notin Keys \cup Repos
    /\ \A r \in Repos, s \in {"whole", "torn", "unmarked"} : Absent # [repo |-> r, state |-> s]
    /\ Started \cup Named \subseteq Keys
    /\ Requests \subseteq Keys \X Repos \X BOOLEAN
    /\ Builtins \in [Keys -> Repos \cup {Absent}]
    /\ \A k, m \in Keys : Builtins[k] # Absent /\ Builtins[k] = Builtins[m] => k = m
    /\ MaxFaults \in Nat

VARIABLES
    registered, \* models.local.json
    asset,      \* asset[part][key] under the models directory
    leftover,   \* delete stages nobody owns any more, with what they hold
    uses,       \* keys of active workflow runs and stress tests
    profiles,   \* keys saved profiles reference
    job,        \* the newest job: [status, key, repo, convert]
    closing,    \* where service.close() is: "open" (not called), "marking" or "waiting"
    doomed,     \* close() found the job queued
    prep,       \* prepare_huggingface_model: [pc, seen, had, published]
    del,        \* delete_local_model: [pc, key, held]
    before,     \* {the registry and assets when the operation began}, {} at rest
    faults

disk == <<registered, asset, leftover>>
service == <<job, closing, doomed>>
clients == <<uses, profiles>>
modelsVars == <<disk, service, clients, prep, del, before, faults>>

Parts == {"source", "runtime"}
Asset(r, state) == [repo |-> r, state |-> state]
Torn == {"torn", "unmarked"}
Assets == [repo : Repos, state : Torn \cup {"whole"}] \cup {Absent}
NoJob == [status |-> "none", key |-> Absent, repo |-> Absent, convert |-> FALSE]
Resting == [pc |-> "idle", seen |-> [k \in Keys |-> Absent], had |-> {}, published |-> {}]
NoDelete == [pc |-> "idle", key |-> Absent, held |-> [p \in Parts |-> Absent]]

Active == job.status \in {"queued", "running"}
Snapshot == [registry |-> registered, asset |-> asset]
Store(p, k, a) == [asset EXCEPT ![p][k] = a]
\* An OSError strikes, or the process dies.
Fault == faults < MaxFaults /\ faults' = faults + 1

\* What rmtree(ignore_errors=True) can leave of an asset of repository r.
Remains(r) == {Asset(r, s) : s \in Torn}

ModelsInit ==
    /\ registered = [k \in Keys |-> Absent]
    /\ asset = [p \in Parts |-> [k \in Keys |-> Absent]]
    /\ leftover = {} /\ uses = {} /\ profiles = {}
    /\ job = NoJob /\ closing = "open" /\ doomed = FALSE
    /\ prep = Resting /\ del = NoDelete /\ before = {}
    /\ faults = 0

(***************************************************************************)
(* ModelManagementService: one preparation at a time.  A deletion holds    *)
(* the service lock from its guard to its end.                             *)
(***************************************************************************)
StartJob(k, r, convert) ==
    /\ closing = "open" /\ del.pc = "idle" /\ ~Active
    /\ job' = [status |-> "queued", key |-> k, repo |-> r, convert |-> convert]
    /\ UNCHANGED <<disk, closing, doomed, clients, prep, del, before, faults>>

\* _run on the executor's thread.
RunJob ==
    /\ job.status = "queued"
    /\ job' = [job EXCEPT !.status = "running"]
    /\ prep' = [prep EXCEPT !.pc = "check"]
    /\ before' = {Snapshot}
    /\ UNCHANGED <<disk, closing, doomed, clients, del, faults>>

\* _finish does not look at the status it replaces; of a job that ended only the
\* status is kept here.
Finish(status) == job' = [NoJob EXCEPT !.status = status]

CloseBegins ==
    /\ closing = "open" /\ del.pc = "idle"
    /\ doomed' = (job.status = "queued")
    /\ closing' = "marking"
    /\ UNCHANGED <<disk, job, clients, prep, del, before, faults>>

CloseMarks ==
    /\ closing = "marking"
    /\ closing' = "waiting" /\ doomed' = FALSE
    /\ job' = IF doomed THEN [job EXCEPT !.status = "failed"] ELSE job
    /\ UNCHANGED <<disk, clients, prep, del, before, faults>>

\* shutdown(wait=True, cancel_futures=True) returns: a queued job never runs.  The
\* backend is started again.
CloseReturns ==
    /\ closing = "waiting" /\ prep.pc = "idle"
    /\ closing' = "open" /\ job' = NoJob /\ uses' = {}
    /\ UNCHANGED <<disk, doomed, profiles, prep, del, before, faults>>

(***************************************************************************)
(* prepare_huggingface_model.                                              *)
(***************************************************************************)
Known(reg, k) == IF reg[k] # Absent THEN reg[k] ELSE Builtins[k]
Matches(a, r) == a.repo = r /\ a.state # "unmarked"

\* Mutant: an asset already there is taken without reading its marker.
Refused_NoMarker(k, r) ==
    \/ Known(registered, k) \notin {Absent, r}
    \/ \E m \in Keys \ {k} : Known(registered, m) = r

Refused(k, r) ==
    \/ Known(registered, k) \notin {Absent, r}
    \/ \E m \in Keys \ {k} : Known(registered, m) = r
    \/ asset["source"][k] # Absent /\ ~Matches(asset["source"][k], r)
    \/ job.convert /\ asset["runtime"][k] # Absent /\ ~Matches(asset["runtime"][k], r)

\* Mutant: the failure is not recorded on the job.
PrepFails_Silent == prep' = Resting /\ before' = {} /\ UNCHANGED job

\* Mutant: the preparation goes on after its failure is recorded.
PrepFails_GoesOn == UNCHANGED prep /\ before' = {} /\ Finish("failed")

PrepFails == prep' = Resting /\ before' = {} /\ Finish("failed")

\* The checks, up to mkdtemp; the registry is read here and written at the end.
Check ==
    /\ prep.pc = "check"
    /\ \/ Refused(job.key, job.repo) /\ PrepFails
       \/ /\ ~Refused(job.key, job.repo)
          /\ prep' = [prep EXCEPT !.pc = "build", !.seen = registered,
                                  !.had = {p \in Parts : asset[p][job.key] # Absent}]
          /\ UNCHANGED <<job, before>>
    /\ UNCHANGED <<disk, closing, doomed, clients, del, faults>>

\* Inspection, mkdtemp, download, conversion or verification fails: no asset is out yet.
BuildFails ==
    /\ prep.pc \in {"check", "build"}
    /\ Fault /\ PrepFails
    /\ UNCHANGED <<disk, closing, doomed, clients, del>>

Build ==
    /\ prep.pc = "build"
    /\ prep' = [prep EXCEPT !.pc = "publishSource"]
    /\ UNCHANGED <<disk, service, clients, del, before, faults>>

Publish(part) ==
    /\ asset' = Store(part, job.key, Asset(job.repo, "whole"))
    /\ prep' = [prep EXCEPT !.published = @ \cup {part},
                            !.pc = IF part = "source" THEN "publishRuntime" ELSE "register"]

PublishSource ==
    /\ prep.pc = "publishSource"
    /\ IF "source" \in prep.had
       THEN prep' = [prep EXCEPT !.pc = "publishRuntime"] /\ UNCHANGED asset
       ELSE Publish("source")
    /\ UNCHANGED <<registered, leftover, service, clients, del, before, faults>>

PublishRuntime ==
    /\ prep.pc = "publishRuntime"
    /\ IF ~job.convert \/ "runtime" \in prep.had
       THEN prep' = [prep EXCEPT !.pc = "register"] /\ UNCHANGED asset
       ELSE Publish("runtime")
    /\ UNCHANGED <<registered, leftover, service, clients, del, before, faults>>

Register ==
    /\ prep.pc = "register"
    /\ registered' = [prep.seen EXCEPT ![job.key] = job.repo]
    /\ prep' = Resting /\ Finish("completed") /\ before' = {}
    /\ UNCHANGED <<asset, leftover, closing, doomed, clients, del, faults>>

PublishFails ==
    /\ prep.pc \in {"publishSource", "publishRuntime", "register"}
    /\ Fault
    /\ prep' = [prep EXCEPT !.pc = "rollback"]
    /\ UNCHANGED <<disk, service, clients, del, before>>

Unpublish == prep.published

\* The handler of OSError: rmtree of what was published, errors ignored, then fail.
PrepRollback ==
    /\ prep.pc = "rollback"
    /\ \/ /\ asset' = [p \in Parts |-> IF p \in Unpublish
                                      THEN [asset[p] EXCEPT ![job.key] = Absent] ELSE asset[p]]
          /\ UNCHANGED faults
       \/ \E q \in Unpublish : \E torn \in Remains(job.repo) :
            /\ Fault
            /\ asset' = [p \in Parts |-> IF p \in Unpublish
                                        THEN [asset[p] EXCEPT ![job.key] =
                                                IF p = q THEN torn ELSE Absent]
                                        ELSE asset[p]]
    /\ PrepFails
    /\ UNCHANGED <<registered, leftover, closing, doomed, clients, del>>

(***************************************************************************)
(* delete_local_model, under the route's registry lock and the service's   *)
(* lock.  Admitting a run takes the registry lock; saving a profile        *)
(* (backend/api/routes/profiles.py) does not.                              *)
(***************************************************************************)
HasLocal(k) == registered[k] # Absent \/ \E p \in Parts : asset[p][k] # Absent

Deletable(k) == k \notin uses \cup profiles /\ HasLocal(k) /\ ~Active

DeleteBegins(k) ==
    /\ closing = "open" /\ del.pc = "idle" /\ Deletable(k)
    /\ del' = [pc |-> "source", key |-> k, held |-> [p \in Parts |-> Absent]]
    /\ before' = {Snapshot}
    /\ UNCHANGED <<disk, service, clients, prep, faults>>

\* os.replace of one asset into the stage.
DeleteMoves(part) ==
    /\ del.pc = part
    /\ asset' = Store(part, del.key, Absent)
    /\ del' = [del EXCEPT !.pc = IF part = "source" THEN "runtime" ELSE "registry",
                          !.held[part] = asset[part][del.key]]
    /\ UNCHANGED <<registered, leftover, service, clients, prep, before, faults>>

DeleteUnregisters ==
    /\ del.pc = "registry"
    /\ registered' = [registered EXCEPT ![del.key] = Absent]
    /\ del' = [del EXCEPT !.pc = "clean"]
    /\ UNCHANGED <<asset, leftover, service, clients, prep, before, faults>>

DeleteFails ==
    /\ del.pc \in {"source", "runtime", "registry"}
    /\ del.pc = "runtime" => asset["runtime"][del.key] # Absent
    /\ del.pc = "registry" => registered[del.key] # Absent
    /\ Fault
    /\ del' = [del EXCEPT !.pc = "restoreRuntime"]
    /\ UNCHANGED <<disk, service, clients, prep, before>>

\* Move one asset back; when the rename fails the stage keeps it.
DeleteRestores(pc, part, next) ==
    /\ del.pc = pc
    /\ \/ /\ asset' = IF del.held[part] = Absent THEN asset
                      ELSE Store(part, del.key, del.held[part])
          /\ del' = [del EXCEPT !.pc = next, !.held[part] = Absent]
          /\ UNCHANGED faults
       \/ /\ del.held[part] # Absent /\ Fault
          /\ del' = [del EXCEPT !.pc = next]
          /\ UNCHANGED asset
    /\ UNCHANGED <<registered, leftover, service, clients, prep, before>>

Stage == [key |-> del.key, held |-> del.held]
Holding == \E p \in Parts : del.held[p] # Absent

\* Mutant: the stage is removed whether or not the rollback emptied it.
KeptStages_Removed == leftover
\* The stage is removed only when every rename back succeeded.
KeptStages == IF Holding THEN leftover \cup {Stage} ELSE leftover

DeleteGivesUp ==
    /\ del.pc = "failed"
    /\ leftover' = KeptStages
    /\ del' = NoDelete /\ before' = {}
    /\ UNCHANGED <<registered, asset, service, clients, prep, faults>>

\* The last rmtree; when it fails the request reports it and the stage stays.
DeleteCleans ==
    /\ del.pc = "clean"
    /\ \/ UNCHANGED <<leftover, faults>>
       \/ Fault /\ leftover' = leftover \cup {Stage}
    /\ del' = NoDelete /\ before' = {}
    /\ UNCHANGED <<registered, asset, service, clients, prep>>

(***************************************************************************)
(* The rest of the backend.                                                *)
(***************************************************************************)
BeginUse(k) ==
    /\ del.pc = "idle" /\ uses' = uses \cup {k} /\ uses' # uses
    /\ UNCHANGED <<disk, service, profiles, prep, del, before, faults>>
EndUse(k) ==
    /\ k \in uses /\ uses' = uses \ {k}
    /\ UNCHANGED <<disk, service, profiles, prep, del, before, faults>>
NameInProfile(k) ==
    /\ profiles' = profiles \cup {k} /\ profiles' # profiles
    /\ UNCHANGED <<disk, service, uses, prep, del, before, faults>>
DropFromProfile(k) ==
    /\ k \in profiles /\ profiles' = profiles \ {k}
    /\ UNCHANGED <<disk, service, uses, prep, del, before, faults>>

\* The process dies and starts again: jobs are forgotten and no stage is swept.
BackendDies ==
    /\ Fault
    /\ leftover' = IF Holding THEN leftover \cup {Stage} ELSE leftover
    /\ job' = NoJob /\ closing' = "open" /\ doomed' = FALSE
    /\ prep' = Resting /\ del' = NoDelete /\ uses' = {} /\ before' = {}
    /\ UNCHANGED <<registered, asset, profiles>>

DeleteStep ==
    \/ \E part \in Parts : DeleteMoves(part)
    \/ DeleteUnregisters \/ DeleteFails
    \/ DeleteRestores("restoreRuntime", "runtime", "restoreSource")
    \/ DeleteRestores("restoreSource", "source", "failed")
    \/ DeleteGivesUp \/ DeleteCleans
PrepStep ==
    \/ Check \/ BuildFails \/ Build \/ PublishSource \/ PublishRuntime
    \/ Register \/ PublishFails \/ PrepRollback
CloseStep == CloseMarks \/ CloseReturns

ModelsNext ==
    \/ \E q \in Requests : StartJob(q[1], q[2], q[3])
    \/ RunJob \/ PrepStep
    \/ \E k \in Keys : DeleteBegins(k)
    \/ DeleteStep
    \/ CloseBegins \/ CloseStep
    \/ \E k \in Started : BeginUse(k) \/ EndUse(k)
    \/ \E k \in Named : NameInProfile(k) \/ DropFromProfile(k)
    \/ BackendDies

ModelsSpec == ModelsInit /\ [][ModelsNext]_modelsVars

\* The executor's thread, the request's thread and shutdown's thread keep running.
FairModels ==
    /\ ModelsSpec
    /\ WF_modelsVars(RunJob) /\ WF_modelsVars(PrepStep)
    /\ WF_modelsVars(DeleteStep) /\ WF_modelsVars(CloseStep)

(***************************************************************************)
(* What the store promises.                                                *)
(***************************************************************************)
\* Every variable stays in its set: assets, jobs and stages as the code makes them.
ModelsTypeOK ==
    /\ registered \in [Keys -> Repos \cup {Absent}]
    /\ asset \in [Parts -> [Keys -> Assets]]
    /\ \A s \in leftover : s.key \in Keys /\ s.held \in [Parts -> Assets]
    /\ uses \subseteq Keys /\ profiles \subseteq Keys
    /\ job.status \in {"none", "queued", "running", "completed", "failed"}
    /\ Active => job.key \in Keys /\ job.repo \in Repos /\ job.convert \in BOOLEAN
    /\ closing \in {"open", "marking", "waiting"} /\ doomed \in BOOLEAN
    /\ prep.pc # "idle" => job.key \in Keys
    /\ prep.seen \in [Keys -> Repos \cup {Absent}]
    /\ prep.had \subseteq Parts /\ prep.published \subseteq Parts
    /\ del.pc # "idle" => del.key \in Keys
    /\ del.held \in [Parts -> Assets]

\* No repository has two keys, and the checkpoint under a registered key came from the
\* repository the registry names, after any mix of failures, crashes and later jobs.
\* (A download does not look at the runtime artifact, so nothing holds of that one.)
OneOwner ==
    /\ \A k, m \in Keys :
         registered[k] # Absent /\ Known(registered, k) = Known(registered, m) => k = m
    /\ \A k \in Keys :
         registered[k] # Absent /\ asset["source"][k] # Absent =>
           asset["source"][k].repo = registered[k]

\* A registered key has its source checkpoint, unless a deletion's stage holds it: the
\* registry a job read before its download is still the registry it replaces.
StageHolds(k) ==
    \/ del.key = k /\ del.held["source"] # Absent
    \/ \E s \in leftover : s.key = k /\ s.held["source"] # Absent
RegisteredBacked ==
    \A k \in Keys : registered[k] # Absent => asset["source"][k] # Absent \/ StageHolds(k)

\* A deletion never works on a key an active run uses, nor beside a preparation, though
\* the two guards are read under different locks before the first rename.
DeletesAlone == del.pc # "idle" => del.key \notin uses /\ prep.pc = "idle"

\* The three together: what is registered belongs to one key and is on disk, and what is
\* deleted is in nobody's hands.
AssetsOwned == OneOwner /\ RegisteredBacked /\ DeletesAlone

\* A preparation that fails leaves the directory as it found it, up to what its own rmtree
\* could not remove; a deletion that fails or dies half way leaves the registry as it was
\* and every asset either in place or in a stage that is kept.
Unharmed(was, now, p, k) ==
    now[p][k] = was[p][k] \/ (was[p][k] = Absent /\ now[p][k].state \in Torn)
Kept(was, now, stages, p, k) ==
    now[p][k] = was[p][k] \/ \E s \in stages : s.key = k /\ s.held[p] = was[p][k]
FailureKeepsAssets ==
    [][\A was \in before :
         /\ prep.pc # "idle" /\ prep'.pc = "idle" /\ job'.status = "failed" =>
              /\ registered' = was.registry
              /\ \A p \in Parts, k \in Keys : Unharmed(was.asset, asset', p, k)
         /\ del.pc \notin {"idle", "clean"} /\ del'.pc = "idle" =>
              /\ registered' = was.registry
              /\ \A p \in Parts, k \in Keys : Kept(was.asset, asset', leftover', p, k)]_modelsVars

\* Every job ends, so that the next job and deletions are not refused for ever; every
\* deletion ends and releases run admission; a close that began returns.
OperationsEnd ==
    /\ Active ~> ~Active
    /\ del.pc # "idle" ~> del.pc = "idle"
    /\ closing = "marking" ~> closing = "open"

\* "Block deletion ... while a saved profile references it" (.scratch/model-management/
\* spec.md:34): no asset leaves its place while a profile names its key.
ProfilesBlockDeletion ==
    [][\A p \in Parts, k \in Keys :
         asset[p][k] # Absent /\ asset'[p][k] = Absent /\ del.pc = p => k \notin profiles]_modelsVars
=============================================================================
