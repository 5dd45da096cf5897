---------------------------- MODULE ProfileStore ----------------------------
(***************************************************************************)
(* Saved profiles and destinations: backend/profile_store.py and           *)
(* profile_credentials.py, the routes over them and the in-memory          *)
(* destination registry of backend/dependencies.py.  Several backend       *)
(* processes may share one SQLite file.  A write is one transaction under  *)
(* BEGIN IMMEDIATE; the routes' own checks happen before it.  On its first *)
(* use a process migrates the file: the "model" column is the one modelled *)
(* (the other columns need no value of their own, or get it the same way). *)
(*                                                                         *)
(* A row's password is the number of the key that encrypted it, 0 when     *)
(* there is none; its model is "turbo", the column's default, "legacy",    *)
(* what SPEECH_TO_TEXT_MODEL named, or "chosen", what a request saved.     *)
(***************************************************************************)
EXTENDS Integers, FiniteSets

CONSTANTS
    Procs,          \* backend processes on one database file
    Threads, ProcOf,    \* request threads and the process of each
    Profiles,       \* profile ids; a request that creates one takes a free id
    Names,          \* normalized names
    Dests,          \* destination ids, each created at most once (uuid4)
    None,
    Legacy,         \* profiles an old database may already hold
    MaxKeys,        \* bound: credential keys ever generated
    MaxCrashes      \* bound: deaths of a process

ASSUME ProfileAssumption ==
    /\ ProcOf \in [Threads -> Procs] /\ Legacy \subseteq Profiles
    /\ None \notin Procs \cup Profiles \cup Names \cup Dests
    /\ Cardinality(Legacy) <= Cardinality(Names)
    /\ MaxKeys \in Nat /\ MaxCrashes \in Nat

VARIABLES
    hasModel,   \* workflow_profiles has the column "model"
    rows,       \* workflow_profiles
    dests,      \* workflow_destinations
    used,       \* destination ids ever created
    txn,        \* the process whose migration holds an open transaction
    key,        \* the key in the .key file, 0 when there is no file
    keysMade,
    conn,       \* how far each process has opened the database
    registry,   \* runtime.destination_registry of each process
    req,        \* what each thread is doing
    crashes

tables == <<hasModel, rows, dests, used>>
keys == <<key, keysMade>>
procs == <<txn, conn>>
vars == <<tables, keys, procs, registry, req, crashes>>

Row(name, dest, model, k) == [name |-> name, dest |-> dest, model |-> model, key |-> k]
RowSet == [name : Names, dest : Dests \cup {None}, model : {"turbo", "legacy", "chosen"},
           key : 0 .. MaxKeys]
NoReq == [pc |-> "idle", id |-> None, name |-> None, dest |-> None, password |-> "none",
          seen |-> {}]

Saved == {id \in Profiles : rows[id] # None}
Referenced(d) == \E id \in Saved : rows[id].dest = d
Ready(t) == conn[ProcOf[t]] = "ready"
Idle(t) == Ready(t) /\ req[t] = NoReq
At(t, pc) == Ready(t) /\ req[t].pc = pc
\* A writer waits while a migration's transaction is open.
Unlocked == txn = None
Done(t) == req' = [req EXCEPT ![t] = NoReq]

OldRows ==
    {[id \in Profiles |-> IF id \in Legacy THEN Row(f[id], None, "turbo", 0) ELSE None] :
       f \in {g \in [Legacy -> Names] : \A a, b \in Legacy : g[a] = g[b] => a = b}}

Init ==
    /\ \/ hasModel = FALSE /\ rows \in OldRows
       \/ hasModel = TRUE /\ rows = [id \in Profiles |-> None]
    /\ dests = {} /\ used = {} /\ key = 0 /\ keysMade = 0
    /\ txn = None /\ conn = [p \in Procs |-> "none"]
    /\ registry = [p \in Procs |-> {}]
    /\ req = [t \in Threads |-> NoReq] /\ crashes = 0

(***************************************************************************)
(* Opening the database: _db, reached from the runtime's constructor.      *)
(* ALTER TABLE commits at once; UPDATE opens a transaction that lasts to   *)
(* the commit at the end.                                                  *)
(***************************************************************************)
Inspect(p) ==
    /\ conn[p] = "none"
    /\ conn' = [conn EXCEPT ![p] = IF hasModel THEN "open" ELSE "inspected"]
    /\ UNCHANGED <<tables, keys, txn, registry, req, crashes>>

\* The error for a column another process added meanwhile is not tolerated here.
AddColumn(p) ==
    /\ conn[p] = "inspected" /\ Unlocked
    /\ conn' = [conn EXCEPT ![p] = IF hasModel THEN "none" ELSE "altered"]
    /\ hasModel' = TRUE
    /\ UNCHANGED <<rows, dests, used, keys, txn, registry, req, crashes>>

BeginFreeze(p) ==
    /\ conn[p] = "altered" /\ Unlocked
    /\ txn' = p /\ conn' = [conn EXCEPT ![p] = "freezing"]
    /\ UNCHANGED <<tables, keys, registry, req, crashes>>

CommitSchema(p) ==
    /\ conn[p] = "freezing"
    /\ rows' = [id \in Profiles |->
                  IF id \in Saved THEN [rows[id] EXCEPT !.model = "legacy"] ELSE None]
    /\ txn' = None /\ conn' = [conn EXCEPT ![p] = "open"]
    /\ UNCHANGED <<hasModel, dests, used, keys, registry, req, crashes>>

LoadRegistry(p) ==
    /\ conn[p] = "open"
    /\ conn' = [conn EXCEPT ![p] = "ready"]
    /\ registry' = [registry EXCEPT ![p] = dests]
    /\ UNCHANGED <<tables, keys, txn, req, crashes>>

Rollback(p) == IF txn = p THEN None ELSE txn

Crash(p) ==
    /\ crashes < MaxCrashes /\ crashes' = crashes + 1 /\ conn[p] # "none"
    /\ txn' = Rollback(p) /\ conn' = [conn EXCEPT ![p] = "none"]
    /\ registry' = [registry EXCEPT ![p] = {}]
    /\ req' = [t \in Threads |-> IF ProcOf[t] = p THEN NoReq ELSE req[t]]
    /\ UNCHANGED <<tables, keys>>

(***************************************************************************)
(* The credential key: read from its file at every use, made on demand by  *)
(* a hard link that never replaces one.                                    *)
(***************************************************************************)
KeyLost ==
    /\ key # 0 /\ key' = 0
    /\ UNCHANGED <<tables, keysMade, procs, registry, req, crashes>>

\* Mutant: a new password is encrypted without trying the ones already saved.
CanEncrypt_Untried == key # 0 \/ keysMade < MaxKeys

\* _validate_existing_credentials decrypts one saved password; then encrypt.
CanEncrypt ==
    LET coded == {id \in Saved : rows[id].key # 0}
    IN  /\ coded # {} => \E id \in coded : key = rows[id].key
        /\ key # 0 \/ keysMade < MaxKeys

Encrypt ==
    IF key # 0 THEN UNCHANGED keys ELSE key' = keysMade + 1 /\ keysMade' = keysMade + 1

(***************************************************************************)
(* Profiles.                                                               *)
(***************************************************************************)
\* _profile_data: the destination is looked up in the process's registry.
AskProfile(t, id, name, dest, password) ==
    /\ Idle(t) /\ dest \in registry[ProcOf[t]] \cup {None}
    /\ req' = [req EXCEPT ![t] = [NoReq EXCEPT !.pc = "saveProfile", !.id = id, !.name = name,
                                               !.dest = dest, !.password = password]]
    /\ UNCHANGED <<tables, keys, procs, registry, crashes>>

\* Mutant: the name is compared when the request is read, not in the transaction.
NameAvailable_Asked(t) == TRUE
NameAvailable(t) == \A id \in Saved \ {req[t].id} : rows[id].name # req[t].name

\* Mutant: the route's look at the registry is taken to be enough.
DestinationExists_Asked(t) == req[t].dest \in registry[ProcOf[t]] \cup {None}
DestinationExists(t) == req[t].dest \in dests \cup {None}

\* create_profile inserts a row under a fresh id, with a password or none.
CreateProfile(t) ==
    /\ NameAvailable(t) /\ DestinationExists(t)
    /\ req[t].password = "set" => CanEncrypt
    /\ IF req[t].password = "set" THEN Encrypt ELSE UNCHANGED keys
    /\ \E id \in Profiles \ Saved :
         rows' = [rows EXCEPT ![id] = Row(req[t].name, req[t].dest, "chosen",
                                          IF req[t].password = "set" THEN key' ELSE 0)]

\* update_profile keeps the encrypted password when the request has none and the camera
\* is the same ("keep"); a new camera or an empty password drops it ("none").
UpdateProfile(t) ==
    LET id == req[t].id IN
    /\ id \in Saved /\ NameAvailable(t) /\ DestinationExists(t)
    /\ req[t].password = "set" => CanEncrypt
    /\ IF req[t].password = "set" THEN Encrypt ELSE UNCHANGED keys
    /\ rows' = [rows EXCEPT ![id] = Row(req[t].name, req[t].dest, "chosen",
                  CASE req[t].password = "set" -> key'
                    [] req[t].password = "keep" -> rows[id].key
                    [] OTHER -> 0)]

\* The transaction; when it is refused (404, 409, 422 or 503) nothing changes.
SaveProfile(t) ==
    /\ At(t, "saveProfile") /\ Unlocked
    /\ \/ req[t].id = None /\ CreateProfile(t)
       \/ req[t].id # None /\ UpdateProfile(t)
       \/ UNCHANGED <<rows, keys>>
    /\ Done(t)
    /\ UNCHANGED <<hasModel, dests, used, procs, registry, crashes>>

DeleteProfile(t, id) ==
    /\ Idle(t) /\ Unlocked /\ id \in Saved
    /\ rows' = [rows EXCEPT ![id] = None]
    /\ UNCHANGED <<hasModel, dests, used, keys, procs, registry, req, crashes>>

(***************************************************************************)
(* Destinations: the database changes first, then the process that served  *)
(* the request reads its registry again.                                   *)
(***************************************************************************)
AskDestination(t, d, pc) ==
    /\ Idle(t)
    /\ req' = [req EXCEPT ![t] = [NoReq EXCEPT !.pc = pc, !.dest = d]]
    /\ UNCHANGED <<rows, hasModel, dests, keys, procs, registry, crashes>>

CreateDestination(t, d) ==
    d \notin used /\ used' = used \cup {d} /\ AskDestination(t, d, "saveDestination")
ReplaceDestination(t, d) ==
    d \in dests /\ UNCHANGED used /\ AskDestination(t, d, "saveDestination")
RemoveDestination(t, d) ==
    d \in dests /\ ~Referenced(d) /\ UNCHANGED used /\ AskDestination(t, d, "deleteDestination")

\* An upsert: a row deleted since the route looked comes back.
SaveDestination(t) ==
    /\ At(t, "saveDestination") /\ Unlocked
    /\ dests' = dests \cup {req[t].dest}
    /\ req' = [req EXCEPT ![t].pc = "reload"]
    /\ UNCHANGED <<hasModel, rows, used, keys, procs, registry, crashes>>

MayDelete(d) == d \in dests /\ ~Referenced(d)

DeleteDestination(t) ==
    /\ At(t, "deleteDestination") /\ Unlocked
    /\ IF MayDelete(req[t].dest)
       THEN dests' = dests \ {req[t].dest} /\ req' = [req EXCEPT ![t].pc = "reload"]
       ELSE UNCHANGED dests /\ Done(t)
    /\ UNCHANGED <<hasModel, rows, used, keys, procs, registry, crashes>>

\* reload_destination_registry: list, then assign, with no lock across the two.
ListDestinations(t) ==
    /\ At(t, "reload")
    /\ req' = [req EXCEPT ![t].pc = "assign", ![t].seen = dests]
    /\ UNCHANGED <<tables, keys, procs, registry, crashes>>

AssignRegistry(t) ==
    /\ At(t, "assign")
    /\ registry' = [registry EXCEPT ![ProcOf[t]] = req[t].seen]
    /\ Done(t)
    /\ UNCHANGED <<tables, keys, procs, crashes>>

ProcStep(p) ==
    Inspect(p) \/ AddColumn(p) \/ BeginFreeze(p) \/ CommitSchema(p) \/ LoadRegistry(p) \/ Crash(p)

ThreadStep(t) ==
    \/ \E name \in Names, dest \in Dests \cup {None} :
         \/ \E pw \in {"set", "none"} : AskProfile(t, None, name, dest, pw)
         \/ \E id \in Profiles, pw \in {"set", "keep", "none"} : AskProfile(t, id, name, dest, pw)
    \/ SaveProfile(t)
    \/ \E id \in Profiles : DeleteProfile(t, id)
    \/ \E d \in Dests : CreateDestination(t, d) \/ ReplaceDestination(t, d) \/ RemoveDestination(t, d)
    \/ SaveDestination(t) \/ DeleteDestination(t)
    \/ ListDestinations(t) \/ AssignRegistry(t)

Next ==
    \/ \E p \in Procs : ProcStep(p)
    \/ \E t \in Threads : ThreadStep(t)
    \/ KeyLost

Spec == Init /\ [][Next]_vars

(***************************************************************************)
(* What the store promises.                                                *)
(***************************************************************************)
\* Every variable stays in its set, and an open transaction belongs to a live migration.
TypeOK ==
    /\ hasModel \in BOOLEAN
    /\ rows \in [Profiles -> RowSet \cup {None}]
    /\ dests \subseteq used /\ used \subseteq Dests
    /\ key \in 0 .. keysMade /\ keysMade \in 0 .. MaxKeys
    /\ conn \in [Procs -> {"none", "inspected", "altered", "freezing", "open", "ready"}]
    /\ txn # None => txn \in Procs /\ conn[txn] = "freezing"
    /\ registry \in [Procs -> SUBSET Dests]
    /\ \A t \in Threads : req[t].seen \subseteq Dests
    /\ crashes \in 0 .. MaxCrashes

\* No two profiles share a name, whatever requests two processes serve at once.
NamesUnique == \A a, b \in Saved : rows[a].name = rows[b].name => a = b

\* The destination a saved profile names is saved: neither a stale registry in one process
\* nor a deletion in the other leaves a profile pointing at nothing.
DestinationsExist == \A id \in Saved : rows[id].dest \in dests \cup {None}

\* All saved passwords were encrypted under one key, and while a key file is there it is
\* that key: losing the file never leads to a second key beside passwords of the first.
PasswordsOneKey ==
    \A a, b \in Saved :
      rows[a].key # 0 =>
        /\ rows[b].key \in {0, rows[a].key}
        /\ key \in {0, rows[a].key}

\* "Freeze the effective model used by legacy profiles" (profile_store.py:149): a process
\* that serves requests finds no profile with the column's bare default.
LegacyFrozen == \A p \in Procs : conn[p] = "ready" => \A id \in Saved : rows[id].model # "turbo"

\* A model a request chose is not overwritten by another process's migration.
ChoiceKept ==
    [][\A id \in Saved : rows[id].model = "chosen" /\ rows'[id] # None
         => rows'[id].model = "chosen"]_vars

\* With no request under way, a process's registry is what the database holds.
RegistrySettles ==
    \A p \in Procs : conn[p] = "ready" /\ (\A t \in Threads : req[t] = NoReq) => registry[p] = dests
=============================================================================
