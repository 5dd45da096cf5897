------------------------- MODULE ProfileStoreProofs -------------------------
(***************************************************************************)
(* Theorems about ProfileStore for any number of processes, threads,       *)
(* profiles, names, destinations, keys and crashes.  What the store keeps  *)
(* rests on each transaction looking again at what the request relied on.  *)
(* And about ModelStore, the other store on disk (second part).            *)
(***************************************************************************)
EXTENDS ProfileStore, ModelStore, TLAPS

ReqSet == [pc : {"idle", "saveProfile", "saveDestination", "deleteDestination", "reload", "assign"},
           id : Profiles \cup {None}, name : Names \cup {None}, dest : Dests \cup {None},
           password : {"set", "keep", "none"}, seen : SUBSET Dests]

\* What a request carries from its route to its transaction.
ReqInv ==
    /\ req \in [Threads -> ReqSet]
    /\ \A t \in Threads :
         /\ req[t].pc = "saveProfile" => req[t].name \in Names
         /\ req[t].pc \in {"saveDestination", "deleteDestination"} => req[t].dest \in used

StoreInv == TypeOK /\ ReqInv /\ NamesUnique /\ DestinationsExist /\ PasswordsOneKey

\* A thread at rest carries nothing.
LEMMA NoReqTyped == NoReq \in ReqSet /\ NoReq.pc = "idle"
  BY DEF NoReq, ReqSet

\* An old database, or a new one, satisfies the invariant.
LEMMA InitStore == Init => StoreInv
<1>. SUFFICES ASSUME Init PROVE StoreInv
  OBVIOUS
<1>. USE ProfileAssumption DEF Init
<1>1. rows \in [Profiles -> RowSet \cup {None}]
  BY SMTT(30) DEF OldRows, RowSet, Row
<1>3. ReqInv
  BY NoReqTyped DEF ReqInv, NoReq
<1>a. \A t \in Threads : req[t].seen = {}
  BY DEF NoReq
<1>2. TypeOK
  <2>1. /\ rows \in [Profiles -> RowSet \cup {None}] /\ hasModel \in BOOLEAN
        /\ \A t \in Threads : req[t].seen \subseteq Dests
    BY <1>1, <1>a
  <2>2. /\ dests = {} /\ used = {} /\ key = 0 /\ keysMade = 0 /\ crashes = 0 /\ txn = None
        /\ conn = [p \in Procs |-> "none"] /\ registry = [p \in Procs |-> {}]
    OBVIOUS
  <2>. HIDE DEF Init
  <2>3. QED
    BY <2>1, <2>2 DEF TypeOK, ProfileAssumption
<1>4. \A id \in Saved : rows[id].dest = None /\ rows[id].key = 0
  BY SMTT(30) DEF OldRows, Row, Saved
<1>5. NamesUnique
  BY SMTT(30) DEF OldRows, Row, Saved, NamesUnique
<1>6. QED
  BY <1>2, <1>3, <1>4, <1>5 DEF StoreInv, DestinationsExist, PasswordsOneKey, Saved

-----------------------------------------------------------------------------
\* A step that leaves the tables and the key alone keeps what relates them.
LEMMA TablesKept ==
  ASSUME StoreInv, UNCHANGED <<tables, keys>>
  PROVE  NamesUnique' /\ DestinationsExist' /\ PasswordsOneKey'
BY DEF StoreInv, tables, keys, NamesUnique, DestinationsExist, PasswordsOneKey, Saved

\* Requests may come and go while the used ids grow.
LEMMA RequestChanges ==
  ASSUME StoreInv, NEW t \in Threads, NEW r \in ReqSet, req' = [req EXCEPT ![t] = r],
         used \subseteq used',
         r.pc = "saveProfile" => r.name \in Names,
         r.pc \in {"saveDestination", "deleteDestination"} => r.dest \in used'
  PROVE  ReqInv' /\ \A u \in Threads : req'[u].seen \subseteq Dests
<1>1. req' \in [Threads -> ReqSet]
  BY DEF StoreInv, ReqInv
<1>2. \A u \in Threads : req'[u] = IF u = t THEN r ELSE req[u]
  BY DEF StoreInv, ReqInv
<1>3. \A u \in Threads : req'[u].seen \subseteq Dests
  BY <1>1 DEF ReqSet
<1>. QED
  BY <1>1, <1>2, <1>3 DEF StoreInv, ReqInv

\* What opening the database and losing the process or the key do to the invariant.
LEMMA ProcStepStore ==
  ASSUME StoreInv, NEW p \in Procs, ProcStep(p) PROVE StoreInv'
<1>. USE DEF StoreInv
<1>1. CASE Inspect(p)
  BY <1>1, TablesKept DEF Inspect, TypeOK, ReqInv, tables, keys
<1>2. CASE AddColumn(p)
  <2>1. NamesUnique' /\ DestinationsExist' /\ PasswordsOneKey'
    BY <1>2 DEF AddColumn, keys, NamesUnique, DestinationsExist, PasswordsOneKey, Saved
  <2>. QED
    BY <1>2, <2>1 DEF AddColumn, TypeOK, ReqInv, keys, Unlocked
<1>3. CASE BeginFreeze(p)
  BY <1>3, TablesKept DEF BeginFreeze, TypeOK, ReqInv, tables, keys
<1>4. CASE CommitSchema(p)
  <2>1. /\ rows' \in [Profiles -> RowSet \cup {None}]
        /\ \A id \in Saved' : /\ id \in Saved /\ rows'[id].name = rows[id].name
                              /\ rows'[id].dest = rows[id].dest /\ rows'[id].key = rows[id].key
    <3>1. \A id \in Saved : rows[id] \in RowSet
      BY DEF TypeOK, Saved
    <3>2. \A id \in Saved : /\ [rows[id] EXCEPT !.model = "legacy"] \in RowSet
                            /\ [rows[id] EXCEPT !.model = "legacy"].name = rows[id].name
                            /\ [rows[id] EXCEPT !.model = "legacy"].dest = rows[id].dest
                            /\ [rows[id] EXCEPT !.model = "legacy"].key = rows[id].key
      BY <3>1 DEF RowSet
    <3>. QED
      BY <1>4, <3>2 DEF CommitSchema, Saved
  <2>2. NamesUnique' /\ DestinationsExist' /\ PasswordsOneKey'
    BY <1>4, <2>1 DEF CommitSchema, keys, NamesUnique, DestinationsExist, PasswordsOneKey
  <2>. QED
    BY <1>4, <2>1, <2>2 DEF CommitSchema, TypeOK, ReqInv, keys
<1>5. CASE LoadRegistry(p)
  BY <1>5, TablesKept DEF LoadRegistry, TypeOK, ReqInv, tables, keys
<1>6. CASE Crash(p)
  <2>1. ReqInv' /\ \A t \in Threads : req'[t].seen \subseteq Dests
    <3>1. req' \in [Threads -> ReqSet]
      BY <1>6, NoReqTyped DEF Crash, ReqInv
    <3>2. \A t \in Threads : req'[t] \in {NoReq, req[t]}
      BY <1>6 DEF Crash, ReqInv
    <3>. QED
      BY <1>6, <3>1, <3>2, NoReqTyped DEF Crash, ReqInv, ReqSet, tables
  <2>2. TypeOK'
    BY <1>6, <2>1, ProfileAssumption DEF Crash, TypeOK, Rollback, tables, keys, ProfileAssumption
  <2>. QED
    BY <1>6, <2>1, <2>2, TablesKept DEF Crash
<1>. QED
  BY <1>1, <1>2, <1>3, <1>4, <1>5, <1>6 DEF ProcStep

\* Losing the key file leaves the rows alone.
LEMMA KeyLostStore ==
  ASSUME StoreInv, KeyLost PROVE StoreInv'
<1>1. TypeOK' /\ ReqInv'
  BY DEF StoreInv, KeyLost, TypeOK, ReqInv, tables, procs
<1>2. NamesUnique' /\ DestinationsExist' /\ PasswordsOneKey'
  BY DEF StoreInv, KeyLost, NamesUnique, DestinationsExist, PasswordsOneKey, Saved, tables
<1>. QED
  BY <1>1, <1>2 DEF StoreInv

-----------------------------------------------------------------------------
\* A row saved with a password under CanEncrypt and Encrypt, or with none.
LEMMA PasswordKey ==
  ASSUME StoreInv, NEW t \in Threads,
         req[t].password = "set" => CanEncrypt,
         IF req[t].password = "set" THEN Encrypt ELSE UNCHANGED keys
  PROVE  /\ key' \in 0 .. keysMade' /\ keysMade' \in 0 .. MaxKeys
         /\ req[t].password = "set" => \A a \in Saved : rows[a].key \in {0, key'}
         /\ \A a \in Saved : rows[a].key # 0 => key' \in {0, rows[a].key}
<1>1. /\ key \in 0 .. keysMade /\ keysMade \in 0 .. MaxKeys /\ MaxKeys \in Nat
      /\ \A a \in Saved : rows[a].key \in 0 .. MaxKeys
  BY ProfileAssumption DEF StoreInv, TypeOK, Saved, RowSet, ProfileAssumption
<1>2. CASE req[t].password # "set"
  BY <1>1, <1>2 DEF keys, StoreInv, PasswordsOneKey
<1>3. CASE req[t].password = "set"
  <2>1. CanEncrypt /\ Encrypt
    BY <1>3
  <2>2. /\ key' \in 0 .. keysMade' /\ keysMade' \in 0 .. MaxKeys
        /\ key # 0 => key' = key
    BY <1>1, <2>1 DEF CanEncrypt, Encrypt, keys
  <2>3. \A a \in Saved : rows[a].key # 0 => key = rows[a].key
    BY <2>1 DEF CanEncrypt, StoreInv, PasswordsOneKey
  <2>. QED
    BY <1>3, <2>2, <2>3
<1>. QED
  BY <1>2, <1>3

\* Saving one row whose name is free, whose destination exists and whose key fits.
LEMMA RowSaved ==
  ASSUME StoreInv, NEW id \in Profiles, NEW r \in RowSet,
         rows' = [rows EXCEPT ![id] = r], dests' = dests,
         \A a \in Saved \ {id} : rows[a].name # r.name,
         r.dest \in dests \cup {None},
         r.key # 0 => /\ \A a \in Saved : rows[a].key \in {0, r.key}
                      /\ key' \in {0, r.key},
         \A a \in Saved : rows[a].key # 0 => key' \in {0, rows[a].key}
  PROVE  /\ rows' \in [Profiles -> RowSet \cup {None}]
         /\ NamesUnique' /\ DestinationsExist' /\ PasswordsOneKey'
<1>1. rows' \in [Profiles -> RowSet \cup {None}] /\ rows'[id] = r
      /\ \A a \in Profiles \ {id} : rows'[a] = rows[a]
  BY DEF StoreInv, TypeOK
<1>2. Saved' \subseteq Saved \cup {id}
  BY <1>1 DEF Saved
<1>3. NamesUnique'
  BY <1>1, <1>2 DEF NamesUnique, StoreInv, Saved
<1>4. DestinationsExist'
  BY <1>1, <1>2 DEF DestinationsExist, StoreInv, Saved
<1>5. PasswordsOneKey'
  BY <1>1, <1>2 DEF PasswordsOneKey, StoreInv, Saved
<1>. QED
  BY <1>1, <1>3, <1>4, <1>5

\* The transaction that creates or replaces a profile, or is refused.
LEMMA SaveProfileStore ==
  ASSUME StoreInv, NEW t \in Threads, SaveProfile(t) PROVE StoreInv'
<1>1. req[t] \in ReqSet /\ req[t].name \in Names
  BY DEF StoreInv, ReqInv, SaveProfile, At
<1>2. ReqInv' /\ \A u \in Threads : req'[u].seen \subseteq Dests
  BY RequestChanges, NoReqTyped DEF SaveProfile, Done
<1>3. /\ rows' \in [Profiles -> RowSet \cup {None}]
      /\ key' \in 0 .. keysMade' /\ keysMade' \in 0 .. MaxKeys
      /\ NamesUnique' /\ DestinationsExist' /\ PasswordsOneKey'
  <2>1. CASE req[t].id = None /\ CreateProfile(t)
    <3>1. /\ key' \in 0 .. keysMade' /\ keysMade' \in 0 .. MaxKeys
          /\ req[t].password = "set" => \A a \in Saved : rows[a].key \in {0, key'}
          /\ \A a \in Saved : rows[a].key # 0 => key' \in {0, rows[a].key}
      BY <2>1, PasswordKey DEF CreateProfile
    <3>2. PICK id \in Profiles \ Saved :
            rows' = [rows EXCEPT ![id] = Row(req[t].name, req[t].dest, "chosen",
                                             IF req[t].password = "set" THEN key' ELSE 0)]
      BY <2>1 DEF CreateProfile
    <3>3. DEFINE r == Row(req[t].name, req[t].dest, "chosen",
                          IF req[t].password = "set" THEN key' ELSE 0)
    <3>4. /\ r \in RowSet /\ r.name = req[t].name /\ r.dest = req[t].dest
          /\ r.key = IF req[t].password = "set" THEN key' ELSE 0
      BY <1>1, <3>1, ProfileAssumption DEF Row, RowSet, ReqSet, ProfileAssumption
    <3>5. /\ \A a \in Saved \ {id} : rows[a].name # r.name
          /\ r.dest \in dests \cup {None}
      <4>1. Saved \ {id} \subseteq Saved \ {req[t].id}
        BY <2>1, ProfileAssumption DEF ProfileAssumption, Saved
      <4>. QED
        BY <2>1, <3>4, <4>1 DEF CreateProfile, NameAvailable, DestinationExists
    <3>6. rows' = [rows EXCEPT ![id] = r] /\ dests' = dests
      BY <3>2 DEF SaveProfile
    <3>. HIDE DEF r
    <3>7. /\ r.key # 0 => (\A a \in Saved : rows[a].key \in {0, r.key}) /\ key' \in {0, r.key}
          /\ id \in Profiles
      BY <3>1, <3>4
    <3>8. /\ rows' \in [Profiles -> RowSet \cup {None}]
          /\ NamesUnique' /\ DestinationsExist' /\ PasswordsOneKey'
      BY <3>1, <3>4, <3>5, <3>6, <3>7, RowSaved
    <3>. QED
      BY <3>1, <3>8
  <2>2. CASE UpdateProfile(t)
    <3>. DEFINE id == req[t].id
                k == CASE req[t].password = "set" -> key'
                       [] req[t].password = "keep" -> rows[id].key
                       [] OTHER -> 0
                r == Row(req[t].name, req[t].dest, "chosen", k)
    <3>1. /\ key' \in 0 .. keysMade' /\ keysMade' \in 0 .. MaxKeys
          /\ req[t].password = "set" => \A a \in Saved : rows[a].key \in {0, key'}
          /\ \A a \in Saved : rows[a].key # 0 => key' \in {0, rows[a].key}
      BY <2>2, PasswordKey DEF UpdateProfile
    <3>2. id \in Saved /\ rows[id] \in RowSet /\ rows' = [rows EXCEPT ![id] = r]
      BY <2>2 DEF UpdateProfile, Saved, StoreInv, TypeOK
    <3>3. /\ k \in 0 .. MaxKeys
          /\ k # 0 => (\A a \in Saved : rows[a].key \in {0, k}) /\ key' \in {0, k}
      <4>1. CASE req[t].password = "set"
        <5>1. k = key'
          BY <4>1
        <5>. QED
          BY <3>1, <4>1, <5>1, ProfileAssumption DEF ProfileAssumption
      <4>2. CASE req[t].password = "keep"
        <5>1. k = rows[id].key
          BY <4>2
        <5>. QED
          BY <3>1, <3>2, <5>1 DEF RowSet, StoreInv, PasswordsOneKey
      <4>3. CASE req[t].password \notin {"set", "keep"}
        BY <4>3, ProfileAssumption DEF ProfileAssumption
      <4>. QED
        BY <4>1, <4>2, <4>3
    <3>. HIDE DEF k
    <3>4. r \in RowSet /\ r.name = req[t].name /\ r.dest = req[t].dest /\ r.key = k
      BY <1>1, <3>3 DEF Row, RowSet, ReqSet
    <3>5. /\ \A a \in Saved \ {id} : rows[a].name # r.name
          /\ r.dest \in dests \cup {None}
      BY <2>2, <3>4 DEF UpdateProfile, NameAvailable, DestinationExists
    <3>. HIDE DEF r, id
    <3>6. id \in Profiles /\ dests' = dests
      BY <3>2 DEF Saved, SaveProfile
    <3>7. r.key # 0 => (\A a \in Saved : rows[a].key \in {0, r.key}) /\ key' \in {0, r.key}
      BY <3>3, <3>4
    <3>8. /\ rows' \in [Profiles -> RowSet \cup {None}]
          /\ NamesUnique' /\ DestinationsExist' /\ PasswordsOneKey'
      BY <3>1, <3>2, <3>4, <3>5, <3>6, <3>7, RowSaved
    <3>. QED
      BY <3>1, <3>8
  <2>3. CASE UNCHANGED <<rows, keys>>
    <3>1. UNCHANGED <<tables, keys>>
      BY <2>3 DEF SaveProfile, tables
    <3>. QED
      BY <2>3, <3>1, TablesKept DEF StoreInv, TypeOK, keys
  <2>. QED
    BY <2>1, <2>2, <2>3 DEF SaveProfile
<1>4. TypeOK'
  BY <1>2, <1>3 DEF SaveProfile, StoreInv, TypeOK, procs
<1>. QED
  BY <1>2, <1>3, <1>4 DEF StoreInv

\* The requests' own steps and the destinations' transactions.
LEMMA ThreadStepStore ==
  ASSUME StoreInv, NEW t \in Threads, ThreadStep(t) PROVE StoreInv'
<1>. USE DEF StoreInv
<1>1. ASSUME NEW id \in Profiles \cup {None}, NEW name \in Names, NEW dest \in Dests \cup {None},
             NEW password \in {"set", "keep", "none"}, AskProfile(t, id, name, dest, password)
      PROVE  StoreInv'
  <2>. DEFINE r == [NoReq EXCEPT !.pc = "saveProfile", !.id = id, !.name = name, !.dest = dest,
                                 !.password = password]
  <2>1. r \in ReqSet /\ r.pc = "saveProfile" /\ r.name = name
    BY DEF NoReq, ReqSet
  <2>2. req' = [req EXCEPT ![t] = r] /\ used' = used
    BY <1>1 DEF AskProfile, tables
  <2>. HIDE DEF r
  <2>3. ReqInv' /\ \A u \in Threads : req'[u].seen \subseteq Dests
    BY <2>1, <2>2, RequestChanges
  <2>. QED
    BY <1>1, <2>3, TablesKept DEF AskProfile, TypeOK, tables, keys, procs
<1>2. CASE SaveProfile(t)
  BY <1>2, SaveProfileStore
<1>3. ASSUME NEW id \in Profiles, DeleteProfile(t, id) PROVE StoreInv'
  <2>1. /\ rows' \in [Profiles -> RowSet \cup {None}] /\ Saved' = Saved \ {id}
        /\ \A a \in Saved' : rows'[a] = rows[a]
    BY <1>3 DEF DeleteProfile, TypeOK, Saved
  <2>2. NamesUnique' /\ DestinationsExist' /\ PasswordsOneKey'
    BY <1>3, <2>1 DEF DeleteProfile, NamesUnique, DestinationsExist, PasswordsOneKey, keys
  <2>. QED
    BY <1>3, <2>1, <2>2 DEF DeleteProfile, TypeOK, ReqInv, keys, procs
<1>4. ASSUME NEW d \in Dests,
             CreateDestination(t, d) \/ ReplaceDestination(t, d) \/ RemoveDestination(t, d)
      PROVE  StoreInv'
  <2>1. PICK pc \in {"saveDestination", "deleteDestination"} :
           /\ AskDestination(t, d, pc) /\ used \subseteq used' /\ d \in used' /\ used' \subseteq Dests
    BY <1>4 DEF CreateDestination, ReplaceDestination, RemoveDestination, TypeOK
  <2>. DEFINE r == [NoReq EXCEPT !.pc = pc, !.dest = d]
  <2>2. r \in ReqSet /\ r.pc = pc /\ r.dest = d
    BY DEF NoReq, ReqSet
  <2>3. req' = [req EXCEPT ![t] = r]
    BY <2>1 DEF AskDestination
  <2>. HIDE DEF r
  <2>4. ReqInv' /\ \A u \in Threads : req'[u].seen \subseteq Dests
    BY <2>1, <2>2, <2>3, RequestChanges
  <2>5. NamesUnique' /\ DestinationsExist' /\ PasswordsOneKey'
    BY <2>1 DEF AskDestination, keys, NamesUnique, DestinationsExist, PasswordsOneKey, Saved
  <2>. QED
    BY <2>1, <2>4, <2>5 DEF AskDestination, TypeOK, keys, procs
<1>5. CASE SaveDestination(t)
  <2>. DEFINE r == [req[t] EXCEPT !.pc = "reload"]
  <2>1. req[t] \in ReqSet /\ req[t].dest \in used
    BY <1>5 DEF SaveDestination, At, ReqInv
  <2>2. r \in ReqSet /\ r.pc = "reload"
    BY <2>1 DEF ReqSet
  <2>3. req' = [req EXCEPT ![t] = r] /\ used' = used
    BY <1>5 DEF SaveDestination
  <2>. HIDE DEF r
  <2>4. ReqInv' /\ \A u \in Threads : req'[u].seen \subseteq Dests
    BY <2>2, <2>3, RequestChanges
  <2>5. NamesUnique' /\ DestinationsExist' /\ PasswordsOneKey'
    BY <1>5 DEF SaveDestination, keys, NamesUnique, DestinationsExist, PasswordsOneKey, Saved
  <2>. QED
    BY <1>5, <2>1, <2>4, <2>5 DEF SaveDestination, TypeOK, keys, procs
<1>6. CASE DeleteDestination(t)
  <2>1. req[t] \in ReqSet
    BY DEF ReqInv
  <2>2. PICK r \in ReqSet : req' = [req EXCEPT ![t] = r] /\ r.pc \in {"reload", "idle"}
    <3>1. [req[t] EXCEPT !.pc = "reload"] \in ReqSet /\ [req[t] EXCEPT !.pc = "reload"].pc = "reload"
      BY <2>1 DEF ReqSet
    <3>2. req' = [req EXCEPT ![t] = [req[t] EXCEPT !.pc = "reload"]] \/ req' = [req EXCEPT ![t] = NoReq]
      BY <1>6 DEF DeleteDestination, Done
    <3>. QED
      BY <3>1, <3>2, NoReqTyped
  <2>3. ReqInv' /\ \A u \in Threads : req'[u].seen \subseteq Dests
    BY <1>6, <2>2, RequestChanges DEF DeleteDestination
  <2>4. DestinationsExist'
    BY <1>6 DEF DeleteDestination, MayDelete, Referenced, DestinationsExist, Saved
  <2>5. NamesUnique' /\ PasswordsOneKey'
    BY <1>6 DEF DeleteDestination, keys, NamesUnique, PasswordsOneKey, Saved
  <2>. QED
    BY <1>6, <2>3, <2>4, <2>5 DEF DeleteDestination, TypeOK, keys, procs
<1>7. CASE ListDestinations(t)
  <2>. DEFINE r == [req[t] EXCEPT !.pc = "assign", !.seen = dests]
  <2>1. r \in ReqSet /\ r.pc = "assign"
    BY DEF ReqInv, ReqSet, TypeOK
  <2>2. req' = [req EXCEPT ![t] = r] /\ used' = used
    BY <1>7 DEF ListDestinations, tables
  <2>. HIDE DEF r
  <2>3. ReqInv' /\ \A u \in Threads : req'[u].seen \subseteq Dests
    BY <2>1, <2>2, RequestChanges
  <2>. QED
    BY <1>7, <2>3, TablesKept DEF ListDestinations, TypeOK, tables, keys, procs
<1>8. CASE AssignRegistry(t)
  <2>1. ReqInv' /\ \A u \in Threads : req'[u].seen \subseteq Dests
    BY <1>8, NoReqTyped, RequestChanges DEF AssignRegistry, Done, tables
  <2>. QED
    BY <1>8, <2>1, TablesKept DEF AssignRegistry, TypeOK, tables, keys, procs
<1>. QED
  BY <1>1, <1>2, <1>3, <1>4, <1>5, <1>6, <1>7, <1>8 DEF ThreadStep

\* The invariant of the store holds in every state.
THEOREM StoreInvariant == Spec => []StoreInv
<1>1. StoreInv /\ [Next]_vars => StoreInv'
  <2>1. ASSUME StoreInv, UNCHANGED vars PROVE StoreInv'
    BY <2>1 DEF StoreInv, TypeOK, ReqInv, NamesUnique, DestinationsExist, PasswordsOneKey, Saved,
                vars, tables, keys, procs
  <2>. QED
    BY <2>1, ProcStepStore, ThreadStepStore, KeyLostStore DEF Next
<1>. QED
  BY <1>1, InitStore, PTL DEF Spec

\* An open migration's transaction belongs to a live process, ids deleted are never used again.
THEOREM TypeCorrect == Spec => []TypeOK
  BY StoreInvariant, PTL DEF StoreInv

\* Two profiles never share a name: _ensure_name_available looks again in the transaction.
THEOREM NamesUniqueAlways == Spec => []NamesUnique
  BY StoreInvariant, PTL DEF StoreInv

\* A profile's destination is saved: both transactions look at the other table.
THEOREM DestinationsExistAlways == Spec => []DestinationsExist
  BY StoreInvariant, PTL DEF StoreInv

\* All saved passwords are of the one key in the key file.
THEOREM PasswordsOneKeyAlways == Spec => []PasswordsOneKey
  BY StoreInvariant, PTL DEF StoreInv

-----------------------------------------------------------------------------
(***************************************************************************)
(* The model store, for any keys, repositories, requests and faults.       *)
(***************************************************************************)
JobStatuses == {"none", "queued", "running", "completed", "failed"}
Publishing == {"build", "publishSource", "publishRuntime", "register", "rollback"}
PrepPlaces == {"idle", "check"} \union Publishing
DelPlaces == {"idle", "source", "runtime", "registry", "clean",
              "restoreRuntime", "restoreSource", "failed"}
Held == [Parts -> Assets]

(* Jobs, operations and stages are records of their kind.                   *)
ShapeInv ==
  /\ registered \in [Keys -> Repos \union {Absent}]
  /\ asset \in [Parts -> [Keys -> Assets]]
  /\ leftover \subseteq [key : Keys, held : Held]
  /\ uses \subseteq Keys /\ profiles \subseteq Keys
  /\ closing \in {"open", "marking", "waiting"} /\ doomed \in BOOLEAN
  /\ job \in [status : JobStatuses, key : Keys \union {Absent}, repo : Repos \union {Absent},
              convert : BOOLEAN]
  /\ prep \in [pc : PrepPlaces, seen : [Keys -> Repos \union {Absent}],
               had : SUBSET Parts, published : SUBSET Parts]
  /\ del \in [pc : DelPlaces, key : Keys \union {Absent}, held : Held]
  /\ del.pc = "idle" => del = NoDelete

(* One operation at a time: a preparation whose job is no longer active has *)
(* a close that waits for it, so that no deletion begins beside it.         *)
TurnInv ==
  /\ Active \/ prep.pc # "idle" => job.key \in Keys /\ job.repo \in Repos
  /\ prep.pc # "idle" => job.status = "running" \/ closing = "waiting"
  /\ job.status = "queued" => prep.pc = "idle"
  /\ del.pc # "idle" =>
       closing = "open" /\ ~Active /\ prep.pc = "idle" /\ del.key \in Keys /\ del.key \notin uses

(* A key that is built in is only ever registered for its own repository.   *)
BuiltinInv == \A k \in Keys : registered[k] # Absent /\ Builtins[k] # Absent => registered[k] = Builtins[k]

(* What a preparation has checked is still so when it publishes.            *)
PrepInv ==
  /\ prep.pc \in {"idle", "check", "build", "publishSource"} => prep.published = {}
  /\ prep.pc = "publishRuntime" => "runtime" \notin prep.published
  /\ prep.pc \in Publishing =>
       /\ prep.seen = registered
       /\ Known(registered, job.key) \in {Absent, job.repo}
       /\ \A m \in Keys \ {job.key} : Known(registered, m) # job.repo
       /\ asset["source"][job.key] # Absent => asset["source"][job.key].repo = job.repo
       /\ "source" \in prep.published /\ registered[job.key] # Absent => StageHolds(job.key)
  /\ prep.pc \in {"build", "publishSource", "publishRuntime"} =>
       \A p \in Parts \ prep.published : p \in prep.had <=> asset[p][job.key] # Absent
  /\ prep.pc \in {"publishRuntime", "register"} => asset["source"][job.key] # Absent

(* What a deletion holds came from the repository of its key.               *)
DelInv ==
  /\ del.held["source"] # Absent /\ registered[del.key] # Absent =>
       del.held["source"].repo = registered[del.key]
  /\ del.pc = "source" => del.held["source"] = Absent
  /\ del.pc \in {"source", "runtime"} => del.held["runtime"] = Absent
  /\ del.pc = "clean" => registered[del.key] = Absent

(* What has changed since the operation began.                              *)
PastInv ==
  \A was \in before :
    /\ prep.pc # "idle" =>
         /\ registered = was.registry
         /\ \A p \in Parts, k \in Keys :
              IF p \in prep.published /\ k = job.key
              THEN was.asset[p][k] = Absent
              ELSE asset[p][k] = was.asset[p][k]
    /\ del.pc \notin {"idle", "clean"} =>
         /\ registered = was.registry
         /\ \A p \in Parts, k \in Keys :
              IF k = del.key /\ del.held[p] # Absent
              THEN del.held[p] = was.asset[p][k]
              ELSE asset[p][k] = was.asset[p][k]

AssetInv == ShapeInv /\ TurnInv /\ BuiltinInv /\ OneOwner /\ RegisteredBacked /\ PrepInv /\ DelInv /\ PastInv

(* An asset is not the absence of one.                                      *)
LEMMA AssetPresent ==
  ASSUME StoreAssumption, NEW r \in Repos, NEW s \in Torn \union {"whole"}
  PROVE  Asset(r, s) \in Assets /\ Asset(r, s) # Absent /\ Asset(r, s).repo = r /\ Asset(r, s).state = s
BY DEF StoreAssumption, Asset, Assets, Torn

(* Every asset names a repository and a state.                              *)
LEMMA AssetShape ==
  ASSUME NEW a \in Assets, a # Absent
  PROVE  a.repo \in Repos /\ a.state \in Torn \union {"whole"}
BY DEF Assets

(* The invariant holds in the empty directory.                              *)
LEMMA StoreStart == ASSUME StoreAssumption, ModelsInit PROVE AssetInv
<1> USE DEF ModelsInit, StoreAssumption
<1>1. ShapeInv
  BY DEF ShapeInv, Assets, Held, Resting, NoJob, NoDelete, JobStatuses, PrepPlaces, DelPlaces, Publishing, Parts
<1>2. TurnInv
  BY DEF TurnInv, Active, NoJob, Resting, NoDelete
<1>3. BuiltinInv /\ OneOwner /\ RegisteredBacked
  BY DEF BuiltinInv, OneOwner, RegisteredBacked
<1>4. PrepInv
  BY DEF PrepInv, Resting, Publishing
<1>5. DelInv
  BY DEF DelInv, NoDelete, Parts
<1>6. PastInv
  BY DEF PastInv
<1> QED
  BY <1>1, <1>2, <1>3, <1>4, <1>5, <1>6 DEF AssetInv

(* Steps that change neither the directory nor the operation on it.         *)
LEMMA StoreRest ==
  ASSUME AssetInv, UNCHANGED <<disk, prep, del, before>>,
         prep.pc # "idle" => job'.key = job.key /\ job'.repo = job.repo
  PROVE  BuiltinInv' /\ OneOwner' /\ RegisteredBacked' /\ PrepInv' /\ DelInv' /\ PastInv'
<1>0. UNCHANGED <<registered, asset, leftover, prep, del, before>>
  BY DEF disk
<1>1. BuiltinInv' /\ OneOwner' /\ RegisteredBacked'
  BY <1>0 DEF AssetInv, BuiltinInv, OneOwner, RegisteredBacked, StageHolds, Known
<1>2. PrepInv'
  <2>1. CASE prep.pc = "idle"
    BY <1>0, <2>1 DEF AssetInv, PrepInv, Publishing
  <2>2. CASE prep.pc # "idle"
    <3>1. job'.key = job.key /\ job'.repo = job.repo
      BY <2>2
    <3> QED
      BY <1>0, <3>1 DEF AssetInv, PrepInv, StageHolds, Known
  <2> QED
    BY <2>1, <2>2
<1>3. DelInv'
  BY <1>0 DEF AssetInv, DelInv
<1>4. PastInv'
  BY <1>0 DEF AssetInv, PastInv
<1> QED
  BY <1>1, <1>2, <1>3, <1>4

(* The service, and the rest of the backend.                                *)
LEMMA StoreOfClients ==
  ASSUME StoreAssumption, AssetInv,
         \/ \E k \in Started : BeginUse(k) \/ EndUse(k)
         \/ \E k \in Named : NameInProfile(k) \/ DropFromProfile(k)
  PROVE  AssetInv'
<1>0. /\ UNCHANGED <<disk, service, prep, del, before>>
      /\ uses' \subseteq Keys /\ profiles' \subseteq Keys /\ (del.pc # "idle" => uses' \subseteq uses)
  BY DEF StoreAssumption, BeginUse, EndUse, NameInProfile, DropFromProfile, AssetInv, ShapeInv
<1>1. BuiltinInv' /\ OneOwner' /\ RegisteredBacked' /\ PrepInv' /\ DelInv' /\ PastInv'
  BY <1>0, StoreRest DEF service
<1>2. ShapeInv' /\ TurnInv'
  BY <1>0 DEF disk, service, AssetInv, ShapeInv, TurnInv, Active
<1> QED
  BY <1>1, <1>2 DEF AssetInv

(* A job is asked for, and close() goes its way: nothing on disk changes.   *)
LEMMA StoreOfService ==
  ASSUME StoreAssumption, AssetInv,
         \/ \E q \in Requests : StartJob(q[1], q[2], q[3])
         \/ CloseBegins \/ CloseMarks \/ CloseReturns
  PROVE  AssetInv'
<1>1. CASE \E q \in Requests : StartJob(q[1], q[2], q[3])
  <2>1. PICK q \in Requests : StartJob(q[1], q[2], q[3])
    BY <1>1
  <2>2. q[1] \in Keys /\ q[2] \in Repos /\ q[3] \in BOOLEAN
    BY DEF StoreAssumption
  <2>3. prep.pc = "idle"
    BY <2>1 DEF StartJob, AssetInv, TurnInv, Active
  <2>4. BuiltinInv' /\ OneOwner' /\ RegisteredBacked' /\ PrepInv' /\ DelInv' /\ PastInv'
    BY <2>1, <2>3, StoreRest DEF StartJob
  <2>5. ShapeInv'
    BY <2>1, <2>2 DEF StartJob, AssetInv, ShapeInv, JobStatuses, disk, clients
  <2>6. TurnInv'
    BY <2>1, <2>2, <2>3 DEF StartJob, AssetInv, TurnInv, Active, disk, clients
  <2> QED
    BY <2>4, <2>5, <2>6 DEF AssetInv
<1>2. CASE CloseBegins
  <2>1. BuiltinInv' /\ OneOwner' /\ RegisteredBacked' /\ PrepInv' /\ DelInv' /\ PastInv'
    BY <1>2, StoreRest DEF CloseBegins
  <2>2. ShapeInv'
    BY <1>2 DEF CloseBegins, AssetInv, ShapeInv, disk, clients
  <2>3. TurnInv'
    BY <1>2 DEF CloseBegins, AssetInv, TurnInv, Active, disk, clients
  <2> QED
    BY <2>1, <2>2, <2>3 DEF AssetInv
<1>3. CASE CloseMarks
  <2>0. /\ job'.key = job.key /\ job'.repo = job.repo /\ UNCHANGED <<disk, clients, prep, del, before>>
        /\ job'.status \in {job.status, "failed"} /\ closing' = "waiting" /\ doomed' = FALSE
        /\ job' \in [status : JobStatuses, key : Keys \union {Absent}, repo : Repos \union {Absent}, convert : BOOLEAN]
    BY <1>3 DEF CloseMarks, AssetInv, ShapeInv, JobStatuses
  <2>1. BuiltinInv' /\ OneOwner' /\ RegisteredBacked' /\ PrepInv' /\ DelInv' /\ PastInv'
    BY <2>0, StoreRest
  <2>2. ShapeInv'
    BY <2>0 DEF AssetInv, ShapeInv, disk, clients
  <2>3. TurnInv'
    BY <1>3, <2>0 DEF CloseMarks, AssetInv, TurnInv, Active, disk, clients
  <2> QED
    BY <2>1, <2>2, <2>3 DEF AssetInv
<1>4. CASE CloseReturns
  <2>1. BuiltinInv' /\ OneOwner' /\ RegisteredBacked' /\ PrepInv' /\ DelInv' /\ PastInv'
    BY <1>4, StoreRest DEF CloseReturns
  <2>2. ShapeInv'
    BY <1>4 DEF CloseReturns, AssetInv, ShapeInv, NoJob, JobStatuses, disk
  <2>3. TurnInv'
    BY <1>4 DEF CloseReturns, AssetInv, TurnInv, Active, NoJob, disk
  <2> QED
    BY <2>1, <2>2, <2>3 DEF AssetInv
<1> QED
  BY <1>1, <1>2, <1>3, <1>4

(* A preparation begins, or is refused.                                     *)
LEMMA StoreOfRunJob == ASSUME StoreAssumption, AssetInv, RunJob PROVE AssetInv'
<1>0. /\ prep.pc = "idle" /\ del.pc = "idle" /\ prep.published = {} /\ job.key \in Keys /\ job.repo \in Repos
      /\ job' = [job EXCEPT !.status = "running"] /\ prep' = [prep EXCEPT !.pc = "check"]
      /\ before' = {Snapshot} /\ job.status = "queued"
      /\ UNCHANGED <<registered, asset, leftover, closing, doomed, uses, profiles, del>>
  BY DEF RunJob, AssetInv, TurnInv, PrepInv, Active, disk, clients
<1>1. ShapeInv'
  BY <1>0 DEF AssetInv, ShapeInv, PrepPlaces, JobStatuses
<1>2. TurnInv'
  <2>1. job'.status = "running" /\ job'.key = job.key /\ job'.repo = job.repo /\ prep'.pc = "check"
    BY <1>0 DEF AssetInv, ShapeInv
  <2> QED
    BY <1>0, <2>1 DEF TurnInv, Active
<1>3. prep'.pc = "check" /\ prep'.published = {}
  BY <1>0 DEF AssetInv, ShapeInv
<1>4. BuiltinInv' /\ OneOwner' /\ RegisteredBacked' /\ DelInv'
  BY <1>0 DEF AssetInv, BuiltinInv, OneOwner, RegisteredBacked, StageHolds, Known, DelInv
<1>5. PrepInv'
  BY <1>3 DEF PrepInv, Publishing
<1>6. PastInv'
  BY <1>0 DEF PastInv, Snapshot
<1> QED
  BY <1>1, <1>2, <1>4, <1>5, <1>6 DEF AssetInv

(* A preparation that ends leaves nothing behind but what it did to its     *)
(* key.                                                                     *)
LEMMA StoreOfPrepEnd ==
  ASSUME StoreAssumption, AssetInv, prep.pc # "idle", prep' = Resting, before' = {},
         NEW s \in {"completed", "failed"}, Finish(s),
         UNCHANGED <<leftover, closing, doomed, clients, del>>,
         registered' \in [Keys -> Repos \union {Absent}], asset' \in [Parts -> [Keys -> Assets]],
         BuiltinInv', OneOwner', RegisteredBacked'
  PROVE  AssetInv'
<1>0. del.pc = "idle" /\ job' = [NoJob EXCEPT !.status = s] /\ UNCHANGED <<uses, profiles>>
  BY DEF AssetInv, TurnInv, Finish, clients
<1>1. ShapeInv'
  BY <1>0 DEF AssetInv, ShapeInv, Resting, NoJob, PrepPlaces, JobStatuses
<1>2. TurnInv'
  BY <1>0 DEF TurnInv, Active, Resting, NoJob
<1>3. PrepInv' /\ PastInv'
  BY DEF PrepInv, PastInv, Resting, Publishing
<1>4. DelInv'
  BY <1>0 DEF AssetInv, ShapeInv, DelInv, NoDelete, Parts
<1> QED
  BY <1>1, <1>2, <1>3, <1>4 DEF AssetInv

(* One that fails before anything is out, or is refused.                    *)
LEMMA StoreOfPrepFails ==
  ASSUME StoreAssumption, AssetInv, prep.pc # "idle", PrepFails,
         UNCHANGED <<disk, closing, doomed, clients, del>>
  PROVE  AssetInv'
<1>1. /\ prep' = Resting /\ before' = {} /\ Finish("failed")
      /\ UNCHANGED <<registered, asset, leftover, closing, doomed, clients, del>>
  BY DEF PrepFails, disk
<1>2. BuiltinInv' /\ OneOwner' /\ RegisteredBacked'
  BY <1>1 DEF AssetInv, BuiltinInv, OneOwner, RegisteredBacked, StageHolds, Known
<1>3. registered' \in [Keys -> Repos \union {Absent}] /\ asset' \in [Parts -> [Keys -> Assets]]
  BY <1>1 DEF AssetInv, ShapeInv
<1> QED
  BY <1>1, <1>2, <1>3, StoreOfPrepEnd

(* The checks of prepare_huggingface_model are what PrepInv carries on.     *)
LEMMA StoreOfCheck == ASSUME StoreAssumption, AssetInv, Check PROVE AssetInv'
<1>0. /\ prep.pc = "check" /\ prep.published = {} /\ job.key \in Keys /\ job.repo \in Repos /\ del.pc = "idle"
      /\ UNCHANGED <<disk, closing, doomed, clients, del, faults>>
  BY DEF Check, AssetInv, TurnInv, PrepInv
<1>1. CASE PrepFails
  BY <1>0, <1>1, StoreOfPrepFails
<1>2. CASE ~PrepFails
  <2>0. /\ ~Refused(job.key, job.repo) /\ UNCHANGED <<job, before>>
        /\ prep' = [prep EXCEPT !.pc = "build", !.seen = registered,
                                !.had = {p \in Parts : asset[p][job.key] # Absent}]
        /\ UNCHANGED <<registered, asset, leftover, closing, doomed, uses, profiles, del>>
    BY <1>0, <1>2 DEF Check, disk, clients
  <2>1. /\ prep'.pc = "build" /\ prep'.seen = registered /\ prep'.published = {}
        /\ prep'.had = {p \in Parts : asset[p][job.key] # Absent}
    BY <1>0, <2>0 DEF AssetInv, ShapeInv
  <2>2. ShapeInv'
    BY <2>0, <1>0 DEF AssetInv, ShapeInv, PrepPlaces, Publishing
  <2>3. TurnInv'
    BY <1>0, <2>0, <2>1 DEF AssetInv, TurnInv, Active
  <2>4. BuiltinInv' /\ OneOwner' /\ RegisteredBacked' /\ DelInv'
    BY <2>0 DEF AssetInv, BuiltinInv, OneOwner, RegisteredBacked, StageHolds, Known, DelInv
  <2>5. /\ Known(registered, job.key) \in {Absent, job.repo}
        /\ \A m \in Keys \ {job.key} : Known(registered, m) # job.repo
        /\ asset["source"][job.key] # Absent => asset["source"][job.key].repo = job.repo
    BY <2>0 DEF Refused, Matches
  <2>6. PrepInv'
    BY <2>0, <2>1, <2>5 DEF PrepInv, Known, StageHolds
  <2>7. PastInv'
    BY <1>0, <2>0, <2>1 DEF AssetInv, PastInv
  <2> QED
    BY <2>2, <2>3, <2>4, <2>6, <2>7 DEF AssetInv
<1> QED
  BY <1>1, <1>2

(* Steps of a preparation that change nothing but its place.                *)
LEMMA StoreOfPlace ==
  ASSUME StoreAssumption, AssetInv, UNCHANGED <<disk, service, clients, del, before>>,
         NEW next \in {"publishSource", "publishRuntime", "register", "rollback"},
         prep' = [prep EXCEPT !.pc = next], prep.pc \in Publishing,
         next = "publishSource" => prep.pc = "build",
         next = "publishRuntime" => prep.pc = "publishSource",
         next \in {"publishRuntime", "register"} => asset["source"][job.key] # Absent
  PROVE  AssetInv'
<1>0. /\ UNCHANGED <<registered, asset, leftover, job, closing, doomed, uses, profiles, del, before>>
      /\ prep'.pc = next /\ prep'.seen = prep.seen /\ prep'.had = prep.had /\ prep'.published = prep.published
  BY DEF disk, service, clients, AssetInv, ShapeInv
<1>1. ShapeInv'
  BY <1>0 DEF AssetInv, ShapeInv, PrepPlaces, Publishing
<1>2. TurnInv'
  BY <1>0 DEF AssetInv, TurnInv, Active, Publishing
<1>3. BuiltinInv' /\ OneOwner' /\ RegisteredBacked' /\ DelInv'
  BY <1>0 DEF AssetInv, BuiltinInv, OneOwner, RegisteredBacked, StageHolds, Known, DelInv
<1>4. PrepInv'
  BY <1>0 DEF AssetInv, PrepInv, Known, StageHolds, Publishing
<1>5. PastInv'
  BY <1>0 DEF AssetInv, PastInv, Publishing
<1> QED
  BY <1>1, <1>2, <1>3, <1>4, <1>5 DEF AssetInv

(* An asset comes out that was not there.                                   *)
LEMMA StoreOfPublish ==
  ASSUME StoreAssumption, AssetInv, NEW part \in Parts, Publish(part), part \notin prep.had,
         prep.pc = IF part = "source" THEN "publishSource" ELSE "publishRuntime",
         UNCHANGED <<registered, leftover, service, clients, del, before>>
  PROVE  AssetInv'
<1> DEFINE a == Asset(job.repo, "whole")
           next == IF part = "source" THEN "publishRuntime" ELSE "register"
<1>0. /\ UNCHANGED <<registered, leftover, job, closing, doomed, uses, profiles, del, before>>
      /\ job.key \in Keys /\ job.repo \in Repos /\ part \notin prep.published
      /\ asset \in [Parts -> [Keys -> Assets]] /\ del.pc = "idle"
  <2>1. UNCHANGED <<registered, leftover, job, closing, doomed, uses, profiles, del, before>>
    BY DEF service, clients
  <2>2. prep.pc # "idle"
    OBVIOUS
  <2>3. job.key \in Keys /\ job.repo \in Repos /\ del.pc = "idle"
    BY <2>2 DEF AssetInv, TurnInv
  <2>4. part \notin prep.published
    BY DEF AssetInv, PrepInv, Parts
  <2>5. asset \in [Parts -> [Keys -> Assets]]
    BY DEF AssetInv, ShapeInv
  <2> QED
    BY <2>1, <2>3, <2>4, <2>5
<1>1. /\ prep'.pc = next /\ prep'.seen = prep.seen /\ prep'.had = prep.had
      /\ prep'.published = prep.published \union {part}
  BY DEF Publish, AssetInv, ShapeInv
<1>2. a \in Assets /\ a # Absent /\ a.repo = job.repo
  BY <1>0, AssetPresent DEF Torn
<1> HIDE DEF a
<1>3. /\ asset' \in [Parts -> [Keys -> Assets]] /\ asset'[part][job.key] = a
      /\ \A p \in Parts, k \in Keys : p # part \/ k # job.key => asset'[p][k] = asset[p][k]
  BY <1>0, <1>2 DEF Publish, Store, a
<1>4. ShapeInv'
  <2>1. prep' \in [pc : PrepPlaces, seen : [Keys -> Repos \union {Absent}], had : SUBSET Parts, published : SUBSET Parts]
    BY DEF Publish, AssetInv, ShapeInv, PrepPlaces, Publishing, Parts
  <2> QED
    BY <1>0, <1>3, <2>1 DEF AssetInv, ShapeInv
<1>5. TurnInv'
  BY <1>0, <1>1 DEF AssetInv, TurnInv, Active
<1>6. BuiltinInv' /\ DelInv'
  BY <1>0 DEF AssetInv, BuiltinInv, DelInv
<1>7. registered[job.key] # Absent => registered[job.key] = job.repo
  BY DEF AssetInv, PrepInv, Known, Publishing
<1>8. OneOwner'
  <2>1. \A k \in Keys : registered[k] # Absent /\ asset'["source"][k] # Absent => asset'["source"][k].repo = registered[k]
    BY <1>2, <1>3, <1>7 DEF AssetInv, OneOwner, Parts
  <2> QED
    BY <1>0, <2>1 DEF AssetInv, OneOwner, Known
<1>9. RegisteredBacked'
  <2>1. \A k \in Keys : asset["source"][k] # Absent => asset'["source"][k] # Absent
    BY <1>2, <1>3 DEF Parts
  <2> QED
    BY <1>0, <2>1 DEF AssetInv, RegisteredBacked, StageHolds
<1>10. asset[part][job.key] = Absent
  BY <1>0 DEF AssetInv, PrepInv, Parts
<1>11. PrepInv'
  <2>1. asset'["source"][job.key] # Absent /\ asset'["source"][job.key].repo = job.repo
    <3>1. CASE part = "source"
      BY <1>2, <1>3, <3>1
    <3>2. CASE part # "source"
      BY <1>0, <1>3, <3>2 DEF AssetInv, PrepInv, Parts, Publishing
    <3> QED
      BY <3>1, <3>2
  <2>2. "source" \in prep'.published /\ registered[job.key] # Absent => StageHolds(job.key)
    <3>1. CASE part = "source"
      BY <1>0, <1>10, <3>1 DEF AssetInv, RegisteredBacked
    <3>2. CASE part # "source"
      BY <1>1, <3>2 DEF AssetInv, PrepInv, Parts, Publishing
    <3> QED
      BY <3>1, <3>2
  <2>3. StageHolds(job.key) => StageHolds(job.key)'
    BY <1>0 DEF StageHolds
  <2>4. \A p \in Parts \ prep'.published : p \in prep.had <=> asset'[p][job.key] # Absent
    BY <1>0, <1>1, <1>3 DEF AssetInv, PrepInv, Parts
  <2>5. prep.pc \in Publishing /\ next \in {"publishRuntime", "register"}
    BY DEF Publishing
  <2> QED
    BY <1>0, <1>1, <2>1, <2>2, <2>3, <2>4, <2>5 DEF AssetInv, PrepInv, Known
<1>12. PastInv'
  <2> SUFFICES ASSUME NEW was \in before, NEW p \in Parts, NEW k \in Keys
               PROVE  /\ registered = was.registry
                      /\ IF p \in prep'.published /\ k = job.key
                         THEN was.asset[p][k] = Absent
                         ELSE asset'[p][k] = was.asset[p][k]
    BY <1>0, <1>1 DEF PastInv, AssetInv, Parts
  <2> QED
    BY <1>0, <1>1, <1>3, <1>10 DEF AssetInv, PastInv
<1> QED
  BY <1>4, <1>5, <1>6, <1>8, <1>9, <1>11, <1>12 DEF AssetInv

(* The directory and the registry are changed one part at a time.           *)
LEMMA StoreOfPublishing ==
  ASSUME StoreAssumption, AssetInv, Build \/ PublishSource \/ PublishRuntime \/ PublishFails
  PROVE  AssetInv'
<1>1. CASE Build
  BY <1>1, StoreOfPlace DEF Build, Publishing
<1>2. CASE PublishSource
  <2>0. /\ prep.pc = "publishSource" /\ UNCHANGED <<registered, leftover, service, clients, del, before, faults>>
        /\ "source" \in Parts /\ prep.published = {}
    BY <1>2 DEF PublishSource, Parts, AssetInv, PrepInv
  <2>1. CASE "source" \in prep.had
    <3>1. asset["source"][job.key] # Absent
      BY <2>0, <2>1 DEF AssetInv, PrepInv
    <3>2. UNCHANGED <<disk, service, clients, del, before>> /\ prep' = [prep EXCEPT !.pc = "publishRuntime"]
      BY <1>2, <2>1 DEF PublishSource, disk
    <3> QED
      BY <2>0, <3>1, <3>2, StoreOfPlace DEF Publishing
  <2>2. CASE "source" \notin prep.had
    <3>1. Publish("source")
      BY <1>2, <2>2 DEF PublishSource
    <3> QED
      BY <2>0, <2>2, <3>1, StoreOfPublish
  <2> QED
    BY <2>1, <2>2
<1>3. CASE PublishRuntime
  <2>0. /\ prep.pc = "publishRuntime" /\ UNCHANGED <<registered, leftover, service, clients, del, before, faults>>
        /\ "runtime" \in Parts /\ asset["source"][job.key] # Absent
    BY <1>3 DEF PublishRuntime, Parts, AssetInv, PrepInv
  <2>1. CASE ~job.convert \/ "runtime" \in prep.had
    <3>1. UNCHANGED <<disk, service, clients, del, before>> /\ prep' = [prep EXCEPT !.pc = "register"]
      BY <1>3, <2>1 DEF PublishRuntime, disk
    <3> QED
      BY <2>0, <3>1, StoreOfPlace DEF Publishing
  <2>2. CASE ~(~job.convert \/ "runtime" \in prep.had)
    <3>1. Publish("runtime") /\ "runtime" \notin prep.had
      BY <1>3, <2>2 DEF PublishRuntime
    <3> QED
      BY <2>0, <3>1, StoreOfPublish
  <2> QED
    BY <2>1, <2>2
<1>4. CASE PublishFails
  BY <1>4, StoreOfPlace DEF PublishFails, Publishing
<1> QED
  BY <1>1, <1>2, <1>3, <1>4

(* The registry that was read when the preparation began is the one that is *)
(* replaced, and the key is nobody else's.                                  *)
LEMMA StoreOfRegister == ASSUME StoreAssumption, AssetInv, Register PROVE AssetInv'
<1>0. /\ prep.pc = "register" /\ prep.pc \in Publishing /\ prep' = Resting /\ Finish("completed") /\ before' = {}
      /\ UNCHANGED <<asset, leftover, closing, doomed, clients, del>>
      /\ job.key \in Keys /\ job.repo \in Repos /\ del.pc = "idle"
      /\ registered \in [Keys -> Repos \union {Absent}]
  BY DEF Register, Publishing, AssetInv, TurnInv, ShapeInv
<1>1. /\ Known(registered, job.key) \in {Absent, job.repo}
      /\ \A m \in Keys \ {job.key} : Known(registered, m) # job.repo
      /\ asset["source"][job.key] # Absent /\ asset["source"][job.key].repo = job.repo
      /\ registered' = [registered EXCEPT ![job.key] = job.repo]
  BY <1>0 DEF Register, AssetInv, PrepInv
<1>2. /\ registered' \in [Keys -> Repos \union {Absent}] /\ registered'[job.key] = job.repo /\ job.repo # Absent
      /\ \A k \in Keys \ {job.key} : registered'[k] = registered[k]
  BY <1>0, <1>1 DEF StoreAssumption
<1>3. BuiltinInv'
  <2> SUFFICES ASSUME NEW k \in Keys, registered'[k] # Absent, Builtins[k] # Absent
               PROVE  registered'[k] = Builtins[k]
    BY DEF BuiltinInv
  <2>1. CASE k = job.key
    BY <1>1, <1>2, <2>1 DEF Known, AssetInv, BuiltinInv
  <2>2. CASE k # job.key
    BY <1>2, <2>2 DEF AssetInv, BuiltinInv
  <2> QED
    BY <2>1, <2>2
<1>4. OneOwner'
  <2>1. ASSUME NEW k \in Keys, NEW m \in Keys, registered'[k] # Absent, Known(registered', k) = Known(registered', m)
        PROVE  k = m
    <3>1. Known(registered', job.key) = job.repo
      BY <1>2 DEF Known
    <3>2. \A n \in Keys \ {job.key} : Known(registered', n) = Known(registered, n) /\ Known(registered, n) # job.repo
      BY <1>1, <1>2 DEF Known
    <3>3. CASE k # job.key /\ m # job.key
      BY <1>2, <2>1, <3>2, <3>3 DEF AssetInv, OneOwner
    <3> QED
      BY <2>1, <3>1, <3>2, <3>3
  <2>2. ASSUME NEW k \in Keys, registered'[k] # Absent, asset["source"][k] # Absent
        PROVE  asset["source"][k].repo = registered'[k]
    BY <1>1, <1>2, <2>2 DEF AssetInv, OneOwner
  <2> QED
    BY <1>0, <2>1, <2>2 DEF OneOwner
<1>5. RegisteredBacked'
  BY <1>0, <1>1, <1>2 DEF AssetInv, RegisteredBacked, StageHolds
<1>6. asset' \in [Parts -> [Keys -> Assets]]
  BY <1>0 DEF AssetInv, ShapeInv
<1> QED
  BY <1>0, <1>2, <1>3, <1>4, <1>5, <1>6, StoreOfPrepEnd

(* What a rollback may do: nothing outside what was published; of that, it  *)
(* is gone or torn.                                                         *)
LEMMA RollbackRemoves ==
  ASSUME StoreAssumption, AssetInv, PrepRollback
  PROVE  /\ PrepFails /\ UNCHANGED <<registered, leftover, closing, doomed, clients, del>>
         /\ asset' \in [Parts -> [Keys -> Assets]]
         /\ \A p \in Parts, k \in Keys :
              \/ asset'[p][k] = asset[p][k] /\ ~(p \in prep.published /\ k = job.key)
              \/ /\ p \in prep.published /\ k = job.key
                 /\ asset'[p][k] = Absent \/ asset'[p][k] \in Remains(job.repo)
<1>0. /\ PrepFails /\ UNCHANGED <<registered, leftover, closing, doomed, clients, del>>
      /\ asset \in [Parts -> [Keys -> Assets]] /\ job.key \in Keys /\ job.repo \in Repos
      /\ prep.pc = "rollback"
  BY DEF PrepRollback, AssetInv, ShapeInv, TurnInv
<1>1. Absent \in Assets /\ Remains(job.repo) \subseteq Assets
  BY <1>0, AssetPresent DEF Remains, Assets
<1> DEFINE Gone(p) == IF p \in prep.published THEN [asset[p] EXCEPT ![job.key] = Absent] ELSE asset[p]
<1>2. CASE asset' = [p \in Parts |-> Gone(p)]
  BY <1>0, <1>1, <1>2
<1>3. CASE \E q \in prep.published : \E torn \in Remains(job.repo) :
             asset' = [p \in Parts |-> IF p \in prep.published
                                        THEN [asset[p] EXCEPT ![job.key] = IF p = q THEN torn ELSE Absent]
                                        ELSE asset[p]]
  BY <1>0, <1>1, <1>3
<1> QED
  BY <1>0, <1>2, <1>3 DEF PrepRollback, Unpublish

(* A rollback removes what the preparation itself has published.            *)
LEMMA StoreOfRollback == ASSUME StoreAssumption, AssetInv, PrepRollback PROVE AssetInv'
<1>0. /\ prep.pc = "rollback" /\ prep.pc \in Publishing /\ prep' = Resting /\ before' = {} /\ Finish("failed")
      /\ UNCHANGED <<registered, leftover, closing, doomed, clients, del>>
      /\ asset' \in [Parts -> [Keys -> Assets]] /\ job.key \in Keys /\ job.repo \in Repos
  BY RollbackRemoves DEF PrepRollback, PrepFails, Publishing, AssetInv, TurnInv
<1>1. \A k \in Keys : \/ asset'["source"][k] = asset["source"][k]
                      \/ /\ "source" \in prep.published /\ k = job.key
                         /\ asset'["source"][k] = Absent \/ asset'["source"][k].repo = job.repo
  <2>1. \A a \in Remains(job.repo) : a.repo = job.repo
    BY DEF Remains, Asset
  <2> QED
    BY <2>1, RollbackRemoves DEF Parts
<1>2. registered[job.key] # Absent => registered[job.key] = job.repo
  BY <1>0 DEF AssetInv, PrepInv, Known
<1>3. "source" \in prep.published /\ registered[job.key] # Absent => StageHolds(job.key)
  BY <1>0 DEF AssetInv, PrepInv
<1>4. BuiltinInv' /\ OneOwner'
  <2>1. \A k \in Keys : registered[k] # Absent /\ asset'["source"][k] # Absent => asset'["source"][k].repo = registered[k]
    BY <1>1, <1>2 DEF AssetInv, OneOwner
  <2> QED
    BY <1>0, <2>1 DEF AssetInv, BuiltinInv, OneOwner, Known
<1>5. RegisteredBacked'
  <2>1. \A k \in Keys : registered[k] # Absent => asset'["source"][k] # Absent \/ StageHolds(k)
    BY <1>1, <1>3 DEF AssetInv, RegisteredBacked
  <2> QED
    BY <1>0, <2>1 DEF RegisteredBacked, StageHolds
<1>6. registered' \in [Keys -> Repos \union {Absent}] /\ prep.pc # "idle"
  BY <1>0 DEF AssetInv, ShapeInv
<1> QED
  BY <1>0, <1>4, <1>5, <1>6, StoreOfPrepEnd

(* Every step of a preparation keeps the invariant.                         *)
LEMMA StoreOfPrepStep == ASSUME StoreAssumption, AssetInv, PrepStep PROVE AssetInv'
<1>1. CASE BuildFails
  BY <1>1, StoreOfPrepFails DEF BuildFails
<1> QED
  BY <1>1, StoreOfCheck, StoreOfPublishing, StoreOfRegister, StoreOfRollback DEF PrepStep

(* A stage that is left behind keeps what it holds.                         *)
LEMMA StagesLeft ==
  ASSUME AssetInv, leftover' = (IF Holding THEN leftover \union {Stage} ELSE leftover)
  PROVE  /\ leftover' \subseteq [key : Keys, held : Held]
         /\ \A k \in Keys : StageHolds(k) => \E s \in leftover' : s.key = k /\ s.held["source"] # Absent
         /\ \A p \in Parts : del.held[p] # Absent => \E s \in leftover' : s.key = del.key /\ s.held[p] = del.held[p]
<1>1. Holding => Stage \in [key : Keys, held : Held]
  <2>1. Holding => del.key \in Keys /\ del.held \in Held
    BY DEF Holding, AssetInv, ShapeInv, TurnInv, NoDelete
  <2> QED
    BY <2>1 DEF Stage
<1>2. Stage.key = del.key /\ Stage.held = del.held
  BY DEF Stage
<1>3. leftover \subseteq [key : Keys, held : Held]
  BY DEF AssetInv, ShapeInv
<1>4. del.held["source"] # Absent => Holding
  BY DEF Holding, Parts
<1>5. \A p \in Parts : del.held[p] # Absent => Holding
  BY DEF Holding
<1> QED
  BY <1>1, <1>2, <1>3, <1>4, <1>5 DEF StageHolds

(* A deletion begins.                                                       *)
LEMMA StoreOfDeleteBegins ==
  ASSUME StoreAssumption, AssetInv, NEW k \in Keys, DeleteBegins(k)
  PROVE  AssetInv'
<1>0. /\ closing = "open" /\ del.pc = "idle" /\ k \notin uses /\ ~Active /\ before' = {Snapshot}
      /\ del' = [pc |-> "source", key |-> k, held |-> [p \in Parts |-> Absent]]
      /\ UNCHANGED <<registered, asset, leftover, job, closing, doomed, uses, profiles, prep>>
      /\ del = NoDelete
  BY DEF DeleteBegins, Deletable, disk, service, clients, AssetInv, ShapeInv
<1>1. prep.pc = "idle"
  BY <1>0 DEF AssetInv, TurnInv, Active
<1>2. del'.pc = "source" /\ del'.key = k /\ \A p \in Parts : del'.held[p] = Absent
  BY <1>0
<1>3. ShapeInv'
  <2>1. del' \in [pc : DelPlaces, key : Keys \union {Absent}, held : Held]
    BY <1>0 DEF DelPlaces, Held, Assets
  <2> QED
    BY <1>0, <1>2, <2>1 DEF AssetInv, ShapeInv
<1>4. TurnInv'
  BY <1>0, <1>1, <1>2 DEF AssetInv, TurnInv, Active
<1>5. BuiltinInv' /\ OneOwner'
  BY <1>0 DEF AssetInv, BuiltinInv, OneOwner, Known
<1>6. RegisteredBacked'
  <2>1. del.held["source"] = Absent
    BY <1>0 DEF NoDelete, Parts
  <2> QED
    BY <1>0, <2>1 DEF AssetInv, RegisteredBacked, StageHolds
<1>7. PrepInv'
  BY <1>0, <1>1 DEF AssetInv, PrepInv, Publishing
<1>8. DelInv'
  BY <1>2 DEF DelInv, Parts
<1>9. PastInv'
  BY <1>0, <1>1, <1>2 DEF PastInv, Snapshot
<1> QED
  BY <1>3, <1>4, <1>5, <1>6, <1>7, <1>8, <1>9 DEF AssetInv

(* While a deletion is under way the other parts of the invariant rest on   *)
(* what it does to its key.                                                 *)
LEMMA StoreOfDelete ==
  ASSUME AssetInv, del.pc # "idle", UNCHANGED <<service, clients, prep>>,
         registered' \in [Keys -> Repos \union {Absent}], asset' \in [Parts -> [Keys -> Assets]],
         leftover' \subseteq [key : Keys, held : Held],
         del' \in [pc : DelPlaces, key : Keys \union {Absent}, held : Held],
         del' = NoDelete \/ (del'.pc # "idle" /\ del'.key = del.key)
  PROVE  ShapeInv' /\ TurnInv' /\ PrepInv'
<1>0. UNCHANGED <<job, closing, doomed, uses, profiles, prep>>
  BY DEF service, clients
<1>1. prep.pc = "idle" /\ del.key \in Keys
  BY DEF AssetInv, TurnInv
<1>2. ShapeInv'
  BY <1>0 DEF AssetInv, ShapeInv
<1>3. TurnInv'
  BY <1>0, <1>1 DEF AssetInv, TurnInv, Active, NoDelete
<1>4. PrepInv'
  BY <1>0, <1>1 DEF AssetInv, PrepInv, Publishing
<1> QED
  BY <1>2, <1>3, <1>4

(* An asset moves into the stage, which holds it from then on.              *)
LEMMA StoreOfDeleteMoves ==
  ASSUME StoreAssumption, AssetInv, NEW part \in Parts, DeleteMoves(part)
  PROVE  AssetInv'
<1> DEFINE next == IF part = "source" THEN "runtime" ELSE "registry"
           target == del.key
<1>0. /\ del.pc = part /\ del.pc \notin {"idle", "clean"}
      /\ UNCHANGED <<registered, leftover, service, clients, prep, before>>
      /\ target \in Keys /\ asset \in [Parts -> [Keys -> Assets]] /\ prep.pc = "idle"
      /\ del \in [pc : DelPlaces, key : Keys \union {Absent}, held : Held]
      /\ del.held[part] = Absent
  BY DEF DeleteMoves, Parts, AssetInv, TurnInv, ShapeInv, DelInv
<1>1. /\ asset' \in [Parts -> [Keys -> Assets]] /\ asset'[part][target] = Absent
      /\ \A p \in Parts, k \in Keys : p # part \/ k # target => asset'[p][k] = asset[p][k]
  BY <1>0 DEF DeleteMoves, Store, Assets
<1>2. /\ del' \in [pc : DelPlaces, key : Keys \union {Absent}, held : Held]
      /\ del'.pc = next /\ del'.key = target /\ del'.held[part] = asset[part][target]
      /\ \A p \in Parts \ {part} : del'.held[p] = del.held[p]
  <2>1. del' = [del EXCEPT !.pc = next, !.held[part] = asset[part][target]] /\ next \in DelPlaces
    BY DEF DeleteMoves, DelPlaces
  <2>2. asset[part][target] \in Assets
    BY <1>0
  <2> QED
    BY <1>0, <2>1, <2>2 DEF Held
<1>3. /\ ShapeInv' /\ TurnInv' /\ PrepInv'
  <2>1. /\ registered' \in [Keys -> Repos \union {Absent}] /\ leftover' \subseteq [key : Keys, held : Held]
        /\ next # "idle"
    BY <1>0 DEF AssetInv, ShapeInv
  <2> QED
    BY <1>0, <1>1, <1>2, <2>1, StoreOfDelete
<1>4. BuiltinInv' /\ OneOwner'
  <2>1. \A k \in Keys : registered[k] # Absent /\ asset'["source"][k] # Absent => asset'["source"][k].repo = registered[k]
    BY <1>1 DEF AssetInv, OneOwner, Parts
  <2> QED
    BY <1>0, <2>1 DEF AssetInv, BuiltinInv, OneOwner, Known
<1>5. RegisteredBacked'
  <2> SUFFICES ASSUME NEW k \in Keys, registered[k] # Absent
               PROVE  asset'["source"][k] # Absent \/ StageHolds(k)'
    BY <1>0 DEF RegisteredBacked
  <2>1. asset["source"][k] # Absent \/ StageHolds(k)
    BY DEF AssetInv, RegisteredBacked
  <2>2. StageHolds(k) => StageHolds(k)'
    BY <1>0, <1>2 DEF StageHolds, Parts
  <2>3. asset["source"][k] # Absent => asset'["source"][k] # Absent \/ StageHolds(k)'
    BY <1>1, <1>2 DEF StageHolds, Parts
  <2> QED
    BY <2>1, <2>2, <2>3
<1>6. DelInv'
  BY <1>0, <1>1, <1>2 DEF AssetInv, DelInv, OneOwner, Parts
<1>7. PastInv'
  BY <1>0, <1>1, <1>2 DEF AssetInv, PastInv
<1> QED
  BY <1>3, <1>4, <1>5, <1>6, <1>7 DEF AssetInv

(* A key that leaves the registry uncovers at most its own built-in entry.  *)
LEMMA StoreOfDeleteUnregisters ==
  ASSUME StoreAssumption, AssetInv, DeleteUnregisters
  PROVE  AssetInv'
<1> DEFINE target == del.key
<1>0. /\ del.pc = "registry" /\ UNCHANGED <<asset, leftover, service, clients, prep, before>>
      /\ target \in Keys /\ prep.pc = "idle" /\ registered \in [Keys -> Repos \union {Absent}]
      /\ del \in [pc : DelPlaces, key : Keys \union {Absent}, held : Held]
      /\ registered' = [registered EXCEPT ![target] = Absent] /\ del' = [del EXCEPT !.pc = "clean"]
  BY DEF DeleteUnregisters, AssetInv, TurnInv, ShapeInv
<1>1. /\ registered' \in [Keys -> Repos \union {Absent}] /\ registered'[target] = Absent
      /\ \A k \in Keys \ {target} : registered'[k] = registered[k]
  BY <1>0
<1>2. /\ del' \in [pc : DelPlaces, key : Keys \union {Absent}, held : Held]
      /\ del'.pc = "clean" /\ del'.key = target /\ del'.held = del.held
  BY <1>0 DEF DelPlaces
<1>3. /\ ShapeInv' /\ TurnInv' /\ PrepInv'
  <2>1. asset' \in [Parts -> [Keys -> Assets]] /\ leftover' \subseteq [key : Keys, held : Held]
    BY <1>0 DEF AssetInv, ShapeInv
  <2> QED
    BY <1>0, <1>1, <1>2, <2>1, StoreOfDelete
<1>4. BuiltinInv'
  BY <1>1 DEF AssetInv, BuiltinInv
<1>5. OneOwner'
  <2>1. ASSUME NEW k \in Keys, NEW m \in Keys, registered'[k] # Absent, Known(registered', k) = Known(registered', m)
        PROVE  k = m
    <3>1. k # target /\ registered[k] # Absent /\ Known(registered, k) = registered[k] /\ Known(registered', k) = registered[k]
      BY <1>1, <2>1 DEF Known
    <3>2. CASE m # target
      BY <1>1, <2>1, <3>1, <3>2 DEF AssetInv, OneOwner, Known
    <3>3. CASE m = target
      <4>1. registered[k] = Builtins[target]
        BY <1>1, <2>1, <3>1, <3>3 DEF Known
      <4>2. Known(registered, target) = registered[k]
        BY <1>0, <3>1, <4>1 DEF Known, AssetInv, BuiltinInv
      <4> QED
        BY <3>1, <3>3, <4>2 DEF AssetInv, OneOwner
    <3> QED
      BY <3>2, <3>3
  <2>2. \A k \in Keys : registered'[k] # Absent /\ asset["source"][k] # Absent => asset["source"][k].repo = registered'[k]
    BY <1>1 DEF AssetInv, OneOwner
  <2> QED
    BY <1>0, <2>1, <2>2 DEF OneOwner
<1>6. RegisteredBacked'
  BY <1>0, <1>1, <1>2 DEF AssetInv, RegisteredBacked, StageHolds
<1>7. DelInv'
  BY <1>1, <1>2 DEF DelInv
<1>8. PastInv'
  BY <1>0, <1>2 DEF PastInv
<1> QED
  BY <1>3, <1>4, <1>5, <1>6, <1>7, <1>8 DEF AssetInv

(* An error in between: what was moved is moved back.                       *)
LEMMA StoreOfDeleteFails == ASSUME StoreAssumption, AssetInv, DeleteFails PROVE AssetInv'
<1>0. /\ del.pc \notin {"idle", "clean"} /\ UNCHANGED <<disk, service, clients, prep, before>>
      /\ del' = [del EXCEPT !.pc = "restoreRuntime"]
      /\ del \in [pc : DelPlaces, key : Keys \union {Absent}, held : Held]
      /\ UNCHANGED <<registered, asset, leftover>>
  BY DEF DeleteFails, AssetInv, ShapeInv, disk
<1>1. /\ del' \in [pc : DelPlaces, key : Keys \union {Absent}, held : Held]
      /\ del'.pc = "restoreRuntime" /\ del'.key = del.key /\ del'.held = del.held
  BY <1>0 DEF DelPlaces
<1>2. ShapeInv' /\ TurnInv' /\ PrepInv'
  <2>1. /\ registered' \in [Keys -> Repos \union {Absent}] /\ asset' \in [Parts -> [Keys -> Assets]]
        /\ leftover' \subseteq [key : Keys, held : Held]
    BY <1>0 DEF AssetInv, ShapeInv
  <2> QED
    BY <1>0, <1>1, <2>1, StoreOfDelete
<1>3. BuiltinInv' /\ OneOwner' /\ RegisteredBacked'
  BY <1>0, <1>1 DEF AssetInv, BuiltinInv, OneOwner, RegisteredBacked, StageHolds, Known
<1>4. DelInv'
  BY <1>0, <1>1 DEF AssetInv, DelInv
<1>5. PastInv'
  <2>1. prep.pc = "idle" /\ prep' = prep /\ del.pc # "idle"
    BY <1>0 DEF AssetInv, TurnInv
  <2>2. ASSUME NEW was \in before
        PROVE  /\ registered = was.registry
               /\ \A p \in Parts, k \in Keys :
                    IF k = del.key /\ del.held[p] # Absent
                    THEN del.held[p] = was.asset[p][k]
                    ELSE asset[p][k] = was.asset[p][k]
    BY <1>0 DEF AssetInv, PastInv
  <2> QED
    BY <1>0, <1>1, <2>1, <2>2 DEF PastInv
<1> QED
  BY <1>2, <1>3, <1>4, <1>5 DEF AssetInv

(* An asset moves back, or stays in the stage.                              *)
LEMMA StoreOfDeleteRestores ==
  ASSUME StoreAssumption, AssetInv, NEW part \in Parts,
         NEW pc \in {"restoreRuntime", "restoreSource"}, NEW next \in {"restoreSource", "failed"},
         DeleteRestores(pc, part, next)
  PROVE  AssetInv'
<1> DEFINE target == del.key
<1>0. /\ del.pc \notin {"idle", "clean", "source", "runtime"}
      /\ UNCHANGED <<registered, leftover, service, clients, prep, before>>
      /\ target \in Keys /\ asset \in [Parts -> [Keys -> Assets]]
      /\ del \in [pc : DelPlaces, key : Keys \union {Absent}, held : Held]
  BY DEF DeleteRestores, AssetInv, TurnInv, ShapeInv
<1>1. /\ asset' \in [Parts -> [Keys -> Assets]]
      /\ del' \in [pc : DelPlaces, key : Keys \union {Absent}, held : Held]
      /\ del'.pc = next /\ del'.key = target
      /\ \A p \in Parts \ {part} : del'.held[p] = del.held[p]
      /\ \A p \in Parts, k \in Keys : p # part \/ k # target => asset'[p][k] = asset[p][k]
      /\ \/ del'.held[part] = del.held[part] /\ asset'[part][target] = asset[part][target]
         \/ del.held[part] # Absent /\ del'.held[part] = Absent /\ asset'[part][target] = del.held[part]
  <2>1. CASE asset' = asset /\ del' = [del EXCEPT !.pc = next]
    BY <1>0, <2>1 DEF DelPlaces
  <2>2. CASE asset' = asset /\ del.held[part] = Absent /\ del' = [del EXCEPT !.pc = next, !.held[part] = Absent]
    BY <1>0, <2>2 DEF DelPlaces, Held, Assets
  <2>3. CASE /\ asset' = Store(part, target, del.held[part]) /\ del.held[part] # Absent
             /\ del' = [del EXCEPT !.pc = next, !.held[part] = Absent]
    BY <1>0, <2>3 DEF DelPlaces, Held, Assets, Store
  <2> QED
    BY <2>1, <2>2, <2>3 DEF DeleteRestores
<1>2. ShapeInv' /\ TurnInv' /\ PrepInv'
  <2>1. registered' \in [Keys -> Repos \union {Absent}] /\ leftover' \subseteq [key : Keys, held : Held]
    BY <1>0 DEF AssetInv, ShapeInv
  <2> QED
    BY <1>0, <1>1, <2>1, StoreOfDelete
<1>3. del.held["source"] # Absent /\ registered[target] # Absent => del.held["source"].repo = registered[target]
  BY DEF AssetInv, DelInv
<1>4. BuiltinInv' /\ OneOwner'
  <2>1. \A k \in Keys : registered[k] # Absent /\ asset'["source"][k] # Absent => asset'["source"][k].repo = registered[k]
    BY <1>1, <1>3 DEF AssetInv, OneOwner, Parts
  <2> QED
    BY <1>0, <2>1 DEF AssetInv, BuiltinInv, OneOwner, Known
<1>5. RegisteredBacked'
  <2> SUFFICES ASSUME NEW k \in Keys, registered[k] # Absent
               PROVE  asset'["source"][k] # Absent \/ StageHolds(k)'
    BY <1>0 DEF RegisteredBacked
  <2>1. asset["source"][k] # Absent \/ StageHolds(k)
    BY DEF AssetInv, RegisteredBacked
  <2>2. asset["source"][k] # Absent => asset'["source"][k] # Absent
    BY <1>1 DEF Parts
  <2>3. StageHolds(k) => asset'["source"][k] # Absent \/ StageHolds(k)'
    BY <1>0, <1>1 DEF StageHolds, Parts
  <2> QED
    BY <2>1, <2>2, <2>3
<1>6. DelInv'
  BY <1>0, <1>1, <1>3 DEF DelInv, Parts
<1>7. PastInv'
  <2>1. prep.pc = "idle" /\ prep' = prep /\ before' = before
    BY <1>0 DEF AssetInv, TurnInv
  <2> SUFFICES ASSUME NEW was \in before, NEW p \in Parts, NEW k \in Keys
               PROVE  /\ registered = was.registry
                      /\ IF k = target /\ del'.held[p] # Absent
                         THEN del'.held[p] = was.asset[p][k]
                         ELSE asset'[p][k] = was.asset[p][k]
    BY <1>0, <1>1, <2>1 DEF PastInv, AssetInv, Parts
  <2>2. /\ registered = was.registry
        /\ IF k = target /\ del.held[p] # Absent
           THEN del.held[p] = was.asset[p][k]
           ELSE asset[p][k] = was.asset[p][k]
    BY <1>0 DEF AssetInv, PastInv
  <2> QED
    BY <1>1, <2>2
<1> QED
  BY <1>2, <1>4, <1>5, <1>6, <1>7 DEF AssetInv

(* The request ends: what it still holds stays in a stage, or is gone with  *)
(* a key that is no longer registered.                                      *)
LEMMA StoreOfDeleteEnds == ASSUME StoreAssumption, AssetInv, DeleteGivesUp \/ DeleteCleans PROVE AssetInv'
<1>0. /\ del.pc \in {"failed", "clean"} /\ UNCHANGED <<registered, asset, service, clients, prep>>
      /\ del' = NoDelete /\ before' = {} /\ del.key \in Keys /\ prep.pc = "idle"
      /\ leftover' = (IF Holding THEN leftover \union {Stage} ELSE leftover)
         \/ (del.pc = "clean" /\ leftover' \in {leftover, leftover \union {Stage}})
  BY DEF DeleteGivesUp, DeleteCleans, KeptStages, AssetInv, TurnInv
<1>1. /\ leftover' \subseteq [key : Keys, held : Held]
      /\ \A k \in Keys : registered[k] # Absent /\ StageHolds(k) => \E s \in leftover' : s.key = k /\ s.held["source"] # Absent
  <2>1. CASE leftover' = (IF Holding THEN leftover \union {Stage} ELSE leftover)
    BY <2>1, StagesLeft
  <2>2. CASE del.pc = "clean" /\ leftover' \in {leftover, leftover \union {Stage}}
    <3>1. registered[del.key] = Absent
      BY <2>2 DEF AssetInv, DelInv
    <3>2. Stage \in [key : Keys, held : Held] /\ leftover \subseteq [key : Keys, held : Held]
      BY <1>0 DEF Stage, AssetInv, ShapeInv
    <3> QED
      BY <2>2, <3>1, <3>2 DEF StageHolds
  <2> QED
    BY <1>0, <2>1, <2>2
<1>2. ShapeInv' /\ TurnInv' /\ PrepInv'
  <2>1. registered' \in [Keys -> Repos \union {Absent}] /\ asset' \in [Parts -> [Keys -> Assets]]
    BY <1>0 DEF AssetInv, ShapeInv
  <2>2. del' \in [pc : DelPlaces, key : Keys \union {Absent}, held : Held]
    BY <1>0 DEF NoDelete, DelPlaces, Held, Assets
  <2>3. del.pc # "idle" /\ UNCHANGED <<service, clients, prep>>
    BY <1>0
  <2> QED
    BY <1>0, <1>1, <2>1, <2>2, <2>3, StoreOfDelete
<1>3. BuiltinInv' /\ OneOwner'
  BY <1>0 DEF AssetInv, BuiltinInv, OneOwner, Known
<1>4. RegisteredBacked'
  BY <1>0, <1>1 DEF AssetInv, RegisteredBacked, StageHolds
<1>5. DelInv' /\ PastInv'
  BY <1>0 DEF DelInv, PastInv, NoDelete, Parts
<1> QED
  BY <1>2, <1>3, <1>4, <1>5 DEF AssetInv

(* A death at any point leaves what the invariant says of an idle store.    *)
LEMMA StoreOfCrash == ASSUME StoreAssumption, AssetInv, BackendDies PROVE AssetInv'
<1>0. /\ job' = NoJob /\ closing' = "open" /\ doomed' = FALSE /\ prep' = Resting /\ del' = NoDelete
      /\ uses' = {} /\ before' = {} /\ UNCHANGED <<registered, asset, profiles>>
      /\ leftover' = (IF Holding THEN leftover \union {Stage} ELSE leftover)
  BY DEF BackendDies
<1>1. /\ leftover' \subseteq [key : Keys, held : Held]
      /\ \A k \in Keys : StageHolds(k) => \E s \in leftover' : s.key = k /\ s.held["source"] # Absent
  BY <1>0, StagesLeft
<1>2. ShapeInv'
  <2>1. job' \in [status : JobStatuses, key : Keys \union {Absent}, repo : Repos \union {Absent}, convert : BOOLEAN]
    BY <1>0 DEF NoJob, JobStatuses
  <2>2. prep' \in [pc : PrepPlaces, seen : [Keys -> Repos \union {Absent}], had : SUBSET Parts, published : SUBSET Parts]
    BY <1>0 DEF Resting, PrepPlaces
  <2>3. del' \in [pc : DelPlaces, key : Keys \union {Absent}, held : Held]
    BY <1>0 DEF NoDelete, DelPlaces, Held, Assets
  <2> QED
    BY <1>0, <1>1, <2>1, <2>2, <2>3 DEF AssetInv, ShapeInv
<1>3. TurnInv'
  BY <1>0 DEF TurnInv, Active, NoJob, Resting, NoDelete
<1>4. BuiltinInv' /\ OneOwner'
  BY <1>0 DEF AssetInv, BuiltinInv, OneOwner, Known
<1>5. RegisteredBacked'
  BY <1>0, <1>1 DEF AssetInv, RegisteredBacked, StageHolds
<1>6. PrepInv' /\ DelInv' /\ PastInv'
  BY <1>0 DEF PrepInv, DelInv, PastInv, Resting, NoDelete, Parts, Publishing
<1> QED
  BY <1>2, <1>3, <1>4, <1>5, <1>6 DEF AssetInv

-----------------------------------------------------------------------------
(* Every step keeps the invariant.                                          *)
LEMMA StoreStep == ASSUME StoreAssumption, AssetInv, [ModelsNext]_modelsVars PROVE AssetInv'
<1>1. CASE DeleteStep
  <2>1. ASSUME NEW part \in Parts, DeleteMoves(part) PROVE AssetInv'
    BY <2>1, StoreOfDeleteMoves
  <2>2. CASE DeleteRestores("restoreRuntime", "runtime", "restoreSource")
    BY <2>2, StoreOfDeleteRestores DEF Parts
  <2>3. CASE DeleteRestores("restoreSource", "source", "failed")
    BY <2>3, StoreOfDeleteRestores DEF Parts
  <2> QED
    BY <1>1, <2>1, <2>2, <2>3, StoreOfDeleteUnregisters, StoreOfDeleteFails, StoreOfDeleteEnds DEF DeleteStep
<1>2. CASE \E k \in Keys : DeleteBegins(k)
  BY <1>2, StoreOfDeleteBegins
<1>3. CASE UNCHANGED modelsVars
  <2>1. UNCHANGED <<disk, prep, del, before, service, uses, profiles>>
    BY <1>3 DEF modelsVars, clients
  <2>2. BuiltinInv' /\ OneOwner' /\ RegisteredBacked' /\ PrepInv' /\ DelInv' /\ PastInv'
    BY <2>1, StoreRest DEF service
  <2>3. ShapeInv' /\ TurnInv'
    BY <2>1 DEF disk, service, AssetInv, ShapeInv, TurnInv, Active
  <2> QED
    BY <2>2, <2>3 DEF AssetInv
<1> QED
  BY <1>1, <1>2, <1>3, StoreOfService, StoreOfRunJob, StoreOfPrepStep, StoreOfClients, StoreOfCrash
     DEF ModelsNext, CloseStep

(* The invariant holds in every state.                                      *)
LEMMA StoreAlways == ASSUME StoreAssumption PROVE ModelsSpec => []AssetInv
<1>1. ModelsInit => AssetInv
  BY StoreStart
<1>2. AssetInv /\ [ModelsNext]_modelsVars => AssetInv'
  BY StoreStep
<1> QED
  BY <1>1, <1>2, PTL DEF ModelsSpec

(* Assets, jobs, operations and stages keep their types.                    *)
THEOREM AssetTypes == ASSUME StoreAssumption PROVE ModelsSpec => []ModelsTypeOK
<1>1. AssetInv => ModelsTypeOK
  <2> SUFFICES ASSUME AssetInv PROVE ModelsTypeOK
    OBVIOUS
  <2>1. /\ job.status \in JobStatuses /\ job.convert \in BOOLEAN
        /\ prep.seen \in [Keys -> Repos \union {Absent}] /\ prep.had \subseteq Parts /\ prep.published \subseteq Parts
        /\ del.held \in Held
    BY DEF AssetInv, ShapeInv
  <2>2. \A s \in leftover : s.key \in Keys /\ s.held \in Held
    BY DEF AssetInv, ShapeInv
  <2> QED
    BY <2>1, <2>2 DEF ModelsTypeOK, AssetInv, ShapeInv, TurnInv, JobStatuses, Held
<1> QED
  BY <1>1, StoreAlways, PTL

(* What is registered belongs to one key and is on disk, and what is being  *)
(* deleted is in nobody's hands, after any mix of failures, deaths and jobs *)
(* (prepare_huggingface_model, delete_local_model, the routes' guards).     *)
THEOREM AssetsOwnedAlways == ASSUME StoreAssumption PROVE ModelsSpec => []AssetsOwned
<1>1. AssetInv => AssetsOwned
  BY DEF AssetInv, AssetsOwned, DeletesAlone, TurnInv
<1> QED
  BY <1>1, StoreAlways, PTL

(* A preparation that fails leaves the directory as it found it, up to what *)
(* its own rmtree could not remove.                                         *)
LEMMA PrepFailureKeeps ==
  ASSUME StoreAssumption, AssetInv, ModelsNext, NEW was \in before,
         prep.pc # "idle", prep'.pc = "idle", job'.status = "failed"
  PROVE  /\ registered' = was.registry
         /\ \A p \in Parts, k \in Keys : Unharmed(was.asset, asset', p, k)
<1>0. /\ registered = was.registry /\ del.pc = "idle"
      /\ \A p \in Parts, k \in Keys :
           IF p \in prep.published /\ k = job.key
           THEN was.asset[p][k] = Absent
           ELSE asset[p][k] = was.asset[p][k]
  BY DEF AssetInv, PastInv, TurnInv
<1>1. CASE Check \/ BuildFails
  <2>1. UNCHANGED <<registered, asset>> /\ prep.published = {}
    BY <1>1 DEF Check, BuildFails, disk, AssetInv, PrepInv
  <2> QED
    BY <1>0, <2>1 DEF Unharmed
<1>2. CASE PrepRollback
  <2>1. \A a \in Remains(job.repo) : a.state \in Torn
    BY DEF Remains, Asset
  <2>2. registered' = registered
    BY <1>2 DEF PrepRollback
  <2> SUFFICES ASSUME NEW p \in Parts, NEW k \in Keys PROVE Unharmed(was.asset, asset', p, k)
    BY <1>0, <2>2
  <2>3. CASE asset'[p][k] = asset[p][k] /\ ~(p \in prep.published /\ k = job.key)
    BY <1>0, <2>3 DEF Unharmed
  <2>4. CASE p \in prep.published /\ k = job.key /\ (asset'[p][k] = Absent \/ asset'[p][k] \in Remains(job.repo))
    BY <1>0, <2>1, <2>4 DEF Unharmed
  <2> QED
    BY <1>2, <2>3, <2>4, RollbackRemoves
<1>3. CASE Build \/ PublishSource \/ PublishRuntime \/ PublishFails \/ RunJob
  <2>1. prep \in [pc : PrepPlaces, seen : [Keys -> Repos \union {Absent}], had : SUBSET Parts, published : SUBSET Parts]
    BY DEF AssetInv, ShapeInv
  <2>2. prep'.pc # "idle"
    BY <1>3, <2>1 DEF Build, PublishSource, PublishRuntime, Publish, PublishFails, RunJob
  <2> QED
    BY <2>2
<1>4. CASE Register \/ BackendDies
  BY <1>4 DEF Register, BackendDies, Finish, NoJob
<1>5. CASE UNCHANGED prep
  BY <1>5
<1>6. CASE DeleteStep \/ \E k \in Keys : DeleteBegins(k)
  BY <1>5, <1>6 DEF DeleteStep, DeleteBegins, DeleteMoves, DeleteUnregisters, DeleteFails, DeleteRestores,
                    DeleteGivesUp, DeleteCleans
<1>7. CASE \/ \E q \in Requests : StartJob(q[1], q[2], q[3])
           \/ CloseBegins \/ CloseStep
           \/ \E k \in Started : BeginUse(k) \/ EndUse(k)
           \/ \E k \in Named : NameInProfile(k) \/ DropFromProfile(k)
  BY <1>5, <1>7 DEF StartJob, CloseBegins, CloseStep, CloseMarks, CloseReturns, BeginUse, EndUse,
                    NameInProfile, DropFromProfile
<1> QED
  BY <1>1, <1>2, <1>3, <1>4, <1>6, <1>7 DEF ModelsNext, PrepStep

(* A deletion that fails, or dies half way, leaves the registry as it was   *)
(* and every asset in its place or in a stage that is kept.                 *)
LEMMA DeleteFailureKeeps ==
  ASSUME StoreAssumption, AssetInv, ModelsNext, NEW was \in before,
         del.pc \notin {"idle", "clean"}, del'.pc = "idle"
  PROVE  /\ registered' = was.registry
         /\ \A p \in Parts, k \in Keys : Kept(was.asset, asset', leftover', p, k)
<1>0. /\ registered = was.registry /\ prep.pc = "idle" /\ closing = "open" /\ ~Active
      /\ \A p \in Parts, k \in Keys :
           IF k = del.key /\ del.held[p] # Absent
           THEN del.held[p] = was.asset[p][k]
           ELSE asset[p][k] = was.asset[p][k]
  BY DEF AssetInv, PastInv, TurnInv
<1>1. CASE DeleteGivesUp \/ BackendDies
  <2>1. /\ leftover' = (IF Holding THEN leftover \union {Stage} ELSE leftover)
        /\ UNCHANGED <<registered, asset>>
    BY <1>1 DEF DeleteGivesUp, BackendDies, KeptStages
  <2>2. \A p \in Parts : del.held[p] # Absent => \E s \in leftover' : s.key = del.key /\ s.held[p] = del.held[p]
    BY <2>1, StagesLeft
  <2>3. ASSUME NEW p \in Parts, NEW k \in Keys PROVE Kept(was.asset, asset', leftover', p, k)
    BY <1>0, <2>1, <2>2 DEF Kept
  <2> QED
    BY <1>0, <2>1, <2>3
<1>2. CASE \/ \E part \in Parts : DeleteMoves(part)
           \/ DeleteUnregisters \/ DeleteFails
           \/ DeleteRestores("restoreRuntime", "runtime", "restoreSource")
           \/ DeleteRestores("restoreSource", "source", "failed")
  <2>1. del \in [pc : DelPlaces, key : Keys \union {Absent}, held : Held]
    BY DEF AssetInv, ShapeInv
  <2>2. del'.pc # "idle"
    BY <1>2, <2>1 DEF DeleteMoves, DeleteUnregisters, DeleteFails, DeleteRestores
  <2> QED
    BY <2>2
<1>3. CASE DeleteCleans \/ \E k \in Keys : DeleteBegins(k)
  BY <1>3 DEF DeleteCleans, DeleteBegins
<1>4. CASE UNCHANGED del
  BY <1>4
<1>5. CASE PrepStep \/ RunJob
  BY <1>4, <1>5 DEF PrepStep, Check, BuildFails, Build, PublishSource, PublishRuntime, Register, PublishFails,
                    PrepRollback, RunJob
<1>6. CASE \/ \E q \in Requests : StartJob(q[1], q[2], q[3])
           \/ CloseBegins \/ CloseStep
           \/ \E k \in Started : BeginUse(k) \/ EndUse(k)
           \/ \E k \in Named : NameInProfile(k) \/ DropFromProfile(k)
  BY <1>4, <1>6 DEF StartJob, CloseBegins, CloseStep, CloseMarks, CloseReturns, BeginUse, EndUse,
                    NameInProfile, DropFromProfile
<1> QED
  BY <1>1, <1>2, <1>3, <1>5, <1>6 DEF ModelsNext, DeleteStep

(* Whatever fails keeps what was there (the OSError handlers of             *)
(* prepare_huggingface_model and delete_local_model, and a death between    *)
(* any two of a deletion's renames).                                        *)
THEOREM FailureKeepsAssetsAlways == ASSUME StoreAssumption PROVE ModelsSpec => FailureKeepsAssets
<1> DEFINE Keeps ==
      \A was \in before :
         /\ prep.pc # "idle" /\ prep'.pc = "idle" /\ job'.status = "failed" =>
              /\ registered' = was.registry
              /\ \A p \in Parts, k \in Keys : Unharmed(was.asset, asset', p, k)
         /\ del.pc \notin {"idle", "clean"} /\ del'.pc = "idle" =>
              /\ registered' = was.registry
              /\ \A p \in Parts, k \in Keys : Kept(was.asset, asset', leftover', p, k)
<1>1. AssetInv /\ [ModelsNext]_modelsVars => [Keeps]_modelsVars
  BY PrepFailureKeeps, DeleteFailureKeeps
<1>2. (ModelsSpec => FailureKeepsAssets) <=> (ModelsSpec => [][Keeps]_modelsVars)
  BY DEF FailureKeepsAssets
<1> HIDE DEF Keeps
<1>3. ModelsSpec => [][Keeps]_modelsVars
  BY <1>1, StoreAlways, PTL DEF ModelsSpec
<1> QED
  BY <1>2, <1>3
=============================================================================
