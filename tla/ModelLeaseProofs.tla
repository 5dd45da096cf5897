-------------------------- MODULE ModelLeaseProofs --------------------------
(* Proofs about ModelLease: the reference counts are exact, a leased model   *)
(* is never closed, and a configuration is never in memory twice.           *)
EXTENDS ModelLease, FiniteSetTheorems, TLAPS

(* Operations whose thread is closing a handle.                            *)
Closers == {o \in Ops : toClose[o] # None}

(* Where an operation is tells whether it holds a lease.                   *)
LeaseByPlace ==
  \A o \in Ops :
    /\ pc[o] \in {"idle", "locked"} => lease[o] = None /\ toClose[o] = None /\ o \notin loaded
                                       /\ wf[o] = "none"
    /\ KindOf[o] = "clip" /\ pc[o] = "using" => lease[o] # None
    /\ pc[o] = "opening" => lease[o] # None /\ wf[o] = "none"
    /\ KindOf[o] = "mic" /\ wf[o] = "live" => lease[o] # None

(* A cached handle is loaded, of its own key, and its key is not closing.  *)
CacheInv ==
  \A k \in Keys : handle[k] # None =>
    handle[k] \in loaded /\ KeyOf[handle[k]] = k /\ k \notin closingKeys

(* The thread that closes a handle has given its lease back, holds the key  *)
(* back until it is done, and is the only one to close a handle of the key. *)
ClosersInv ==
  /\ \A o \in Closers :
       lease[o] = None /\ toClose[o] \in Ops /\ KeyOf[toClose[o]] = KeyOf[o]
       /\ KeyOf[o] \in closingKeys
  /\ \A o, p \in Closers : KeyOf[o] = KeyOf[p] => o = p

(* A handle in memory is cached or about to be closed.                     *)
LoadedInv ==
  \A h \in loaded : handle[KeyOf[h]] = h \/ \E o \in Closers : toClose[o] = h

(* What the cache, the counts and the closing threads agree on.            *)
CountInv ==
  /\ CacheInv /\ ClosersInv /\ LoadedInv
  /\ LeaseLive /\ LeasesCounted /\ modelsClosing = Cardinality(Closers)

LeaseInv == LeaseByPlace /\ CountInv

(* After close nothing can be loaded or started any more.                  *)
ClosedInv ==
  /\ closer \notin {"idle", "locked"} => closing
  /\ ClosedMeansUnloaded

-----------------------------------------------------------------------------
(* Leases and closing threads can be counted.                              *)
LEMMA Countable ==
  /\ IsFiniteSet(Closers) /\ Cardinality(Closers) \in Nat /\ Cardinality(Closers') \in Nat
  /\ \A k : IsFiniteSet(Leasing(k)) /\ Cardinality(Leasing(k)) \in Nat
<1>1. /\ Closers \in SUBSET Ops /\ Closers' \in SUBSET Ops
      /\ \A k : Leasing(k) \in SUBSET Ops
  BY DEF Closers, Leasing
<1>2. IsFiniteSet(Closers) /\ IsFiniteSet(Closers') /\ \A k : IsFiniteSet(Leasing(k))
  BY <1>1, FS_Subset, ModelLeaseAssumption
<1> QED
  BY <1>2, FS_CardinalityType

(* A step that touches neither the cache nor a lease keeps their invariant. *)
LEMMA CountFrame ==
  ASSUME CountInv, UNCHANGED <<modelVars, lease, toClose>>
  PROVE  CountInv'
  BY DEF CountInv, CacheInv, ClosersInv, LoadedInv, LeaseLive, LeasesCounted, Leasing,
         Closers, modelVars

(* Taking a lease keeps the counts and the cache.                          *)
LEMMA CountAcquire ==
  ASSUME TypeOK, CountInv, NEW o \in Ops, Acquire(o), toClose' = toClose,
         lease[o] = None, toClose[o] = None, o \notin loaded
  PROVE  CountInv'
<1> DEFINE k == KeyOf[o]
<1>0. k \in Keys /\ k \notin closingKeys /\ o # None
  BY ModelLeaseAssumption DEF Acquire, KeyFree
<1>1. /\ users' = [users EXCEPT ![k] = @ + 1]
      /\ lease' = [lease EXCEPT ![o] = handle'[k]]
      /\ UNCHANGED <<closingKeys, modelsClosing>>
  BY DEF Acquire
<1>2. \/ handle[k] = None /\ handle' = [handle EXCEPT ![k] = o] /\ loaded' = loaded \union {o}
      \/ handle[k] # None /\ handle' = handle /\ loaded' = loaded
  BY DEF Acquire
<1>3. handle'[k] # None /\ handle'[k] \in loaded' /\ KeyOf[handle'[k]] = k
  BY <1>0, <1>2 DEF TypeOK, CountInv, CacheInv
<1>4. CacheInv'
  BY <1>0, <1>1, <1>2, <1>3 DEF TypeOK, CountInv, CacheInv
<1>5. Closers' = Closers
  BY DEF Closers
<1>6. ClosersInv'
  BY <1>1, <1>5, ModelLeaseAssumption DEF TypeOK, CountInv, ClosersInv, Closers
<1>7. LoadedInv'
  BY <1>0, <1>2, <1>5, ModelLeaseAssumption DEF TypeOK, CountInv, LoadedInv
<1>8. LeaseLive'
  <2>1. lease'[o] = handle'[k]
    BY <1>1 DEF TypeOK
  <2>2. ASSUME NEW p \in Ops, p # o, lease'[p] # None
        PROVE  lease'[p] = handle'[KeyOf[p]] /\ lease'[p] \in loaded'
    <3>1. lease'[p] = lease[p] /\ lease[p] = handle[KeyOf[p]] /\ lease[p] \in loaded
      BY <1>1, <2>2 DEF TypeOK, CountInv, LeaseLive
    <3> QED
      BY <1>0, <1>2, <2>2, <3>1, ModelLeaseAssumption DEF TypeOK
  <2> QED
    BY <1>3, <2>1, <2>2 DEF LeaseLive
<1>9. LeasesCounted'
  <2>1. Leasing(k)' = Leasing(k) \union {o}
    BY <1>1, <1>3 DEF TypeOK, Leasing
  <2>2. Cardinality(Leasing(k)') = Cardinality(Leasing(k)) + 1
    <3>1. IsFiniteSet(Leasing(k)) /\ o \notin Leasing(k)
      BY Countable DEF Leasing
    <3>2. Cardinality(Leasing(k) \union {o}) = Cardinality(Leasing(k)) + 1
      BY <3>1, FS_AddElement
    <3> QED
      BY <2>1, <3>2
  <2>3. \A j \in Keys : j # k => Leasing(j)' = Leasing(j)
    BY <1>1 DEF TypeOK, Leasing
  <2> QED
    BY <1>0, <1>1, <2>2, <2>3 DEF TypeOK, CountInv, LeasesCounted
<1> QED
  BY <1>1, <1>4, <1>5, <1>6, <1>7, <1>8, <1>9 DEF CountInv

(* The last lease of a key is the only one.                                *)
LEMMA OnlyLease ==
  ASSUME TypeOK, CountInv, NEW o \in Ops, lease[o] # None, users[KeyOf[o]] <= 1
  PROVE  users[KeyOf[o]] = 1 /\ Leasing(KeyOf[o]) = {o}
<1> DEFINE L == Leasing(KeyOf[o])
<1>1. o \in L /\ KeyOf[o] \in Keys
  BY ModelLeaseAssumption DEF Leasing
<1>2. IsFiniteSet(L) /\ Cardinality(L) \in Nat /\ Cardinality(L) <= 1
  BY <1>1, Countable DEF CountInv, LeasesCounted
<1>3. Cardinality(L) # 0
  BY <1>1, <1>2, FS_EmptySet
<1>4. Cardinality(L) = 1
  BY <1>2, <1>3
<1>5. PICK x : L = {x}
  BY <1>2, <1>4, FS_Singleton
<1> QED
  BY <1>1, <1>4, <1>5 DEF CountInv, LeasesCounted

(* Giving a lease back, as the last user or not.                           *)
LEMMA CountRelease ==
  ASSUME TypeOK, CountInv, NEW o \in Ops, Release(o), lease[o] # None
  PROVE  CountInv'
<1> DEFINE k == KeyOf[o]
<1>0. /\ k \in Keys /\ handle[k] = lease[o] /\ KeyOf[lease[o]] = k /\ k \notin closingKeys
      /\ toClose[o] = None /\ lease[o] \in loaded /\ lease[o] \in Ops
  BY ModelLeaseAssumption DEF TypeOK, CountInv, LeaseLive, CacheInv, ClosersInv, Closers
<1>1. lease' = [lease EXCEPT ![o] = None] /\ loaded' = loaded
  BY DEF Release
<1>2. Leasing(k)' = Leasing(k) \ {o} /\ \A j \in Keys : j # k => Leasing(j)' = Leasing(j)
  BY <1>1 DEF TypeOK, Leasing
<1>3. Cardinality(Leasing(k)') = users[k] - 1
  <2>1. IsFiniteSet(Leasing(k)) /\ o \in Leasing(k)
    BY Countable DEF Leasing
  <2>2. Cardinality(Leasing(k) \ {o}) = Cardinality(Leasing(k)) - 1
    BY <2>1, FS_RemoveElement
  <2>3. users[k] = Cardinality(Leasing(k))
    BY <1>0 DEF CountInv, LeasesCounted
  <2> QED
    BY <1>2, <2>2, <2>3
<1>4. CASE users[k] <= 1 /\ LastRelease(o)
  <2>1. /\ users' = [users EXCEPT ![k] = 0] /\ handle' = [handle EXCEPT ![k] = None]
        /\ closingKeys' = closingKeys \union {k} /\ modelsClosing' = modelsClosing + 1
        /\ toClose' = [toClose EXCEPT ![o] = lease[o]]
    BY <1>4 DEF LastRelease
  <2>2. users[k] = 1 /\ Leasing(k) = {o}
    BY <1>4, OnlyLease
  <2>3. Closers' = Closers \union {o} /\ o \notin Closers
    BY <1>0, <2>1, ModelLeaseAssumption DEF TypeOK, Closers
  <2>4. Cardinality(Closers') = Cardinality(Closers) + 1
    BY <2>3, Countable, FS_AddElement
  <2>5. CacheInv'
    BY <1>1, <2>1 DEF TypeOK, CountInv, CacheInv
  <2>6. ClosersInv'
    <3>1. \A p \in Closers : KeyOf[p] # k
      BY <1>0 DEF CountInv, ClosersInv
    <3>2. /\ toClose'[o] = lease[o] /\ lease'[o] = None
          /\ \A p \in Closers : p \in Ops /\ toClose'[p] = toClose[p] /\ lease'[p] = lease[p]
      BY <1>1, <2>1, <2>3 DEF TypeOK, Closers
    <3>3. \A p \in Closers' : p = o \/ p \in Closers
      BY <2>3
    <3>4. ASSUME NEW p \in Closers'
          PROVE  /\ lease'[p] = None /\ toClose'[p] \in Ops /\ KeyOf[toClose'[p]] = KeyOf[p]
                 /\ KeyOf[p] \in closingKeys'
      BY <1>0, <2>1, <3>2, <3>3 DEF CountInv, ClosersInv
    <3>5. \A p, q \in Closers' : KeyOf[p] = KeyOf[q] => p = q
      BY <3>1, <3>3 DEF CountInv, ClosersInv
    <3> QED
      BY <3>4, <3>5 DEF ClosersInv
  <2>7. LoadedInv'
    <3>1. ASSUME NEW h \in loaded, handle[KeyOf[h]] = h
          PROVE  handle'[KeyOf[h]] = h \/ \E p \in Closers' : toClose'[p] = h
      <4>1. CASE KeyOf[h] = k
        BY <1>0, <2>1, <2>3, <3>1, <4>1 DEF TypeOK
      <4>2. CASE KeyOf[h] # k
        BY <2>1, <3>1, <4>2, ModelLeaseAssumption DEF TypeOK
      <4> QED
        BY <4>1, <4>2
    <3>2. ASSUME NEW h, NEW p \in Closers, toClose[p] = h
          PROVE  p \in Closers' /\ toClose'[p] = h
      BY <2>1, <2>3, <3>2 DEF TypeOK, Closers
    <3> QED
      BY <1>1, <3>1, <3>2 DEF CountInv, LoadedInv
  <2>8. LeaseLive'
    BY <1>1, <2>1, <2>2 DEF TypeOK, CountInv, LeaseLive, Leasing
  <2>9. LeasesCounted'
    <3>1. \A j \in Keys : users'[j] = IF j = k THEN 0 ELSE users[j]
      BY <2>1 DEF TypeOK
    <3>2. Cardinality(Leasing(k)') = 0
      BY <1>3, <2>2
    <3>3. \A j \in Keys : j # k => users[j] = Cardinality(Leasing(j)')
      BY <1>2 DEF CountInv, LeasesCounted
    <3> QED
      BY <3>1, <3>2, <3>3 DEF LeasesCounted
  <2> QED
    BY <2>1, <2>4, <2>5, <2>6, <2>7, <2>8, <2>9 DEF CountInv
<1>5. CASE /\ users[k] > 1 /\ users' = [users EXCEPT ![k] = @ - 1]
           /\ UNCHANGED <<handle, closingKeys, modelsClosing, toClose>>
  <2>1. Closers' = Closers
    BY <1>5 DEF Closers
  <2>2. CacheInv' /\ LoadedInv'
    BY <1>1, <1>5, <2>1 DEF CountInv, CacheInv, LoadedInv
  <2>3. ClosersInv'
    BY <1>1, <1>5, <2>1 DEF TypeOK, CountInv, ClosersInv, Closers
  <2>4. LeaseLive'
    BY <1>1, <1>5 DEF TypeOK, CountInv, LeaseLive
  <2>5. LeasesCounted'
    BY <1>0, <1>2, <1>3, <1>5 DEF TypeOK, CountInv, LeasesCounted
  <2> QED
    BY <1>5, <2>1, <2>2, <2>3, <2>4, <2>5 DEF CountInv
<1> QED
  BY <1>0, <1>4, <1>5 DEF Release

(* handle.close() takes out of memory a handle nobody can find any more.   *)
LEMMA CountHandleClosed ==
  ASSUME TypeOK, CountInv, NEW o \in Ops, HandleClosed(o)
  PROVE  CountInv'
<1>1. /\ toClose[o] \in loaded /\ loaded' = loaded \ {toClose[o]}
      /\ UNCHANGED <<handle, users, closingKeys, modelsClosing, lease, toClose>>
  BY DEF HandleClosed, opVars
<1>2. o \in Closers /\ toClose[o] \in Ops
  BY <1>1, ModelLeaseAssumption DEF TypeOK, Closers
<1>3. KeyOf[toClose[o]] = KeyOf[o] /\ KeyOf[o] \in closingKeys
  BY <1>2 DEF CountInv, ClosersInv
<1>4. \A k \in Keys : handle[k] # toClose[o]
  BY <1>2, <1>3, ModelLeaseAssumption DEF CountInv, CacheInv
<1>5. CacheInv'
  BY <1>1, <1>4 DEF CountInv, CacheInv
<1>6. ClosersInv' /\ LoadedInv' /\ Closers' = Closers
  BY <1>1 DEF CountInv, ClosersInv, LoadedInv, Closers
<1>7. LeaseLive'
  BY <1>1, <1>4, ModelLeaseAssumption DEF CountInv, LeaseLive
<1>8. LeasesCounted'
  BY <1>1 DEF CountInv, LeasesCounted, Leasing
<1> QED
  BY <1>1, <1>5, <1>6, <1>7, <1>8 DEF CountInv

(* The closing thread reports: its key is free again.                      *)
LEMMA CountReported ==
  ASSUME TypeOK, CountInv, NEW o \in Ops, CloseReported(o)
  PROVE  CountInv'
<1>1. /\ toClose[o] \notin loaded \union {None} /\ toClose' = [toClose EXCEPT ![o] = None]
      /\ modelsClosing' = modelsClosing - 1 /\ closingKeys' = closingKeys \ {KeyOf[o]}
      /\ UNCHANGED <<handle, users, loaded, lease>>
  BY DEF CloseReported
<1>2. o \in Closers /\ Closers' = Closers \ {o}
  BY <1>1 DEF TypeOK, Closers
<1>3. Cardinality(Closers') = Cardinality(Closers) - 1
  BY <1>2, Countable, FS_RemoveElement
<1>4. CacheInv' /\ LeaseLive' /\ LeasesCounted'
  BY <1>1 DEF CountInv, CacheInv, LeaseLive, LeasesCounted, Leasing
<1>5. ClosersInv'
  BY <1>1, <1>2 DEF TypeOK, CountInv, ClosersInv, Closers
<1>6. LoadedInv'
  BY <1>1, <1>2 DEF TypeOK, CountInv, LoadedInv, Closers
<1> QED
  BY <1>1, <1>3, <1>4, <1>5, <1>6 DEF CountInv

(* close() finds no lease and no closing thread, and empties the memory.   *)
LEMMA CountFinish ==
  ASSUME TypeOK, CountInv, CloseFinish
  PROVE  CountInv' /\ loaded' = {} /\ \A o \in Ops : Released(o)'
<1>1. /\ modelsClosing = 0 /\ loaded' = loaded \ {handle[k] : k \in Keys}
      /\ \A k \in Keys : users[k] = 0
      /\ handle' = [k \in Keys |-> None] /\ users' = [k \in Keys |-> 0]
      /\ UNCHANGED <<closingKeys, modelsClosing, lease, toClose>>
  BY DEF CloseFinish, CloseUnchanged, opVars
<1>2. Closers = {} /\ Closers' = {}
  BY <1>1, Countable, FS_EmptySet DEF CountInv, Closers
<1>3. \A k \in Keys : Leasing(k) = {} /\ Leasing(k)' = {}
  BY <1>1, Countable, FS_EmptySet DEF CountInv, LeasesCounted, Leasing
<1>4. \A o \in Ops : lease[o] = None /\ toClose[o] = None
  BY <1>2, <1>3, ModelLeaseAssumption DEF Leasing, Closers
<1>5. loaded' = {}
  BY <1>1, <1>2, ModelLeaseAssumption DEF TypeOK, CountInv, LoadedInv
<1>6. Cardinality({}) = 0
  BY FS_EmptySet
<1>7. LeasesCounted'
  BY <1>1, <1>3, <1>6 DEF LeasesCounted
<1>8. CacheInv' /\ ClosersInv' /\ LoadedInv' /\ LeaseLive'
  BY <1>1, <1>2, <1>4, <1>5 DEF CacheInv, ClosersInv, LoadedInv, LeaseLive
<1> QED
  BY <1>1, <1>2, <1>4, <1>5, <1>6, <1>7, <1>8 DEF CountInv, Released

(* Types, by the action that takes the step.                               *)
LEMMA TypeStep ==
  ASSUME TypeOK, CountInv', [Next]_vars
  PROVE  TypeOK'
<1>0. modelsClosing' \in Nat
  BY Countable DEF CountInv
<1> USE ModelLeaseAssumption DEF TypeOK, lockVars, ownVars, opVars, closeVars, modelVars, CloseUnchanged, Goto
<1>1. ASSUME NEW o \in Ops, Op(o) PROVE TypeOK'
  <2>1. CASE ClipAcquire(o)
    BY <2>1, <1>0 DEF ClipAcquire, Acquire
  <2>2. CASE ClipRefused(o)
    BY <2>2, <1>0 DEF ClipRefused
  <2>3. CASE ClipReturns(o)
    BY <2>3, <1>0 DEF ClipReturns, Release, LastRelease
  <2>4. CASE IsolatedStart(o)
    BY <2>4, <1>0 DEF IsolatedStart
  <2>5. CASE IsolatedRefused(o)
    BY <2>5, <1>0 DEF IsolatedRefused
  <2>6. CASE IsolatedEnds(o)
    BY <2>6, <1>0 DEF IsolatedEnds
  <2>7. CASE StartLock(o)
    BY <2>7, <1>0 DEF StartLock
  <2>8. CASE MicAcquire(o)
    BY <2>8, <1>0 DEF MicAcquire, Acquire
  <2>9. CASE MicRefused(o)
    BY <2>9, <1>0 DEF MicRefused
  <2>10. CASE MicOpen(o)
    BY <2>10, <1>0 DEF MicOpen
  <2>11. CASE MicOpenFails(o)
    BY <2>11, <1>0 DEF MicOpenFails, Release, LastRelease
  <2>12. CASE MicFailed(o)
    BY <2>12, <1>0 DEF MicFailed
  <2>13. CASE MicAttach(o)
    BY <2>13, <1>0 DEF MicAttach
  <2>14. CASE MicRegister(o)
    BY <2>14, <1>0 DEF MicRegister
  <2>15. CASE WorkflowEnds(o)
    BY <2>15, <1>0 DEF WorkflowEnds, Release, LastRelease
  <2>16. CASE WorkflowFinished(o)
    BY <2>16, <1>0 DEF WorkflowFinished
  <2>17. CASE ProcessStart(o)
    BY <2>17, <1>0 DEF ProcessStart
  <2>18. CASE ProcessRefused(o)
    BY <2>18, <1>0 DEF ProcessRefused
  <2>19. CASE ProcessEnds(o)
    BY <2>19, <1>0 DEF ProcessEnds
  <2>20. CASE HandleClosed(o)
    BY <2>20, <1>0 DEF HandleClosed
  <2>21. CASE CloseReported(o)
    BY <2>21, <1>0 DEF CloseReported
  <2> QED
    BY <1>1, <2>1, <2>2, <2>3, <2>4, <2>5, <2>6, <2>7, <2>8, <2>9, <2>10, <2>11, <2>12, <2>13,
       <2>14, <2>15, <2>16, <2>17, <2>18, <2>19, <2>20, <2>21 DEF Op, Proceeds
<1>2. CASE CloseLock
  BY <1>2, <1>0 DEF CloseLock
<1>3. CASE Close
  <2>1. CASE CloseMark
    BY <2>1, <1>0 DEF CloseMark
  <2>2. CASE CloseCollect
    BY <2>2, <1>0 DEF CloseCollect
  <2>3. CASE CloseGroups
    BY <2>3, <1>0 DEF CloseGroups
  <2>4. CASE CloseFinish
    BY <2>4, <1>0 DEF CloseFinish
  <2>5. ASSUME NEW o \in Ops, CloseStop(o) PROVE TypeOK'
    BY <2>5, <1>0 DEF CloseStop
  <2>6. ASSUME NEW o \in Ops, CloseStopped(o) PROVE TypeOK'
    BY <2>6, <1>0 DEF CloseStopped
  <2>7. ASSUME NEW o \in Ops, CloseGroup(o) PROVE TypeOK'
    BY <2>7, <1>0 DEF CloseGroup
  <2> QED
    BY <1>3, <2>1, <2>2, <2>3, <2>4, <2>5, <2>6, <2>7 DEF Close
<1>4. CASE UNCHANGED vars
  BY <1>4 DEF vars
<1> QED
  BY <1>1, <1>2, <1>3, <1>4 DEF Next

(* Where an operation is keeps telling whether it holds a lease.           *)
LEMMA PlaceStep ==
  ASSUME TypeOK, LeaseInv, [Next]_vars
  PROVE  LeaseByPlace'
<1> USE ModelLeaseAssumption DEF TypeOK, LeaseInv, LeaseByPlace, lockVars, ownVars, opVars, closeVars, modelVars, CloseUnchanged, Goto
<1>1. ASSUME NEW o \in Ops, Op(o) PROVE LeaseByPlace'
  <2>1. CASE ClipAcquire(o)
    BY <2>1 DEF ClipAcquire, Acquire
  <2>2. CASE ClipRefused(o)
    BY <2>2 DEF ClipRefused
  <2>3. CASE ClipReturns(o)
    BY <2>3 DEF ClipReturns, Release, LastRelease
  <2>4. CASE IsolatedStart(o)
    BY <2>4 DEF IsolatedStart
  <2>5. CASE IsolatedRefused(o)
    BY <2>5 DEF IsolatedRefused
  <2>6. CASE IsolatedEnds(o)
    BY <2>6 DEF IsolatedEnds
  <2>7. CASE StartLock(o)
    BY <2>7 DEF StartLock
  <2>8. CASE MicAcquire(o)
    BY <2>8 DEF MicAcquire, Acquire
  <2>9. CASE MicRefused(o)
    BY <2>9 DEF MicRefused
  <2>10. CASE MicOpen(o)
    BY <2>10 DEF MicOpen
  <2>11. CASE MicOpenFails(o)
    BY <2>11 DEF MicOpenFails, Release, LastRelease
  <2>12. CASE MicFailed(o)
    BY <2>12 DEF MicFailed
  <2>13. CASE MicAttach(o)
    BY <2>13 DEF MicAttach
  <2>14. CASE MicRegister(o)
    BY <2>14 DEF MicRegister
  <2>15. CASE WorkflowEnds(o)
    BY <2>15 DEF WorkflowEnds, Release, LastRelease
  <2>16. CASE WorkflowFinished(o)
    BY <2>16 DEF WorkflowFinished
  <2>17. CASE ProcessStart(o)
    BY <2>17 DEF ProcessStart
  <2>18. CASE ProcessRefused(o)
    BY <2>18 DEF ProcessRefused
  <2>19. CASE ProcessEnds(o)
    BY <2>19 DEF ProcessEnds
  <2>20. CASE HandleClosed(o)
    BY <2>20 DEF HandleClosed
  <2>21. CASE CloseReported(o)
    BY <2>21 DEF CloseReported
  <2> QED
    BY <1>1, <2>1, <2>2, <2>3, <2>4, <2>5, <2>6, <2>7, <2>8, <2>9, <2>10, <2>11, <2>12, <2>13,
       <2>14, <2>15, <2>16, <2>17, <2>18, <2>19, <2>20, <2>21 DEF Op, Proceeds
<1>2. CASE CloseLock
  BY <1>2 DEF CloseLock
<1>3. CASE Close
  <2>1. CASE CloseMark
    BY <2>1 DEF CloseMark
  <2>2. CASE CloseCollect
    BY <2>2 DEF CloseCollect
  <2>3. CASE CloseGroups
    BY <2>3 DEF CloseGroups
  <2>4. CASE CloseFinish
    BY <2>4 DEF CloseFinish
  <2>5. ASSUME NEW o \in Ops, CloseStop(o) PROVE LeaseByPlace'
    BY <2>5 DEF CloseStop
  <2>6. ASSUME NEW o \in Ops, CloseStopped(o) PROVE LeaseByPlace'
    BY <2>6 DEF CloseStopped
  <2>7. ASSUME NEW o \in Ops, CloseGroup(o) PROVE LeaseByPlace'
    BY <2>7 DEF CloseGroup
  <2> QED
    BY <1>3, <2>1, <2>2, <2>3, <2>4, <2>5, <2>6, <2>7 DEF Close
<1>4. CASE UNCHANGED vars
  BY <1>4 DEF vars
<1> QED
  BY <1>1, <1>2, <1>3, <1>4 DEF Next

(* The counts, the cache and the closing threads keep agreeing.            *)
LEMMA CountStep ==
  ASSUME TypeOK, LeaseInv, [Next]_vars
  PROVE  CountInv'
<1>1. ASSUME NEW o \in Ops, Op(o) PROVE CountInv'
  <2>1. CASE ClipAcquire(o)
    BY <2>1, CountAcquire, ModelLeaseAssumption DEF ClipAcquire, LeaseInv, LeaseByPlace
  <2>2. CASE ClipRefused(o)
    BY <2>2, CountFrame DEF ClipRefused, LeaseInv
  <2>3. CASE ClipReturns(o)
    BY <2>3, CountRelease DEF ClipReturns, LeaseInv, LeaseByPlace
  <2>4. CASE IsolatedStart(o)
    BY <2>4, CountFrame DEF IsolatedStart, LeaseInv
  <2>5. CASE IsolatedRefused(o)
    BY <2>5, CountFrame DEF IsolatedRefused, LeaseInv
  <2>6. CASE IsolatedEnds(o)
    BY <2>6, CountFrame DEF IsolatedEnds, LeaseInv
  <2>7. CASE StartLock(o)
    BY <2>7, CountFrame DEF StartLock, LeaseInv
  <2>8. CASE MicAcquire(o)
    BY <2>8, CountAcquire, ModelLeaseAssumption DEF MicAcquire, LeaseInv, LeaseByPlace
  <2>9. CASE MicRefused(o)
    BY <2>9, CountFrame DEF MicRefused, LeaseInv
  <2>10. CASE MicOpen(o)
    BY <2>10, CountFrame DEF MicOpen, LeaseInv
  <2>11. CASE MicOpenFails(o)
    BY <2>11, CountRelease DEF MicOpenFails, LeaseInv, LeaseByPlace
  <2>12. CASE MicFailed(o)
    BY <2>12, CountFrame DEF MicFailed, LeaseInv
  <2>13. CASE MicAttach(o)
    BY <2>13, CountFrame DEF MicAttach, LeaseInv
  <2>14. CASE MicRegister(o)
    BY <2>14, CountFrame DEF MicRegister, LeaseInv
  <2>15. CASE WorkflowEnds(o)
    BY <2>15, CountRelease DEF WorkflowEnds, LeaseInv, LeaseByPlace
  <2>16. CASE WorkflowFinished(o)
    BY <2>16, CountFrame DEF WorkflowFinished, LeaseInv
  <2>17. CASE ProcessStart(o)
    BY <2>17, CountFrame DEF ProcessStart, LeaseInv
  <2>18. CASE ProcessRefused(o)
    BY <2>18, CountFrame DEF ProcessRefused, LeaseInv
  <2>19. CASE ProcessEnds(o)
    BY <2>19, CountFrame DEF ProcessEnds, LeaseInv
  <2>20. CASE HandleClosed(o)
    BY <2>20, CountHandleClosed DEF LeaseInv
  <2>21. CASE CloseReported(o)
    BY <2>21, CountReported DEF LeaseInv
  <2> QED
    BY <1>1, <2>1, <2>2, <2>3, <2>4, <2>5, <2>6, <2>7, <2>8, <2>9, <2>10, <2>11, <2>12, <2>13,
       <2>14, <2>15, <2>16, <2>17, <2>18, <2>19, <2>20, <2>21 DEF Op, Proceeds
<1>2. CASE CloseLock
  BY <1>2, CountFrame DEF CloseLock, CloseUnchanged, opVars, LeaseInv
<1>3. CASE Close
  <2>1. CASE CloseMark
    BY <2>1, CountFrame DEF CloseMark, CloseUnchanged, opVars, LeaseInv
  <2>2. CASE CloseCollect
    BY <2>2, CountFrame DEF CloseCollect, CloseUnchanged, opVars, LeaseInv
  <2>3. CASE CloseGroups
    BY <2>3, CountFrame DEF CloseGroups, CloseUnchanged, opVars, LeaseInv
  <2>4. CASE CloseFinish
    BY <2>4, CountFinish DEF LeaseInv
  <2>5. ASSUME NEW o \in Ops, CloseStop(o) PROVE CountInv'
    BY <2>5, CountFrame DEF CloseStop, CloseUnchanged, opVars, LeaseInv
  <2>6. ASSUME NEW o \in Ops, CloseStopped(o) PROVE CountInv'
    BY <2>6, CountFrame DEF CloseStopped, CloseUnchanged, opVars, LeaseInv
  <2>7. ASSUME NEW o \in Ops, CloseGroup(o) PROVE CountInv'
    BY <2>7, CountFrame DEF CloseGroup, CloseUnchanged, opVars, LeaseInv
  <2> QED
    BY <1>3, <2>1, <2>2, <2>3, <2>4, <2>5, <2>6, <2>7 DEF Close
<1>4. CASE UNCHANGED vars
  BY <1>4, CountFrame DEF vars, opVars, LeaseInv
<1> QED
  BY <1>1, <1>2, <1>3, <1>4 DEF Next

(* Once close has emptied the memory, the closing flag keeps it empty.     *)
LEMMA ClosedStep ==
  ASSUME TypeOK, LeaseInv, ClosedInv, [Next]_vars
  PROVE  ClosedInv'
<1> USE ModelLeaseAssumption DEF TypeOK, LeaseInv, LeaseByPlace, ClosedInv,
        ClosedMeansUnloaded, Released, lockVars, ownVars, opVars, closeVars, modelVars, CloseUnchanged, Goto
<1>1. ASSUME NEW o \in Ops, Op(o) PROVE ClosedInv'
  <2>1. CASE ClipAcquire(o)
    BY <2>1 DEF ClipAcquire, Acquire
  <2>2. CASE ClipRefused(o)
    BY <2>2 DEF ClipRefused
  <2>3. CASE ClipReturns(o)
    BY <2>3 DEF ClipReturns, Release
  <2>4. CASE IsolatedStart(o)
    BY <2>4 DEF IsolatedStart
  <2>5. CASE IsolatedRefused(o)
    BY <2>5 DEF IsolatedRefused
  <2>6. CASE IsolatedEnds(o)
    BY <2>6 DEF IsolatedEnds
  <2>7. CASE StartLock(o)
    BY <2>7 DEF StartLock
  <2>8. CASE MicAcquire(o)
    BY <2>8 DEF MicAcquire, Acquire
  <2>9. CASE MicRefused(o)
    BY <2>9 DEF MicRefused
  <2>10. CASE MicOpen(o)
    BY <2>10 DEF MicOpen
  <2>11. CASE MicOpenFails(o)
    BY <2>11 DEF MicOpenFails, Release
  <2>12. CASE MicFailed(o)
    BY <2>12 DEF MicFailed
  <2>13. CASE MicAttach(o)
    BY <2>13 DEF MicAttach
  <2>14. CASE MicRegister(o)
    BY <2>14 DEF MicRegister
  <2>15. CASE WorkflowEnds(o)
    BY <2>15 DEF WorkflowEnds, Release
  <2>16. CASE WorkflowFinished(o)
    BY <2>16 DEF WorkflowFinished
  <2>17. CASE ProcessStart(o)
    BY <2>17 DEF ProcessStart
  <2>18. CASE ProcessRefused(o)
    BY <2>18 DEF ProcessRefused
  <2>19. CASE ProcessEnds(o)
    BY <2>19 DEF ProcessEnds
  <2>20. CASE HandleClosed(o)
    BY <2>20 DEF HandleClosed
  <2>21. CASE CloseReported(o)
    BY <2>21 DEF CloseReported
  <2> QED
    BY <1>1, <2>1, <2>2, <2>3, <2>4, <2>5, <2>6, <2>7, <2>8, <2>9, <2>10, <2>11, <2>12, <2>13,
       <2>14, <2>15, <2>16, <2>17, <2>18, <2>19, <2>20, <2>21 DEF Op, Proceeds
<1>2. CASE CloseLock
  BY <1>2 DEF CloseLock
<1>3. CASE Close
  <2>1. CASE CloseMark
    BY <2>1 DEF CloseMark
  <2>2. CASE CloseCollect
    BY <2>2 DEF CloseCollect
  <2>3. CASE CloseGroups
    BY <2>3 DEF CloseGroups
  <2>4. CASE CloseFinish
    BY <2>4, CountFinish DEF LeaseInv, CloseFinish, ClosedInv, ClosedMeansUnloaded
  <2>5. ASSUME NEW o \in Ops, CloseStop(o) PROVE ClosedInv'
    BY <2>5 DEF CloseStop
  <2>6. ASSUME NEW o \in Ops, CloseStopped(o) PROVE ClosedInv'
    BY <2>6 DEF CloseStopped
  <2>7. ASSUME NEW o \in Ops, CloseGroup(o) PROVE ClosedInv'
    BY <2>7 DEF CloseGroup
  <2> QED
    BY <1>3, <2>1, <2>2, <2>3, <2>4, <2>5, <2>6, <2>7 DEF Close
<1>4. CASE UNCHANGED vars
  BY <1>4 DEF vars
<1> QED
  BY <1>1, <1>2, <1>3, <1>4 DEF Next

(* The invariant holds in every reachable state.                           *)
THEOREM LeaseInvariant == Spec => [](TypeOK /\ LeaseInv /\ ClosedInv)
<1>1. Init => TypeOK /\ LeaseInv /\ ClosedInv
  <2> SUFFICES ASSUME Init PROVE TypeOK /\ LeaseInv /\ ClosedInv
    OBVIOUS
  <2>1. TypeOK
    BY ModelLeaseAssumption DEF Init, TypeOK
  <2>2. Closers = {} /\ \A k : Leasing(k) = {}
    BY ModelLeaseAssumption DEF Init, Closers, Leasing
  <2>3. modelsClosing = Cardinality(Closers) /\ LeasesCounted
    BY <2>2, FS_EmptySet DEF Init, LeasesCounted
  <2>4. LeaseByPlace /\ CacheInv /\ ClosersInv /\ LoadedInv /\ LeaseLive
    BY <2>2, ModelLeaseAssumption
       DEF Init, LeaseByPlace, CacheInv, ClosersInv, LoadedInv, LeaseLive
  <2> QED
    BY <2>1, <2>3, <2>4 DEF Init, LeaseInv, CountInv, ClosedInv, ClosedMeansUnloaded
<1>2. TypeOK /\ LeaseInv /\ ClosedInv /\ [Next]_vars => (TypeOK /\ LeaseInv /\ ClosedInv)'
  BY TypeStep, PlaceStep, CountStep, ClosedStep DEF LeaseInv
<1> QED
  BY <1>1, <1>2, PTL DEF Spec

(* Types: for every set of operations, whatever their kinds and keys.      *)
THEOREM TypeCorrect == Spec => []TypeOK
  BY LeaseInvariant, PTL

(* A model in use is the cached one and stays loaded (service.py           *)
(* _acquire_model_config and _release_model).                              *)
THEOREM LeaseLiveAlways == Spec => []LeaseLive
<1>1. LeaseInv => LeaseLive
  BY DEF LeaseInv, CountInv
<1> QED
  BY <1>1, LeaseInvariant, PTL

(* _model_users[key] is the number of leases on the key.                   *)
THEOREM LeasesCountedAlways == Spec => []LeasesCounted
<1>1. LeaseInv => LeasesCounted
  BY DEF LeaseInv, CountInv
<1> QED
  BY <1>1, LeaseInvariant, PTL

(* _closing_model_keys keeps a configuration from being loaded a second    *)
(* time while its last handle is still being closed.                       *)
THEOREM LoadedOnceAlways == Spec => []LoadedOnce
<1>1. TypeOK /\ LeaseInv => LoadedOnce
  <2> SUFFICES ASSUME TypeOK, LeaseInv, NEW h \in loaded, NEW g \in loaded, KeyOf[h] = KeyOf[g]
               PROVE  h = g
    BY DEF LoadedOnce
  <2>1. h \in Ops /\ g \in Ops /\ KeyOf[h] \in Keys
    BY ModelLeaseAssumption DEF TypeOK
  <2>2. \A p \in Closers : KeyOf[toClose[p]] = KeyOf[p] /\ KeyOf[p] \in closingKeys
    BY DEF LeaseInv, CountInv, ClosersInv
  <2>3. CASE handle[KeyOf[h]] # None
    <3>1. \A p \in Closers : KeyOf[p] # KeyOf[h]
      BY <2>1, <2>2, <2>3 DEF LeaseInv, CountInv, CacheInv
    <3> QED
      BY <2>2, <3>1 DEF LeaseInv, CountInv, LoadedInv
  <2>4. CASE handle[KeyOf[h]] = None
    <3>1. /\ \E p \in Closers : toClose[p] = h
          /\ \E p \in Closers : toClose[p] = g
      BY <2>1, <2>4, ModelLeaseAssumption DEF LeaseInv, CountInv, LoadedInv
    <3> QED
      BY <2>2, <3>1 DEF LeaseInv, CountInv, ClosersInv
  <2> QED
    BY <2>3, <2>4
<1> QED
  BY <1>1, LeaseInvariant, PTL

(* When close() has returned nothing is loaded, leased or in a process.    *)
THEOREM ClosedMeansUnloadedAlways == Spec => []ClosedMeansUnloaded
<1>1. ClosedInv => ClosedMeansUnloaded
  BY DEF ClosedInv
<1> QED
  BY <1>1, LeaseInvariant, PTL

(* Leases, counts and handles agree: what is in use is loaded, once.       *)
THEOREM LeaseSafeAlways == Spec => []LeaseSafe
<1>1. LeaseLive /\ LeasesCounted /\ LoadedOnce => LeaseSafe
  BY DEF LeaseSafe
<1> QED
  BY <1>1, LeaseLiveAlways, LeasesCountedAlways, LoadedOnceAlways, PTL
-----------------------------------------------------------------------------
(* A start holds the start lock from its first look until the workflow is   *)
(* registered; a live workflow is on its way there or in the shared set, and *)
(* from there close() takes it over.                                        *)
SharedInv ==
  /\ \A o \in Ops :
       /\ pc[o] \in {"locked", "opening", "opened", "failing", "attached"} => startLock = o
       /\ pc[o] \in {"opening", "opened", "failing", "attached"} => KindOf[o] = "mic"
       /\ attached[o] => pc[o] \in {"attached", "done"}
       /\ pc[o] = "attached" => attached[o]
       /\ pc[o] = "opening" => wf[o] = "none"
       /\ pc[o] \in {"opened", "attached"} => wf[o] = "live" \/ lease[o] = None
       /\ KindOf[o] = "mic" /\ wf[o] = "live" =>
            \/ pc[o] \in {"opened", "attached"}
            \/ pc[o] = "done" /\ o \in sharedWorkflows
       /\ o \in sharedWorkflows =>
            KindOf[o] = "mic" /\ wf[o] = "live" /\ attached[o] /\ lease[o] # None
  /\ closer \in {"locked", "marked"} => startLock = Closer
  /\ closer \notin {"idle", "locked"} => \A o \in Ops : pc[o] # "opening"
  /\ closer \notin {"idle", "locked", "marked"} =>
       \A o \in Ops : KindOf[o] = "mic" /\ wf[o] = "live" =>
         o \in stopAsked \/ (closer = "stopping" /\ o \in toStop)

(* Every step keeps the start lock, the shared set and close() in step.     *)
LEMMA SharedStep ==
  ASSUME TypeOK, LeaseByPlace, ClosedInv, SharedInv, [Next]_vars
  PROVE  SharedInv'
<1> USE ModelLeaseAssumption DEF TypeOK, LeaseByPlace, ClosedInv, SharedInv, Released,
        lockVars, ownVars, opVars, closeVars, modelVars, CloseUnchanged, Goto
<1>1. ASSUME NEW o \in Ops, Op(o) PROVE SharedInv'
  <2>1. CASE ClipAcquire(o)
    BY <2>1 DEF ClipAcquire, Acquire
  <2>2. CASE ClipRefused(o)
    BY <2>2 DEF ClipRefused
  <2>3. CASE ClipReturns(o)
    BY <2>3 DEF ClipReturns, Release
  <2>4. CASE IsolatedStart(o)
    BY <2>4 DEF IsolatedStart
  <2>5. CASE IsolatedRefused(o)
    BY <2>5 DEF IsolatedRefused
  <2>6. CASE IsolatedEnds(o)
    BY <2>6 DEF IsolatedEnds
  <2>7. CASE StartLock(o)
    BY <2>7 DEF StartLock
  <2>8. CASE MicAcquire(o)
    BY <2>8 DEF MicAcquire, Acquire
  <2>9. CASE MicRefused(o)
    BY <2>9 DEF MicRefused
  <2>10. CASE MicOpen(o)
    BY <2>10 DEF MicOpen
  <2>11. CASE MicOpenFails(o)
    BY <2>11 DEF MicOpenFails, Release
  <2>12. CASE MicFailed(o)
    BY <2>12 DEF MicFailed
  <2>13. CASE MicAttach(o)
    BY <2>13 DEF MicAttach
  <2>14. CASE MicRegister(o)
    BY <2>14 DEF MicRegister
  <2>15. CASE WorkflowEnds(o)
    BY <2>15 DEF WorkflowEnds, Release
  <2>16. CASE WorkflowFinished(o)
    BY <2>16 DEF WorkflowFinished
  <2>17. CASE ProcessStart(o)
    BY <2>17 DEF ProcessStart
  <2>18. CASE ProcessRefused(o)
    BY <2>18 DEF ProcessRefused
  <2>19. CASE ProcessEnds(o)
    BY <2>19 DEF ProcessEnds
  <2>20. CASE HandleClosed(o)
    BY <2>20 DEF HandleClosed
  <2>21. CASE CloseReported(o)
    BY <2>21 DEF CloseReported
  <2> QED
    BY <1>1, <2>1, <2>2, <2>3, <2>4, <2>5, <2>6, <2>7, <2>8, <2>9, <2>10, <2>11, <2>12, <2>13,
       <2>14, <2>15, <2>16, <2>17, <2>18, <2>19, <2>20, <2>21 DEF Op, Proceeds
<1>2. CASE CloseLock
  BY <1>2 DEF CloseLock
<1>3. CASE Close
  <2>1. CASE CloseMark
    BY <2>1 DEF CloseMark
  <2>2. CASE CloseCollect
    BY <2>2 DEF CloseCollect
  <2>3. CASE CloseGroups
    BY <2>3 DEF CloseGroups
  <2>4. CASE CloseFinish
    BY <2>4 DEF CloseFinish
  <2>5. ASSUME NEW o \in Ops, CloseStop(o) PROVE SharedInv'
    BY <2>5 DEF CloseStop
  <2>6. ASSUME NEW o \in Ops, CloseStopped(o) PROVE SharedInv'
    BY <2>6 DEF CloseStopped
  <2>7. ASSUME NEW o \in Ops, CloseGroup(o) PROVE SharedInv'
    BY <2>7 DEF CloseGroup
  <2> QED
    BY <1>3, <2>1, <2>2, <2>3, <2>4, <2>5, <2>6, <2>7 DEF Close
<1>4. CASE UNCHANGED vars
  BY <1>4 DEF vars
<1> QED
  BY <1>1, <1>2, <1>3, <1>4 DEF Next

(* _shared_workflows never keeps a workflow that has finished, and once     *)
(* close() has collected it, no other workflow is live behind its back:     *)
(* a start got into the set before, or is refused.                          *)
THEOREM CloseSeesAllAlways == Spec => []CloseSeesAll
<1>1. Init => SharedInv
  BY DEF Init, SharedInv
<1>2. TypeOK /\ LeaseInv /\ ClosedInv /\ SharedInv /\ [Next]_vars => SharedInv'
  BY SharedStep DEF LeaseInv
<1>3. TypeOK /\ SharedInv => CloseSeesAll
  BY DEF TypeOK, SharedInv, CloseSeesAll
<1> QED
  BY <1>1, <1>2, <1>3, LeaseInvariant, PTL DEF Spec

(* close() sees every workflow of a shared model that got started, and      *)
(* leaves nothing loaded, leased or in a process.                           *)
THEOREM CloseCompleteAlways == Spec => []CloseComplete
<1>1. CloseSeesAll /\ ClosedMeansUnloaded => CloseComplete
  BY DEF CloseComplete
<1> QED
  BY <1>1, CloseSeesAllAlways, ClosedMeansUnloadedAlways, PTL

=============================================================================
