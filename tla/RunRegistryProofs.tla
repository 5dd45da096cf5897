------------------------- MODULE RunRegistryProofs -------------------------
(* Proofs about RunRegistry.                                                *)
EXTENDS RunRegistry, FiniteSetTheorems, SequenceTheorems, TLAPS

(* Statuses tell kinds apart; a record in a registry has a status, and an   *)
(* active record is in its registry.                                       *)
RegisteredInv ==
  /\ \A m \in Mics : status[m] \notin JobActive
  /\ \A j \in Jobs : status[j] \notin MicActive
  /\ \A r \in Range(runs) \union Range(stressRuns) : status[r] # "absent"
  /\ \A m \in Mics : status[m] \in MicActive => m \in Range(runs)
  /\ \A c \in Clips : status[c] \in JobActive => c \in Range(runs)
  /\ \A t \in Stresses : status[t] \in JobActive => t \in Range(stressRuns)

(* What a handler has done so far; a start from a profile holds the lock    *)
(* and, once it has looked, is the only one that may add a run of it.      *)
HandlerInv ==
  /\ \A r \in Requests : pc[r] \in {"idle", "locked", "scanned"} => status[r] = "absent"
  /\ \A j \in Jobs :
       /\ pc[j] \in {"idle", "submitting", "done"}
       /\ pc[j] = "submitting" => status[j] = "queued"
  /\ \A m \in Mics :
       /\ pc[m] # "submitting"
       /\ pc[m] \in {"locked", "scanned"} => ProfileOf[m] # None
       /\ pc[m] \in {"locked", "scanned", "opening", "opened"} /\ ProfileOf[m] # None
            => profileLock = m
       /\ pc[m] \in {"opening", "opened"} => status[m] \in {"starting", "stopping"}
       /\ pc[m] = "opening" => ~capturing[m]
       /\ pc[m] = "scanned" =>
            \A n \in Mics : ProfileOf[n] = ProfileOf[m] => status[n] \notin MicActive

(* Only an active run, or one given up as failed, holds a source.          *)
CaptureInv == \A m \in Mics : capturing[m] => status[m] \in MicActive \union {"failed"}

(* The pool works on active records only, on each once.                    *)
PoolInv ==
  /\ Distinct(queue)
  /\ \A j \in Range(queue) : status[j] = "queued" /\ pc[j] = "done"
  /\ \A j \in busy : status[j] = "running" /\ pc[j] = "done"

(* The statuses of microphone runs and stress tests exclude each other.    *)
ExclusionInv ==
  \A t \in Stresses : status[t] \in JobActive =>
    /\ \A m \in Mics : status[m] \notin MicActive
    /\ \A u \in Stresses : status[u] \in JobActive => u = t

Active == {m \in Mics : status[m] \in MicActive}

LimitInv == Cardinality(Active) <= MaxMics

(* What shutdown waits for is all there is to wait for.                    *)
ShutInv ==
  /\ shut # "idle" => shutdown
  /\ shut = "joining" => Active \subseteq joining
  /\ shut \in {"waiting", "done"} => Active = {}
  /\ shut = "done" => InPool = {}

RegistryInv ==
  /\ RegisteredInv /\ HandlerInv /\ CaptureInv /\ PoolInv
  /\ ExclusionInv /\ OneRunPerProfile /\ LimitInv /\ ShutInv
-----------------------------------------------------------------------------
(* Taking out one position of a sequence.                                  *)
LEMMA RemoveAtElements ==
  ASSUME NEW R, NEW s \in Seq(R), NEW i \in 1..Len(s)
  PROVE  /\ RemoveAt(s, i) \in Seq(R) /\ Len(RemoveAt(s, i)) = Len(s) - 1
         /\ \A j \in 1..(Len(s) - 1) : RemoveAt(s, i)[j] = IF j < i THEN s[j] ELSE s[j + 1]
<1> DEFINE a == SubSeq(s, 1, i - 1)
           b == SubSeq(s, i + 1, Len(s))
<1>1. /\ a \in Seq(R) /\ Len(a) = i - 1
      /\ \A j \in 1..(i - 1) : a[j] = s[j]
  OBVIOUS
<1>2. /\ b \in Seq(R) /\ Len(b) = Len(s) - i
      /\ \A j \in 1..(Len(s) - i) : b[j] = s[i + j]
  OBVIOUS
<1>3. RemoveAt(s, i) = a \o b
  BY DEF RemoveAt
<1> HIDE DEF a, b
<1>4. a \o b \in Seq(R) /\ Len(a \o b) = Len(a) + Len(b)
  BY <1>1, <1>2, ConcatProperties
<1>5. \A j \in 1..(Len(a) + Len(b)) : (a \o b)[j] = IF j <= Len(a) THEN a[j] ELSE b[j - Len(a)]
  BY <1>1, <1>2, ConcatProperties
<1>6. Len(a) + Len(b) = Len(s) - 1
  BY <1>1, <1>2
<1>7. ASSUME NEW j \in 1..(Len(s) - 1)
      PROVE  (a \o b)[j] = IF j < i THEN s[j] ELSE s[j + 1]
  <2>1. CASE j < i
    <3>1. j \in 1..(i - 1)
      BY <2>1
    <3> QED
      BY <1>1, <1>5, <1>6, <2>1, <3>1
  <2>2. CASE ~(j < i)
    <3>1. j - (i - 1) \in 1..(Len(s) - i) /\ i + (j - (i - 1)) = j + 1
      BY <2>2
    <3>2. (a \o b)[j] = b[j - (i - 1)]
      BY <1>1, <1>5, <1>6, <2>2
    <3> QED
      BY <1>2, <2>2, <3>1, <3>2
  <2> QED
    BY <2>1, <2>2
<1> QED
  BY <1>3, <1>4, <1>6, <1>7

(* A registry without one of its records.                                  *)
LEMMA RemoveAtRegistry ==
  ASSUME NEW R, NEW s \in Seq(R), NEW i \in 1..Len(s), Distinct(s)
  PROVE  /\ RemoveAt(s, i) \in Seq(R) /\ Len(RemoveAt(s, i)) = Len(s) - 1
         /\ Distinct(RemoveAt(s, i)) /\ Range(RemoveAt(s, i)) = Range(s) \ {s[i]}
<1> DEFINE u == RemoveAt(s, i)
<1>1. /\ u \in Seq(R) /\ Len(u) = Len(s) - 1
      /\ \A j \in 1..(Len(s) - 1) : u[j] = IF j < i THEN s[j] ELSE s[j + 1]
  BY RemoveAtElements
<1> HIDE DEF u
<1>2. Distinct(u)
  BY <1>1 DEF Distinct
<1>3. ASSUME NEW j \in 1..Len(u) PROVE u[j] \in Range(s) \ {s[i]}
  <2>1. /\ j \in 1..Len(s) /\ j + 1 \in 1..Len(s)
        /\ j # i => s[j] # s[i]
        /\ j + 1 # i => s[j + 1] # s[i]
    BY <1>1 DEF Distinct
  <2> QED
    BY <1>1, <2>1 DEF Range
<1>4. ASSUME NEW j \in 1..Len(s), s[j] # s[i] PROVE s[j] \in Range(u)
  <2>1. CASE j < i
    <3>1. j \in 1..Len(u) /\ u[j] = s[j]
      BY <1>1, <2>1
    <3> QED
      BY <1>1, <3>1 DEF Range
  <2>2. CASE j > i
    <3>1. j - 1 \in 1..Len(u) /\ u[j - 1] = s[j]
      BY <1>1, <2>2
    <3> QED
      BY <1>1, <3>1 DEF Range
  <2> QED
    BY <1>4, <2>1, <2>2
<1>5. Range(u) = Range(s) \ {s[i]}
  BY <1>1, <1>3, <1>4 DEF Range
<1> QED
  BY <1>1, <1>2, <1>5 DEF u

(* A registry with one more record.                                        *)
LEMMA AppendRegistry ==
  ASSUME NEW R, NEW s \in Seq(R), NEW r \in R, Distinct(s), r \notin Range(s)
  PROVE  /\ Append(s, r) \in Seq(R) /\ Len(Append(s, r)) = Len(s) + 1
         /\ Distinct(Append(s, r)) /\ Range(Append(s, r)) = Range(s) \union {r}
<1>1. /\ Append(s, r) \in Seq(R) /\ Len(Append(s, r)) = Len(s) + 1
      /\ \A j \in 1..Len(s) : Append(s, r)[j] = s[j]
      /\ Append(s, r)[Len(s) + 1] = r
  OBVIOUS
<1>2. \A j \in 1..Len(s) : s[j] # r
  BY DEF Range
<1>3. Distinct(Append(s, r))
  BY <1>1, <1>2 DEF Distinct
<1>4. Range(Append(s, r)) = Range(s) \union {r}
  BY <1>1 DEF Range
<1> QED
  BY <1>1, <1>3, <1>4

(* Admission keeps a registry within its bound, and every active record.   *)
LEMMA AdmittedRegistry ==
  ASSUME NEW R, NEW s \in Seq(R), NEW r \in R, NEW u \in Admitted(s, r),
         Distinct(s), r \notin Range(s), Len(s) <= MaxRuns
  PROVE  /\ u \in Seq(R) /\ Len(u) <= MaxRuns /\ Distinct(u)
         /\ r \in Range(u) /\ Range(u) \subseteq Range(s) \union {r}
         /\ \A q \in Range(s) : status[q] \notin Terminal => q \in Range(u)
<1> USE RunRegistryAssumption
<1>1. CASE Len(s) < MaxRuns
  <2>1. u = Append(s, r)
    BY <1>1 DEF Admitted
  <2> QED
    BY <1>1, <2>1, AppendRegistry
<1>2. CASE ~(Len(s) < MaxRuns)
  <2>1. PICK i \in OldestTerminal(s) : u = Append(RemoveAt(s, i), r)
    BY <1>2 DEF Admitted
  <2>2. i \in 1..Len(s) /\ status[s[i]] \in Terminal
    BY <2>1 DEF OldestTerminal
  <2> DEFINE v == RemoveAt(s, i)
  <2>3. v \in Seq(R) /\ Len(v) = Len(s) - 1 /\ Distinct(v) /\ Range(v) = Range(s) \ {s[i]}
    BY <2>2, RemoveAtRegistry
  <2> HIDE DEF v
  <2>4. u = Append(v, r)
    BY <2>1 DEF v
  <2>5. /\ u \in Seq(R) /\ Len(u) = Len(v) + 1 /\ Distinct(u) /\ Range(u) = Range(v) \union {r}
    BY <2>3, <2>4, AppendRegistry
  <2> QED
    BY <1>2, <2>2, <2>3, <2>5
<1> QED
  BY <1>1, <1>2

(* Forgetting a record.                                                    *)
LEMMA RemovedRegistry ==
  ASSUME NEW R, NEW s \in Seq(R), NEW r, NEW u \in Removed(s, r), Distinct(s), Len(s) <= MaxRuns
  PROVE  u \in Seq(R) /\ Len(u) <= MaxRuns /\ Distinct(u) /\ Range(u) = Range(s) \ {r}
<1> USE RunRegistryAssumption
<1>1. CASE r \in Range(s)
  <2>1. PICK i \in 1..Len(s) : s[i] = r /\ u = RemoveAt(s, i)
    BY <1>1 DEF Removed
  <2> QED
    BY <2>1, RemoveAtRegistry
<1>2. CASE r \notin Range(s)
  <2>1. u = s
    BY <1>2 DEF Removed
  <2> QED
    BY <1>2, <2>1
<1> QED
  BY <1>1, <1>2
(* Admission to the registry of runs.                                      *)
LEMMA AdmitRun ==
  ASSUME TypeOK, RegistryInv, NEW r \in Runs, status[r] = "absent", runs' \in Admitted(runs, r)
  PROVE  /\ runs' \in Seq(Runs) /\ Len(runs') <= MaxRuns /\ Distinct(runs')
         /\ r \in Range(runs') /\ Range(runs') \subseteq Range(runs) \union {r}
         /\ \A q \in Range(runs) : status[q] \notin Terminal => q \in Range(runs')
<1>1. runs \in Seq(Runs) /\ Len(runs) <= MaxRuns /\ Distinct(runs)
  BY DEF TypeOK
<1>2. r \notin Range(runs)
  BY DEF RegistryInv, RegisteredInv
<1> QED
  BY <1>1, <1>2, AdmittedRegistry

(* Admission to the stress registry.                                        *)
LEMMA AdmitStress ==
  ASSUME TypeOK, RegistryInv, NEW t \in Stresses, status[t] = "absent",
         stressRuns' \in Admitted(stressRuns, t)
  PROVE  /\ stressRuns' \in Seq(Stresses) /\ Len(stressRuns') <= MaxRuns /\ Distinct(stressRuns')
         /\ t \in Range(stressRuns') /\ Range(stressRuns') \subseteq Range(stressRuns) \union {t}
         /\ \A q \in Range(stressRuns) : status[q] \notin Terminal => q \in Range(stressRuns')
<1>1. stressRuns \in Seq(Stresses) /\ Len(stressRuns) <= MaxRuns /\ Distinct(stressRuns)
  BY DEF TypeOK
<1>2. t \notin Range(stressRuns)
  BY DEF RegistryInv, RegisteredInv
<1> QED
  BY <1>1, <1>2, AdmittedRegistry

(* Removal from either registry.                                           *)
LEMMA RemoveRun ==
  ASSUME TypeOK, NEW r, runs' \in Removed(runs, r)
  PROVE  /\ runs' \in Seq(Runs) /\ Len(runs') <= MaxRuns /\ Distinct(runs')
         /\ Range(runs') = Range(runs) \ {r}
<1>1. runs \in Seq(Runs) /\ Len(runs) <= MaxRuns /\ Distinct(runs)
  BY DEF TypeOK
<1> QED
  BY <1>1, RemovedRegistry

(* The same for stress_runs.                                               *)
LEMMA RemoveStress ==
  ASSUME TypeOK, NEW r, stressRuns' \in Removed(stressRuns, r)
  PROVE  /\ stressRuns' \in Seq(Stresses) /\ Len(stressRuns') <= MaxRuns /\ Distinct(stressRuns')
         /\ Range(stressRuns') = Range(stressRuns) \ {r}
<1>1. stressRuns \in Seq(Stresses) /\ Len(stressRuns) <= MaxRuns /\ Distinct(stressRuns)
  BY DEF TypeOK
<1> QED
  BY <1>1, RemovedRegistry

(* Which requests are in the registries, by kind.                          *)
LEMMA RegistryKinds ==
  ASSUME TypeOK
  PROVE  /\ Range(runs) \subseteq Runs /\ Range(stressRuns) \subseteq Stresses
         /\ Range(queue) \subseteq Jobs
  BY DEF TypeOK, Range

(* A worker takes the head of the queue; a handler appends to it.           *)
LEMMA QueueHead ==
  ASSUME TypeOK, Distinct(queue), queue # <<>>
  PROVE  /\ Head(queue) \in Range(queue) /\ Distinct(Tail(queue))
         /\ Range(Tail(queue)) = Range(queue) \ {Head(queue)}
<1>1. queue \in Seq(Jobs) /\ Len(queue) # 0
  BY DEF TypeOK
<1>2. 1 \in 1..Len(queue) /\ Head(queue) = queue[1]
  BY <1>1
<1>3. RemoveAt(queue, 1) = Tail(queue)
  <2>1. /\ RemoveAt(queue, 1) \in Seq(Jobs) /\ Len(RemoveAt(queue, 1)) = Len(queue) - 1
        /\ \A j \in 1..(Len(queue) - 1) : RemoveAt(queue, 1)[j] = queue[j + 1]
    BY <1>1, <1>2, RemoveAtElements
  <2>2. /\ Tail(queue) \in Seq(Jobs) /\ Len(Tail(queue)) = Len(queue) - 1
        /\ \A j \in 1..(Len(queue) - 1) : Tail(queue)[j] = queue[j + 1]
    BY <1>1
  <2> QED
    BY <2>1, <2>2, SeqEqual
<1>4. Distinct(RemoveAt(queue, 1)) /\ Range(RemoveAt(queue, 1)) = Range(queue) \ {queue[1]}
  BY <1>1, <1>2, RemoveAtRegistry
<1>5. queue[1] \in Range(queue)
  BY <1>1, <1>2 DEF Range
<1> QED
  BY <1>2, <1>3, <1>4, <1>5

(* Appending to the queue.                                                 *)
LEMMA QueueAppend ==
  ASSUME TypeOK, Distinct(queue), NEW j \in Jobs, j \notin Range(queue)
  PROVE  Distinct(Append(queue, j)) /\ Range(Append(queue, j)) = Range(queue) \union {j}
<1>1. queue \in Seq(Jobs)
  BY DEF TypeOK
<1> QED
  BY <1>1, AppendRegistry

(* Types, by the action that takes the step.                               *)
LEMMA TypeStep ==
  ASSUME TypeOK, RegistryInv, [Next]_vars
  PROVE  TypeOK'
<1> USE RunRegistryAssumption DEF TypeOK, RegistryInv, HandlerInv, registry, pool, shutVars, Unlock,
        Requests, Runs, Jobs, Terminal, MicActive, JobActive
<1>1. ASSUME NEW m \in Mics, MicExisting(m) PROVE TypeOK'
  BY <1>1 DEF MicExisting
<1>2. ASSUME NEW m \in Mics, MicScanned(m) PROVE TypeOK'
  BY <1>2 DEF MicScanned
<1>3. ASSUME NEW m \in Mics, MicAdd(m) PROVE TypeOK'
  BY <1>3, AdmitRun DEF MicAdd, MicReady
<1>4. ASSUME NEW m \in Mics, MicRefused(m) PROVE TypeOK'
  BY <1>4 DEF MicRefused, MicReady
<1>5. ASSUME NEW m \in Mics, MicOpen(m) PROVE TypeOK'
  BY <1>5 DEF MicOpen
<1>6. ASSUME NEW m \in Mics, MicOpenFails(m) PROVE TypeOK'
  BY <1>6, RemoveRun DEF MicOpenFails
<1>7. ASSUME NEW m \in Mics, MicRecord(m) PROVE TypeOK'
  BY <1>7 DEF MicRecord
<1>8. ASSUME NEW m \in Mics, MicLock(m) PROVE TypeOK'
  BY <1>8 DEF MicLock
<1>9. ASSUME NEW m \in Mics, MicLost(m) PROVE TypeOK'
  BY <1>9 DEF MicLost
<1>10. ASSUME NEW m \in Mics, MicReopen(m) PROVE TypeOK'
  BY <1>10 DEF MicReopen
<1>11. ASSUME NEW m \in Mics, MicStop(m) PROVE TypeOK'
  BY <1>11 DEF MicStop
<1>12. ASSUME NEW m \in Mics, MicStopped(m) PROVE TypeOK'
  BY <1>12 DEF MicStopped
<1>13. ASSUME NEW m \in Mics, MicFailed(m) PROVE TypeOK'
  BY <1>13 DEF MicFailed
<1>14. ASSUME NEW c \in Clips, ClipAdd(c) PROVE TypeOK'
  BY <1>14, AdmitRun DEF ClipAdd
<1>15. ASSUME NEW c \in Clips, ClipRefused(c) PROVE TypeOK'
  BY <1>15 DEF ClipRefused
<1>16. ASSUME NEW t \in Stresses, StressAdd(t) PROVE TypeOK'
  BY <1>16, AdmitStress DEF StressAdd
<1>17. ASSUME NEW t \in Stresses, StressRefused(t) PROVE TypeOK'
  BY <1>17 DEF StressRefused
<1>18. ASSUME NEW j \in Jobs, Submit(j) PROVE TypeOK'
  BY <1>18, QueueAppend DEF Submit
<1>19. ASSUME NEW j \in Jobs, SubmitFails(j) PROVE TypeOK'
  BY <1>19, RemoveRun, RemoveStress DEF SubmitFails
<1>20. ASSUME NEW j \in Jobs, JobEnd(j) PROVE TypeOK'
  BY <1>20 DEF JobEnd
<1>21. ASSUME NEW x \in Models, DeleteModel(x) PROVE TypeOK'
  BY <1>21 DEF DeleteModel
<1>22. CASE JobStart
  BY <1>22, QueueHead DEF JobStart
<1>23. CASE ShutdownBegin
  BY <1>23, RegistryKinds DEF ShutdownBegin
<1>24. CASE ShutdownJoined
  BY <1>24 DEF ShutdownJoined
<1>25. CASE ShutdownDone
  BY <1>25 DEF ShutdownDone
<1>26. CASE UNCHANGED vars
  BY <1>26 DEF vars
<1> QED
  BY <1>1, <1>2, <1>3, <1>4, <1>5, <1>6, <1>7, <1>8, <1>9, <1>10, <1>11, <1>12, <1>13, <1>14,
     <1>15, <1>16, <1>17, <1>18, <1>19, <1>20, <1>21, <1>22, <1>23, <1>24, <1>25, <1>26
     DEF Next, Proceeds, Arrives, Lives, Settles, Work, Shutdown, Requests

(* Active records stay registered.                                         *)
LEMMA RegisteredStep ==
  ASSUME TypeOK, RegistryInv, [Next]_vars
  PROVE  RegisteredInv'
<1> USE RunRegistryAssumption DEF TypeOK, RegistryInv, registry, pool, shutVars, Unlock,
        Requests, Runs, Jobs, Terminal, MicActive, JobActive, HandlerInv, RegisteredInv,
        PoolInv
<1>1. ASSUME NEW m \in Mics, MicExisting(m) PROVE RegisteredInv'
  BY <1>1 DEF MicExisting
<1>2. ASSUME NEW m \in Mics, MicScanned(m) PROVE RegisteredInv'
  BY <1>2 DEF MicScanned
<1>3. ASSUME NEW m \in Mics, MicAdd(m) PROVE RegisteredInv'
  <2>1. status' = [status EXCEPT ![m] = "starting"] /\ status[m] = "absent" /\ stressRuns' = stressRuns
    BY <1>3 DEF MicAdd, MicReady
  <2>2. /\ m \in Range(runs') /\ Range(runs') \subseteq Range(runs) \union {m}
        /\ \A q \in Range(runs) : status[q] \notin Terminal => q \in Range(runs')
    BY <1>3, <2>1, AdmitRun DEF MicAdd
  <2>3. /\ \A n \in Mics : status'[n] \notin JobActive
        /\ \A n \in Jobs : status'[n] \notin MicActive
    BY <2>1
  <2>4. ASSUME NEW r \in Range(runs') \union Range(stressRuns') PROVE status'[r] # "absent"
    <3>1. r = m \/ r \in Range(runs) \union Range(stressRuns)
      BY <2>1, <2>2, <2>4
    <3>2. r \in Requests
      BY <3>1, RegistryKinds
    <3>3. status[r] = "absent" => r = m
      BY <3>1
    <3> QED
      BY <2>1, <3>2, <3>3
  <2>5. ASSUME NEW n \in Mics, status'[n] \in MicActive PROVE n \in Range(runs')
    <3>1. CASE n = m
      BY <2>1, <2>2, <2>5, <3>1
    <3>2. CASE n # m
      <4>1. status[n] \in MicActive
        BY <2>1, <2>5, <3>2
      <4> QED
        BY <2>1, <2>2, <4>1
    <3> QED
      BY <3>1, <3>2
  <2>6. ASSUME NEW n \in Clips, status'[n] \in JobActive PROVE n \in Range(runs')
    <3>1. CASE n = m
      BY <2>1, <2>2, <2>6, <3>1
    <3>2. CASE n # m
      <4>1. status[n] \in JobActive
        BY <2>1, <2>6, <3>2
      <4> QED
        BY <2>1, <2>2, <4>1
    <3> QED
      BY <3>1, <3>2
  <2>7. ASSUME NEW n \in Stresses, status'[n] \in JobActive PROVE n \in Range(stressRuns')
    <3>1. CASE n = m
      BY <2>1, <2>2, <2>7, <3>1
    <3>2. CASE n # m
      <4>1. status[n] \in JobActive
        BY <2>1, <2>7, <3>2
      <4> QED
        BY <2>1, <2>2, <4>1
    <3> QED
      BY <3>1, <3>2
  <2> QED
    BY <2>3, <2>4, <2>5, <2>6, <2>7
<1>4. ASSUME NEW m \in Mics, MicRefused(m) PROVE RegisteredInv'
  BY <1>4 DEF MicRefused, MicReady
<1>5. ASSUME NEW m \in Mics, MicOpen(m) PROVE RegisteredInv'
  BY <1>5 DEF MicOpen
<1>6. ASSUME NEW m \in Mics, MicOpenFails(m) PROVE RegisteredInv'
  <2>1. status' = [status EXCEPT ![m] = "absent"] /\ stressRuns' = stressRuns
    BY <1>6 DEF MicOpenFails
  <2>2. Range(runs') = Range(runs) \ {m}
    BY <1>6, RemoveRun DEF MicOpenFails
  <2> QED
    BY <2>1, <2>2, RegistryKinds
<1>7. ASSUME NEW m \in Mics, MicRecord(m) PROVE RegisteredInv'
  BY <1>7 DEF MicRecord
<1>8. ASSUME NEW m \in Mics, MicLock(m) PROVE RegisteredInv'
  BY <1>8 DEF MicLock
<1>9. ASSUME NEW m \in Mics, MicLost(m) PROVE RegisteredInv'
  BY <1>9 DEF MicLost
<1>10. ASSUME NEW m \in Mics, MicReopen(m) PROVE RegisteredInv'
  BY <1>10 DEF MicReopen
<1>11. ASSUME NEW m \in Mics, MicStop(m) PROVE RegisteredInv'
  BY <1>11 DEF MicStop
<1>12. ASSUME NEW m \in Mics, MicStopped(m) PROVE RegisteredInv'
  BY <1>12 DEF MicStopped
<1>13. ASSUME NEW m \in Mics, MicFailed(m) PROVE RegisteredInv'
  BY <1>13 DEF MicFailed
<1>14. ASSUME NEW c \in Clips, ClipAdd(c) PROVE RegisteredInv'
  <2>1. status' = [status EXCEPT ![c] = "queued"] /\ status[c] = "absent" /\ stressRuns' = stressRuns
    BY <1>14 DEF ClipAdd
  <2>2. /\ c \in Range(runs') /\ Range(runs') \subseteq Range(runs) \union {c}
        /\ \A q \in Range(runs) : status[q] \notin Terminal => q \in Range(runs')
    BY <1>14, <2>1, AdmitRun DEF ClipAdd
  <2>3. /\ \A n \in Mics : status'[n] \notin JobActive
        /\ \A n \in Jobs : status'[n] \notin MicActive
    BY <2>1
  <2>4. ASSUME NEW r \in Range(runs') \union Range(stressRuns') PROVE status'[r] # "absent"
    <3>1. r = c \/ r \in Range(runs) \union Range(stressRuns)
      BY <2>1, <2>2, <2>4
    <3>2. r \in Requests
      BY <3>1, RegistryKinds
    <3>3. status[r] = "absent" => r = c
      BY <3>1
    <3> QED
      BY <2>1, <3>2, <3>3
  <2>5. ASSUME NEW n \in Mics, status'[n] \in MicActive PROVE n \in Range(runs')
    <3>1. CASE n = c
      BY <2>1, <2>2, <2>5, <3>1
    <3>2. CASE n # c
      <4>1. status[n] \in MicActive
        BY <2>1, <2>5, <3>2
      <4> QED
        BY <2>1, <2>2, <4>1
    <3> QED
      BY <3>1, <3>2
  <2>6. ASSUME NEW n \in Clips, status'[n] \in JobActive PROVE n \in Range(runs')
    <3>1. CASE n = c
      BY <2>1, <2>2, <2>6, <3>1
    <3>2. CASE n # c
      <4>1. status[n] \in JobActive
        BY <2>1, <2>6, <3>2
      <4> QED
        BY <2>1, <2>2, <4>1
    <3> QED
      BY <3>1, <3>2
  <2>7. ASSUME NEW n \in Stresses, status'[n] \in JobActive PROVE n \in Range(stressRuns')
    <3>1. CASE n = c
      BY <2>1, <2>2, <2>7, <3>1
    <3>2. CASE n # c
      <4>1. status[n] \in JobActive
        BY <2>1, <2>7, <3>2
      <4> QED
        BY <2>1, <2>2, <4>1
    <3> QED
      BY <3>1, <3>2
  <2> QED
    BY <2>3, <2>4, <2>5, <2>6, <2>7
<1>15. ASSUME NEW c \in Clips, ClipRefused(c) PROVE RegisteredInv'
  BY <1>15 DEF ClipRefused
<1>16. ASSUME NEW t \in Stresses, StressAdd(t) PROVE RegisteredInv'
  <2>1. status' = [status EXCEPT ![t] = "queued"] /\ status[t] = "absent" /\ runs' = runs
    BY <1>16 DEF StressAdd
  <2>2. /\ t \in Range(stressRuns') /\ Range(stressRuns') \subseteq Range(stressRuns) \union {t}
        /\ \A q \in Range(stressRuns) : status[q] \notin Terminal => q \in Range(stressRuns')
    BY <1>16, <2>1, AdmitStress DEF StressAdd
  <2>3. /\ \A n \in Mics : status'[n] \notin JobActive
        /\ \A n \in Jobs : status'[n] \notin MicActive
    BY <2>1
  <2>4. ASSUME NEW r \in Range(runs') \union Range(stressRuns') PROVE status'[r] # "absent"
    <3>1. r = t \/ r \in Range(runs) \union Range(stressRuns)
      BY <2>1, <2>2, <2>4
    <3>2. r \in Requests
      BY <3>1, RegistryKinds
    <3>3. status[r] = "absent" => r = t
      BY <3>1
    <3> QED
      BY <2>1, <3>2, <3>3
  <2>5. ASSUME NEW n \in Mics, status'[n] \in MicActive PROVE n \in Range(runs')
    <3>1. CASE n = t
      BY <2>1, <2>2, <2>5, <3>1
    <3>2. CASE n # t
      <4>1. status[n] \in MicActive
        BY <2>1, <2>5, <3>2
      <4> QED
        BY <2>1, <2>2, <4>1
    <3> QED
      BY <3>1, <3>2
  <2>6. ASSUME NEW n \in Clips, status'[n] \in JobActive PROVE n \in Range(runs')
    <3>1. CASE n = t
      BY <2>1, <2>2, <2>6, <3>1
    <3>2. CASE n # t
      <4>1. status[n] \in JobActive
        BY <2>1, <2>6, <3>2
      <4> QED
        BY <2>1, <2>2, <4>1
    <3> QED
      BY <3>1, <3>2
  <2>7. ASSUME NEW n \in Stresses, status'[n] \in JobActive PROVE n \in Range(stressRuns')
    <3>1. CASE n = t
      BY <2>1, <2>2, <2>7, <3>1
    <3>2. CASE n # t
      <4>1. status[n] \in JobActive
        BY <2>1, <2>7, <3>2
      <4> QED
        BY <2>1, <2>2, <4>1
    <3> QED
      BY <3>1, <3>2
  <2> QED
    BY <2>3, <2>4, <2>5, <2>6, <2>7
<1>17. ASSUME NEW t \in Stresses, StressRefused(t) PROVE RegisteredInv'
  BY <1>17 DEF StressRefused
<1>18. ASSUME NEW j \in Jobs, Submit(j) PROVE RegisteredInv'
  BY <1>18, QueueAppend DEF Submit
<1>19. ASSUME NEW j \in Jobs, SubmitFails(j) PROVE RegisteredInv'
  <2>1. status' = [status EXCEPT ![j] = "absent"]
    BY <1>19 DEF SubmitFails
  <2>2. Range(runs') = Range(runs) \ {j} /\ Range(stressRuns') = Range(stressRuns) \ {j}
    BY <1>19, RemoveRun, RemoveStress DEF SubmitFails
  <2> QED
    BY <2>1, <2>2, RegistryKinds
<1>20. ASSUME NEW j \in Jobs, JobEnd(j) PROVE RegisteredInv'
  BY <1>20 DEF JobEnd
<1>21. ASSUME NEW x \in Models, DeleteModel(x) PROVE RegisteredInv'
  BY <1>21 DEF DeleteModel
<1>22. CASE JobStart
  BY <1>22, QueueHead DEF JobStart
<1>23. CASE ShutdownBegin
  BY <1>23, RegistryKinds DEF ShutdownBegin
<1>24. CASE ShutdownJoined
  BY <1>24 DEF ShutdownJoined
<1>25. CASE ShutdownDone
  BY <1>25 DEF ShutdownDone
<1>26. CASE UNCHANGED vars
  BY <1>26 DEF vars
<1> QED
  BY <1>1, <1>2, <1>3, <1>4, <1>5, <1>6, <1>7, <1>8, <1>9, <1>10, <1>11, <1>12, <1>13, <1>14,
     <1>15, <1>16, <1>17, <1>18, <1>19, <1>20, <1>21, <1>22, <1>23, <1>24, <1>25, <1>26
     DEF Next, Proceeds, Arrives, Lives, Settles, Work, Shutdown, Requests

(* Handlers and the profile lock.                                          *)
LEMMA HandlerStep ==
  ASSUME TypeOK, RegistryInv, [Next]_vars
  PROVE  HandlerInv'
<1> USE RunRegistryAssumption DEF TypeOK, RegistryInv, registry, pool, shutVars, Unlock,
        Requests, Runs, Jobs, Terminal, MicActive, JobActive, HandlerInv, RegisteredInv,
        PoolInv
<1>1. ASSUME NEW m \in Mics, MicExisting(m) PROVE HandlerInv'
  BY <1>1 DEF MicExisting
<1>2. ASSUME NEW m \in Mics, MicScanned(m) PROVE HandlerInv'
  <2>1. \A n \in Mics : ProfileOf[n] = ProfileOf[m] => status[n] \notin MicActive
    BY <1>2 DEF MicScanned, ActiveProfileRun, ActiveMics
  <2> QED
    BY <1>2, <2>1 DEF MicScanned
<1>3. ASSUME NEW m \in Mics, MicAdd(m) PROVE HandlerInv'
  <2>1. /\ status' = [status EXCEPT ![m] = "starting"] /\ pc' = [pc EXCEPT ![m] = "opening"]
        /\ UNCHANGED <<capturing, profileLock>>
    BY <1>3 DEF MicAdd
  <2>2. status[m] = "absent" /\ ~capturing[m]
    BY <1>3 DEF MicAdd, MicReady, CaptureInv
  <2>3. ProfileOf[m] # None => profileLock = m
    BY <1>3 DEF MicAdd, MicReady
  <2>4. ASSUME NEW n \in Mics, pc[n] = "scanned", n # m PROVE ProfileOf[m] # ProfileOf[n]
    BY <2>3, <2>4
  <2>5. ASSUME NEW n \in Mics, n # m, pc'[n] = "scanned", NEW l \in Mics, ProfileOf[l] = ProfileOf[n]
        PROVE  status'[l] \notin MicActive
    BY <2>1, <2>4, <2>5
  <2> QED
    BY <2>1, <2>2, <2>3, <2>5
<1>4. ASSUME NEW m \in Mics, MicRefused(m) PROVE HandlerInv'
  BY <1>4 DEF MicRefused, MicReady
<1>5. ASSUME NEW m \in Mics, MicOpen(m) PROVE HandlerInv'
  BY <1>5 DEF MicOpen
<1>6. ASSUME NEW m \in Mics, MicOpenFails(m) PROVE HandlerInv'
  BY <1>6, RemoveRun DEF MicOpenFails
<1>7. ASSUME NEW m \in Mics, MicRecord(m) PROVE HandlerInv'
  BY <1>7 DEF MicRecord
<1>8. ASSUME NEW m \in Mics, MicLock(m) PROVE HandlerInv'
  BY <1>8 DEF MicLock
<1>9. ASSUME NEW m \in Mics, MicLost(m) PROVE HandlerInv'
  BY <1>9 DEF MicLost
<1>10. ASSUME NEW m \in Mics, MicReopen(m) PROVE HandlerInv'
  BY <1>10 DEF MicReopen
<1>11. ASSUME NEW m \in Mics, MicStop(m) PROVE HandlerInv'
  BY <1>11 DEF MicStop
<1>12. ASSUME NEW m \in Mics, MicStopped(m) PROVE HandlerInv'
  BY <1>12 DEF MicStopped
<1>13. ASSUME NEW m \in Mics, MicFailed(m) PROVE HandlerInv'
  BY <1>13 DEF MicFailed
<1>14. ASSUME NEW c \in Clips, ClipAdd(c) PROVE HandlerInv'
  BY <1>14, AdmitRun DEF ClipAdd
<1>15. ASSUME NEW c \in Clips, ClipRefused(c) PROVE HandlerInv'
  BY <1>15 DEF ClipRefused
<1>16. ASSUME NEW t \in Stresses, StressAdd(t) PROVE HandlerInv'
  BY <1>16, AdmitStress DEF StressAdd
<1>17. ASSUME NEW t \in Stresses, StressRefused(t) PROVE HandlerInv'
  BY <1>17 DEF StressRefused
<1>18. ASSUME NEW j \in Jobs, Submit(j) PROVE HandlerInv'
  BY <1>18, QueueAppend DEF Submit
<1>19. ASSUME NEW j \in Jobs, SubmitFails(j) PROVE HandlerInv'
  BY <1>19, RemoveRun, RemoveStress DEF SubmitFails
<1>20. ASSUME NEW j \in Jobs, JobEnd(j) PROVE HandlerInv'
  BY <1>20 DEF JobEnd
<1>21. ASSUME NEW x \in Models, DeleteModel(x) PROVE HandlerInv'
  BY <1>21 DEF DeleteModel
<1>22. CASE JobStart
  BY <1>22, QueueHead DEF JobStart
<1>23. CASE ShutdownBegin
  BY <1>23, RegistryKinds DEF ShutdownBegin
<1>24. CASE ShutdownJoined
  BY <1>24 DEF ShutdownJoined
<1>25. CASE ShutdownDone
  BY <1>25 DEF ShutdownDone
<1>26. CASE UNCHANGED vars
  BY <1>26 DEF vars
<1> QED
  BY <1>1, <1>2, <1>3, <1>4, <1>5, <1>6, <1>7, <1>8, <1>9, <1>10, <1>11, <1>12, <1>13, <1>14,
     <1>15, <1>16, <1>17, <1>18, <1>19, <1>20, <1>21, <1>22, <1>23, <1>24, <1>25, <1>26
     DEF Next, Proceeds, Arrives, Lives, Settles, Work, Shutdown, Requests

(* Sources are held by active runs.                                        *)
LEMMA CaptureStep ==
  ASSUME TypeOK, RegistryInv, [Next]_vars
  PROVE  CaptureInv'
<1> USE RunRegistryAssumption DEF TypeOK, RegistryInv, registry, pool, shutVars, Unlock,
        Requests, Runs, Jobs, Terminal, MicActive, JobActive, HandlerInv, CaptureInv
<1>1. ASSUME NEW m \in Mics, MicExisting(m) PROVE CaptureInv'
  BY <1>1 DEF MicExisting
<1>2. ASSUME NEW m \in Mics, MicScanned(m) PROVE CaptureInv'
  BY <1>2 DEF MicScanned
<1>3. ASSUME NEW m \in Mics, MicAdd(m) PROVE CaptureInv'
  BY <1>3, AdmitRun DEF MicAdd, MicReady
<1>4. ASSUME NEW m \in Mics, MicRefused(m) PROVE CaptureInv'
  BY <1>4 DEF MicRefused, MicReady
<1>5. ASSUME NEW m \in Mics, MicOpen(m) PROVE CaptureInv'
  BY <1>5 DEF MicOpen
<1>6. ASSUME NEW m \in Mics, MicOpenFails(m) PROVE CaptureInv'
  BY <1>6, RemoveRun DEF MicOpenFails
<1>7. ASSUME NEW m \in Mics, MicRecord(m) PROVE CaptureInv'
  BY <1>7 DEF MicRecord
<1>8. ASSUME NEW m \in Mics, MicLock(m) PROVE CaptureInv'
  BY <1>8 DEF MicLock
<1>9. ASSUME NEW m \in Mics, MicLost(m) PROVE CaptureInv'
  BY <1>9 DEF MicLost
<1>10. ASSUME NEW m \in Mics, MicReopen(m) PROVE CaptureInv'
  BY <1>10 DEF MicReopen
<1>11. ASSUME NEW m \in Mics, MicStop(m) PROVE CaptureInv'
  BY <1>11 DEF MicStop
<1>12. ASSUME NEW m \in Mics, MicStopped(m) PROVE CaptureInv'
  BY <1>12 DEF MicStopped
<1>13. ASSUME NEW m \in Mics, MicFailed(m) PROVE CaptureInv'
  BY <1>13 DEF MicFailed
<1>14. ASSUME NEW c \in Clips, ClipAdd(c) PROVE CaptureInv'
  BY <1>14, AdmitRun DEF ClipAdd
<1>15. ASSUME NEW c \in Clips, ClipRefused(c) PROVE CaptureInv'
  BY <1>15 DEF ClipRefused
<1>16. ASSUME NEW t \in Stresses, StressAdd(t) PROVE CaptureInv'
  BY <1>16, AdmitStress DEF StressAdd
<1>17. ASSUME NEW t \in Stresses, StressRefused(t) PROVE CaptureInv'
  BY <1>17 DEF StressRefused
<1>18. ASSUME NEW j \in Jobs, Submit(j) PROVE CaptureInv'
  BY <1>18, QueueAppend DEF Submit
<1>19. ASSUME NEW j \in Jobs, SubmitFails(j) PROVE CaptureInv'
  BY <1>19, RemoveRun, RemoveStress DEF SubmitFails
<1>20. ASSUME NEW j \in Jobs, JobEnd(j) PROVE CaptureInv'
  BY <1>20 DEF JobEnd
<1>21. ASSUME NEW x \in Models, DeleteModel(x) PROVE CaptureInv'
  BY <1>21 DEF DeleteModel
<1>22. CASE JobStart
  BY <1>22, QueueHead DEF JobStart
<1>23. CASE ShutdownBegin
  BY <1>23, RegistryKinds DEF ShutdownBegin
<1>24. CASE ShutdownJoined
  BY <1>24 DEF ShutdownJoined
<1>25. CASE ShutdownDone
  BY <1>25 DEF ShutdownDone
<1>26. CASE UNCHANGED vars
  BY <1>26 DEF vars
<1> QED
  BY <1>1, <1>2, <1>3, <1>4, <1>5, <1>6, <1>7, <1>8, <1>9, <1>10, <1>11, <1>12, <1>13, <1>14,
     <1>15, <1>16, <1>17, <1>18, <1>19, <1>20, <1>21, <1>22, <1>23, <1>24, <1>25, <1>26
     DEF Next, Proceeds, Arrives, Lives, Settles, Work, Shutdown, Requests

(* The pool.                                                               *)
LEMMA PoolStep ==
  ASSUME TypeOK, RegistryInv, [Next]_vars
  PROVE  PoolInv'
<1> USE RunRegistryAssumption DEF TypeOK, RegistryInv, registry, pool, shutVars, Unlock,
        Requests, Runs, Jobs, Terminal, MicActive, JobActive, HandlerInv, RegisteredInv,
        PoolInv
<1>1. ASSUME NEW m \in Mics, MicExisting(m) PROVE PoolInv'
  BY <1>1 DEF MicExisting
<1>2. ASSUME NEW m \in Mics, MicScanned(m) PROVE PoolInv'
  BY <1>2 DEF MicScanned
<1>3. ASSUME NEW m \in Mics, MicAdd(m) PROVE PoolInv'
  BY <1>3, AdmitRun DEF MicAdd, MicReady
<1>4. ASSUME NEW m \in Mics, MicRefused(m) PROVE PoolInv'
  BY <1>4 DEF MicRefused, MicReady
<1>5. ASSUME NEW m \in Mics, MicOpen(m) PROVE PoolInv'
  BY <1>5 DEF MicOpen
<1>6. ASSUME NEW m \in Mics, MicOpenFails(m) PROVE PoolInv'
  BY <1>6, RemoveRun DEF MicOpenFails
<1>7. ASSUME NEW m \in Mics, MicRecord(m) PROVE PoolInv'
  BY <1>7 DEF MicRecord
<1>8. ASSUME NEW m \in Mics, MicLock(m) PROVE PoolInv'
  BY <1>8 DEF MicLock
<1>9. ASSUME NEW m \in Mics, MicLost(m) PROVE PoolInv'
  BY <1>9 DEF MicLost
<1>10. ASSUME NEW m \in Mics, MicReopen(m) PROVE PoolInv'
  BY <1>10 DEF MicReopen
<1>11. ASSUME NEW m \in Mics, MicStop(m) PROVE PoolInv'
  BY <1>11 DEF MicStop
<1>12. ASSUME NEW m \in Mics, MicStopped(m) PROVE PoolInv'
  BY <1>12 DEF MicStopped
<1>13. ASSUME NEW m \in Mics, MicFailed(m) PROVE PoolInv'
  BY <1>13 DEF MicFailed
<1>14. ASSUME NEW c \in Clips, ClipAdd(c) PROVE PoolInv'
  BY <1>14, AdmitRun DEF ClipAdd
<1>15. ASSUME NEW c \in Clips, ClipRefused(c) PROVE PoolInv'
  BY <1>15 DEF ClipRefused
<1>16. ASSUME NEW t \in Stresses, StressAdd(t) PROVE PoolInv'
  BY <1>16, AdmitStress DEF StressAdd
<1>17. ASSUME NEW t \in Stresses, StressRefused(t) PROVE PoolInv'
  BY <1>17 DEF StressRefused
<1>18. ASSUME NEW j \in Jobs, Submit(j) PROVE PoolInv'
  BY <1>18, QueueAppend DEF Submit
<1>19. ASSUME NEW j \in Jobs, SubmitFails(j) PROVE PoolInv'
  BY <1>19, RemoveRun, RemoveStress DEF SubmitFails
<1>20. ASSUME NEW j \in Jobs, JobEnd(j) PROVE PoolInv'
  BY <1>20 DEF JobEnd
<1>21. ASSUME NEW x \in Models, DeleteModel(x) PROVE PoolInv'
  BY <1>21 DEF DeleteModel
<1>22. CASE JobStart
  BY <1>22, QueueHead DEF JobStart
<1>23. CASE ShutdownBegin
  BY <1>23, RegistryKinds DEF ShutdownBegin
<1>24. CASE ShutdownJoined
  BY <1>24 DEF ShutdownJoined
<1>25. CASE ShutdownDone
  BY <1>25 DEF ShutdownDone
<1>26. CASE UNCHANGED vars
  BY <1>26 DEF vars
<1> QED
  BY <1>1, <1>2, <1>3, <1>4, <1>5, <1>6, <1>7, <1>8, <1>9, <1>10, <1>11, <1>12, <1>13, <1>14,
     <1>15, <1>16, <1>17, <1>18, <1>19, <1>20, <1>21, <1>22, <1>23, <1>24, <1>25, <1>26
     DEF Next, Proceeds, Arrives, Lives, Settles, Work, Shutdown, Requests

(* Runs of a profile: only a start that holds the profile lock adds one.    *)
LEMMA ProfileStep ==
  ASSUME TypeOK, RegistryInv, [Next]_vars
  PROVE  OneRunPerProfile'
<1> USE RunRegistryAssumption DEF TypeOK, RegistryInv, registry, pool, shutVars, Unlock,
        Requests, Runs, Jobs, Terminal, MicActive, JobActive, HandlerInv, OneRunPerProfile
<1>1. ASSUME NEW m \in Mics, MicExisting(m) PROVE OneRunPerProfile'
  BY <1>1 DEF MicExisting
<1>2. ASSUME NEW m \in Mics, MicScanned(m) PROVE OneRunPerProfile'
  BY <1>2 DEF MicScanned
<1>3. ASSUME NEW m \in Mics, MicAdd(m) PROVE OneRunPerProfile'
  <2>1. status' = [status EXCEPT ![m] = "starting"]
    BY <1>3 DEF MicAdd
  <2>2. ASSUME ProfileOf[m] # None, NEW n \in Mics, ProfileOf[n] = ProfileOf[m]
        PROVE  status[n] \notin MicActive
    BY <1>3, <2>2 DEF MicAdd, MicReady
  <2> QED
    BY <2>1, <2>2
<1>4. ASSUME NEW m \in Mics, MicRefused(m) PROVE OneRunPerProfile'
  BY <1>4 DEF MicRefused, MicReady
<1>5. ASSUME NEW m \in Mics, MicOpen(m) PROVE OneRunPerProfile'
  BY <1>5 DEF MicOpen
<1>6. ASSUME NEW m \in Mics, MicOpenFails(m) PROVE OneRunPerProfile'
  BY <1>6, RemoveRun DEF MicOpenFails
<1>7. ASSUME NEW m \in Mics, MicRecord(m) PROVE OneRunPerProfile'
  BY <1>7 DEF MicRecord
<1>8. ASSUME NEW m \in Mics, MicLock(m) PROVE OneRunPerProfile'
  BY <1>8 DEF MicLock
<1>9. ASSUME NEW m \in Mics, MicLost(m) PROVE OneRunPerProfile'
  BY <1>9 DEF MicLost
<1>10. ASSUME NEW m \in Mics, MicReopen(m) PROVE OneRunPerProfile'
  BY <1>10 DEF MicReopen
<1>11. ASSUME NEW m \in Mics, MicStop(m) PROVE OneRunPerProfile'
  BY <1>11 DEF MicStop
<1>12. ASSUME NEW m \in Mics, MicStopped(m) PROVE OneRunPerProfile'
  BY <1>12 DEF MicStopped
<1>13. ASSUME NEW m \in Mics, MicFailed(m) PROVE OneRunPerProfile'
  BY <1>13 DEF MicFailed
<1>14. ASSUME NEW c \in Clips, ClipAdd(c) PROVE OneRunPerProfile'
  BY <1>14, AdmitRun DEF ClipAdd
<1>15. ASSUME NEW c \in Clips, ClipRefused(c) PROVE OneRunPerProfile'
  BY <1>15 DEF ClipRefused
<1>16. ASSUME NEW t \in Stresses, StressAdd(t) PROVE OneRunPerProfile'
  BY <1>16, AdmitStress DEF StressAdd
<1>17. ASSUME NEW t \in Stresses, StressRefused(t) PROVE OneRunPerProfile'
  BY <1>17 DEF StressRefused
<1>18. ASSUME NEW j \in Jobs, Submit(j) PROVE OneRunPerProfile'
  BY <1>18, QueueAppend DEF Submit
<1>19. ASSUME NEW j \in Jobs, SubmitFails(j) PROVE OneRunPerProfile'
  BY <1>19, RemoveRun, RemoveStress DEF SubmitFails
<1>20. ASSUME NEW j \in Jobs, JobEnd(j) PROVE OneRunPerProfile'
  BY <1>20 DEF JobEnd
<1>21. ASSUME NEW x \in Models, DeleteModel(x) PROVE OneRunPerProfile'
  BY <1>21 DEF DeleteModel
<1>22. CASE JobStart
  <2>1. Head(queue) \in Jobs /\ status' = [status EXCEPT ![Head(queue)] = "running"]
    BY <1>22, QueueHead, RegistryKinds DEF JobStart, PoolInv
  <2>2. ASSUME NEW n \in Mics PROVE status'[n] = status[n]
    BY <2>1
  <2> QED
    BY <2>2
<1>23. CASE ShutdownBegin
  <2>1. ASSUME NEW n \in Mics, status'[n] \in MicActive PROVE status[n] \in MicActive
    <3>1. status[n] \notin Terminal /\ (n \in Range(runs) \/ status'[n] = status[n])
      BY <1>23, <2>1 DEF ShutdownBegin
    <3> QED
      BY <2>1, <3>1 DEF RegisteredInv
  <2> QED
    BY <2>1
<1>24. CASE ShutdownJoined
  BY <1>24 DEF ShutdownJoined
<1>25. CASE ShutdownDone
  BY <1>25 DEF ShutdownDone
<1>26. CASE UNCHANGED vars
  BY <1>26 DEF vars
<1> QED
  BY <1>1, <1>2, <1>3, <1>4, <1>5, <1>6, <1>7, <1>8, <1>9, <1>10, <1>11, <1>12, <1>13, <1>14,
     <1>15, <1>16, <1>17, <1>18, <1>19, <1>20, <1>21, <1>22, <1>23, <1>24, <1>25, <1>26
     DEF Next, Proceeds, Arrives, Lives, Settles, Work, Shutdown, Requests

(* Microphones and stress tests.                                           *)
LEMMA ExclusionStep ==
  ASSUME TypeOK, RegistryInv, [Next]_vars
  PROVE  ExclusionInv'
<1> USE RunRegistryAssumption DEF TypeOK, RegistryInv, registry, pool, shutVars, Unlock,
        Requests, Runs, Jobs, Terminal, MicActive, JobActive, HandlerInv, RegisteredInv,
        PoolInv, ExclusionInv
<1>1. ASSUME NEW m \in Mics, MicExisting(m) PROVE ExclusionInv'
  BY <1>1 DEF MicExisting
<1>2. ASSUME NEW m \in Mics, MicScanned(m) PROVE ExclusionInv'
  BY <1>2 DEF MicScanned
<1>3. ASSUME NEW m \in Mics, MicAdd(m) PROVE ExclusionInv'
  <2>1. status' = [status EXCEPT ![m] = "starting"]
    BY <1>3 DEF MicAdd
  <2>2. \A t \in Stresses : status[t] \notin JobActive
    BY <1>3 DEF MicAdd, MicAdmissible, StressActive
  <2> QED
    BY <2>1, <2>2
<1>4. ASSUME NEW m \in Mics, MicRefused(m) PROVE ExclusionInv'
  BY <1>4 DEF MicRefused, MicReady
<1>5. ASSUME NEW m \in Mics, MicOpen(m) PROVE ExclusionInv'
  BY <1>5 DEF MicOpen
<1>6. ASSUME NEW m \in Mics, MicOpenFails(m) PROVE ExclusionInv'
  BY <1>6, RemoveRun DEF MicOpenFails
<1>7. ASSUME NEW m \in Mics, MicRecord(m) PROVE ExclusionInv'
  BY <1>7 DEF MicRecord
<1>8. ASSUME NEW m \in Mics, MicLock(m) PROVE ExclusionInv'
  BY <1>8 DEF MicLock
<1>9. ASSUME NEW m \in Mics, MicLost(m) PROVE ExclusionInv'
  BY <1>9 DEF MicLost
<1>10. ASSUME NEW m \in Mics, MicReopen(m) PROVE ExclusionInv'
  BY <1>10 DEF MicReopen
<1>11. ASSUME NEW m \in Mics, MicStop(m) PROVE ExclusionInv'
  BY <1>11 DEF MicStop
<1>12. ASSUME NEW m \in Mics, MicStopped(m) PROVE ExclusionInv'
  BY <1>12 DEF MicStopped
<1>13. ASSUME NEW m \in Mics, MicFailed(m) PROVE ExclusionInv'
  BY <1>13 DEF MicFailed
<1>14. ASSUME NEW c \in Clips, ClipAdd(c) PROVE ExclusionInv'
  <2>1. status' = [status EXCEPT ![c] = "queued"]
    BY <1>14 DEF ClipAdd
  <2> QED
    BY <2>1
<1>15. ASSUME NEW c \in Clips, ClipRefused(c) PROVE ExclusionInv'
  BY <1>15 DEF ClipRefused
<1>16. ASSUME NEW t \in Stresses, StressAdd(t) PROVE ExclusionInv'
  <2>1. status' = [status EXCEPT ![t] = "queued"]
    BY <1>16 DEF StressAdd
  <2>2. \A m \in Mics : status[m] \notin MicActive
    BY <1>16 DEF StressAdd, ActiveMics
  <2>3. \A u \in Stresses : status[u] \notin JobActive
    BY <1>16 DEF StressAdd, StressActive
  <2> QED
    BY <2>1, <2>2, <2>3
<1>17. ASSUME NEW t \in Stresses, StressRefused(t) PROVE ExclusionInv'
  BY <1>17 DEF StressRefused
<1>18. ASSUME NEW j \in Jobs, Submit(j) PROVE ExclusionInv'
  BY <1>18, QueueAppend DEF Submit
<1>19. ASSUME NEW j \in Jobs, SubmitFails(j) PROVE ExclusionInv'
  <2>1. status' = [status EXCEPT ![j] = "absent"]
    BY <1>19 DEF SubmitFails
  <2> QED
    BY <2>1
<1>20. ASSUME NEW j \in Jobs, JobEnd(j) PROVE ExclusionInv'
  BY <1>20 DEF JobEnd
<1>21. ASSUME NEW x \in Models, DeleteModel(x) PROVE ExclusionInv'
  BY <1>21 DEF DeleteModel
<1>22. CASE JobStart
  BY <1>22, QueueHead DEF JobStart
<1>23. CASE ShutdownBegin
  BY <1>23, RegistryKinds DEF ShutdownBegin
<1>24. CASE ShutdownJoined
  BY <1>24 DEF ShutdownJoined
<1>25. CASE ShutdownDone
  BY <1>25 DEF ShutdownDone
<1>26. CASE UNCHANGED vars
  BY <1>26 DEF vars
<1> QED
  BY <1>1, <1>2, <1>3, <1>4, <1>5, <1>6, <1>7, <1>8, <1>9, <1>10, <1>11, <1>12, <1>13, <1>14,
     <1>15, <1>16, <1>17, <1>18, <1>19, <1>20, <1>21, <1>22, <1>23, <1>24, <1>25, <1>26
     DEF Next, Proceeds, Arrives, Lives, Settles, Work, Shutdown, Requests

(* Active microphone runs are finitely many.                               *)
LEMMA ActiveFinite == IsFiniteSet(Active)
<1>1. Active \subseteq Requests
  BY DEF Active, Requests
<1> QED
  BY <1>1, RunRegistryAssumption, FS_Subset

(* A step after which no other run is active stays within the limit.        *)
LEMMA FewerActive ==
  ASSUME LimitInv, Active' \subseteq Active
  PROVE  LimitInv'
<1>1. IsFiniteSet(Active)
  BY ActiveFinite
<1>2. Cardinality(Active') <= Cardinality(Active)
  BY <1>1, FS_Subset
<1>3. Cardinality(Active) \in Nat /\ Cardinality(Active') \in Nat
  BY <1>1, FS_Subset, FS_CardinalityType
<1> QED
  BY <1>2, <1>3, RunRegistryAssumption DEF LimitInv

(* The number of microphones: add_run counts every active run there is.     *)
LEMMA LimitStep ==
  ASSUME TypeOK, RegistryInv, [Next]_vars
  PROVE  LimitInv'
<1> USE RunRegistryAssumption DEF TypeOK, RegistryInv, registry, pool, shutVars, Unlock,
        Requests, Runs, Jobs, Terminal, MicActive, JobActive, HandlerInv, RegisteredInv,
        PoolInv, Active
<1>1. ASSUME NEW m \in Mics, MicExisting(m) PROVE LimitInv'
  <2>1. Active' \subseteq Active
    BY <1>1 DEF MicExisting
  <2> QED
    BY <2>1, FewerActive
<1>2. ASSUME NEW m \in Mics, MicScanned(m) PROVE LimitInv'
  <2>1. Active' \subseteq Active
    BY <1>2 DEF MicScanned
  <2> QED
    BY <2>1, FewerActive
<1>3. ASSUME NEW m \in Mics, MicAdd(m) PROVE LimitInv'
  <2>1. status' = [status EXCEPT ![m] = "starting"] /\ status[m] = "absent"
    BY <1>3 DEF MicAdd, MicReady
  <2>2. Active = ActiveMics
    BY RegistryKinds DEF ActiveMics
  <2>3. Cardinality(Active) < MaxMics
    BY <1>3, <2>2 DEF MicAdd, MicAdmissible, MicSlotFree
  <2>4. Active' = Active \union {m}
    BY <2>1
  <2> HIDE DEF Active
  <2>5. IsFiniteSet(Active)
    BY ActiveFinite
  <2>6. Cardinality(Active) \in Nat
    BY <2>5, FS_CardinalityType
  <2>7. Cardinality(Active \union {m}) = Cardinality(Active) + 1
    <3>1. m \notin Active
      BY <2>1 DEF Active
    <3> HIDE RunRegistryAssumption DEF TypeOK, RegistryInv, RegisteredInv, HandlerInv, PoolInv
    <3> QED
      BY <2>5, <3>1, FS_AddElement
  <2>8. Cardinality(Active') \in Nat
    BY <2>4, <2>5, FS_AddElement, FS_CardinalityType
  <2> QED
    BY <2>3, <2>4, <2>6, <2>7, <2>8 DEF LimitInv
<1>4. ASSUME NEW m \in Mics, MicRefused(m) PROVE LimitInv'
  <2>1. Active' \subseteq Active
    BY <1>4 DEF MicRefused, MicReady
  <2> QED
    BY <2>1, FewerActive
<1>5. ASSUME NEW m \in Mics, MicOpen(m) PROVE LimitInv'
  <2>1. Active' \subseteq Active
    BY <1>5 DEF MicOpen
  <2> QED
    BY <2>1, FewerActive
<1>6. ASSUME NEW m \in Mics, MicOpenFails(m) PROVE LimitInv'
  <2>1. Active' \subseteq Active
    BY <1>6 DEF MicOpenFails
  <2> QED
    BY <2>1, FewerActive
<1>7. ASSUME NEW m \in Mics, MicRecord(m) PROVE LimitInv'
  <2>1. Active' \subseteq Active
    BY <1>7 DEF MicRecord
  <2> QED
    BY <2>1, FewerActive
<1>8. ASSUME NEW m \in Mics, MicLock(m) PROVE LimitInv'
  <2>1. Active' \subseteq Active
    BY <1>8 DEF MicLock
  <2> QED
    BY <2>1, FewerActive
<1>9. ASSUME NEW m \in Mics, MicLost(m) PROVE LimitInv'
  <2>1. Active' \subseteq Active
    BY <1>9 DEF MicLost
  <2> QED
    BY <2>1, FewerActive
<1>10. ASSUME NEW m \in Mics, MicReopen(m) PROVE LimitInv'
  <2>1. Active' \subseteq Active
    BY <1>10 DEF MicReopen
  <2> QED
    BY <2>1, FewerActive
<1>11. ASSUME NEW m \in Mics, MicStop(m) PROVE LimitInv'
  <2>1. Active' \subseteq Active
    BY <1>11 DEF MicStop
  <2> QED
    BY <2>1, FewerActive
<1>12. ASSUME NEW m \in Mics, MicStopped(m) PROVE LimitInv'
  <2>1. Active' \subseteq Active
    BY <1>12 DEF MicStopped
  <2> QED
    BY <2>1, FewerActive
<1>13. ASSUME NEW m \in Mics, MicFailed(m) PROVE LimitInv'
  <2>1. Active' \subseteq Active
    BY <1>13 DEF MicFailed
  <2> QED
    BY <2>1, FewerActive
<1>14. ASSUME NEW c \in Clips, ClipAdd(c) PROVE LimitInv'
  <2>1. Active' \subseteq Active
    BY <1>14 DEF ClipAdd
  <2> QED
    BY <2>1, FewerActive
<1>15. ASSUME NEW c \in Clips, ClipRefused(c) PROVE LimitInv'
  <2>1. Active' \subseteq Active
    BY <1>15 DEF ClipRefused
  <2> QED
    BY <2>1, FewerActive
<1>16. ASSUME NEW t \in Stresses, StressAdd(t) PROVE LimitInv'
  <2>1. Active' \subseteq Active
    BY <1>16 DEF StressAdd
  <2> QED
    BY <2>1, FewerActive
<1>17. ASSUME NEW t \in Stresses, StressRefused(t) PROVE LimitInv'
  <2>1. Active' \subseteq Active
    BY <1>17 DEF StressRefused
  <2> QED
    BY <2>1, FewerActive
<1>18. ASSUME NEW j \in Jobs, Submit(j) PROVE LimitInv'
  <2>1. Active' \subseteq Active
    BY <1>18 DEF Submit
  <2> QED
    BY <2>1, FewerActive
<1>19. ASSUME NEW j \in Jobs, SubmitFails(j) PROVE LimitInv'
  <2>1. Active' \subseteq Active
    BY <1>19 DEF SubmitFails
  <2> QED
    BY <2>1, FewerActive
<1>20. ASSUME NEW j \in Jobs, JobEnd(j) PROVE LimitInv'
  <2>1. Active' \subseteq Active
    BY <1>20 DEF JobEnd
  <2> QED
    BY <2>1, FewerActive
<1>21. ASSUME NEW x \in Models, DeleteModel(x) PROVE LimitInv'
  <2>1. Active' \subseteq Active
    BY <1>21 DEF DeleteModel
  <2> QED
    BY <2>1, FewerActive
<1>22. CASE JobStart
  <2>1. Active' \subseteq Active
    BY <1>22 DEF JobStart
  <2> QED
    BY <2>1, FewerActive
<1>23. CASE ShutdownBegin
  <2>1. Active' \subseteq Active
    BY <1>23 DEF ShutdownBegin
  <2> QED
    BY <2>1, FewerActive
<1>24. CASE ShutdownJoined
  <2>1. Active' \subseteq Active
    BY <1>24 DEF ShutdownJoined
  <2> QED
    BY <2>1, FewerActive
<1>25. CASE ShutdownDone
  <2>1. Active' \subseteq Active
    BY <1>25 DEF ShutdownDone
  <2> QED
    BY <2>1, FewerActive
<1>26. CASE UNCHANGED vars
  <2>1. Active' \subseteq Active
    BY <1>26 DEF vars
  <2> QED
    BY <2>1, FewerActive
<1> QED
  BY <1>1, <1>2, <1>3, <1>4, <1>5, <1>6, <1>7, <1>8, <1>9, <1>10, <1>11, <1>12, <1>13, <1>14,
     <1>15, <1>16, <1>17, <1>18, <1>19, <1>20, <1>21, <1>22, <1>23, <1>24, <1>25, <1>26
     DEF Next, Proceeds, Arrives, Lives, Settles, Work, Shutdown, Requests

(* Shutdown.                                                               *)
LEMMA ShutStep ==
  ASSUME TypeOK, RegistryInv, [Next]_vars
  PROVE  ShutInv'
<1> USE RunRegistryAssumption DEF TypeOK, RegistryInv, registry, pool, shutVars, Unlock,
        Requests, Runs, Jobs, Terminal, MicActive, JobActive, HandlerInv, RegisteredInv,
        PoolInv, ShutInv, Active, InPool
<1>1. ASSUME NEW m \in Mics, MicExisting(m) PROVE ShutInv'
  BY <1>1 DEF MicExisting
<1>2. ASSUME NEW m \in Mics, MicScanned(m) PROVE ShutInv'
  BY <1>2 DEF MicScanned
<1>3. ASSUME NEW m \in Mics, MicAdd(m) PROVE ShutInv'
  <2>1. ~shutdown /\ UNCHANGED <<shutdown, shut, joining>>
    BY <1>3 DEF MicAdd, MicAdmissible
  <2> QED
    BY <2>1
<1>4. ASSUME NEW m \in Mics, MicRefused(m) PROVE ShutInv'
  BY <1>4 DEF MicRefused, MicReady
<1>5. ASSUME NEW m \in Mics, MicOpen(m) PROVE ShutInv'
  BY <1>5 DEF MicOpen
<1>6. ASSUME NEW m \in Mics, MicOpenFails(m) PROVE ShutInv'
  BY <1>6, RemoveRun DEF MicOpenFails
<1>7. ASSUME NEW m \in Mics, MicRecord(m) PROVE ShutInv'
  BY <1>7 DEF MicRecord
<1>8. ASSUME NEW m \in Mics, MicLock(m) PROVE ShutInv'
  BY <1>8 DEF MicLock
<1>9. ASSUME NEW m \in Mics, MicLost(m) PROVE ShutInv'
  BY <1>9 DEF MicLost
<1>10. ASSUME NEW m \in Mics, MicReopen(m) PROVE ShutInv'
  BY <1>10 DEF MicReopen
<1>11. ASSUME NEW m \in Mics, MicStop(m) PROVE ShutInv'
  BY <1>11 DEF MicStop
<1>12. ASSUME NEW m \in Mics, MicStopped(m) PROVE ShutInv'
  BY <1>12 DEF MicStopped
<1>13. ASSUME NEW m \in Mics, MicFailed(m) PROVE ShutInv'
  BY <1>13 DEF MicFailed
<1>14. ASSUME NEW c \in Clips, ClipAdd(c) PROVE ShutInv'
  BY <1>14, AdmitRun DEF ClipAdd
<1>15. ASSUME NEW c \in Clips, ClipRefused(c) PROVE ShutInv'
  BY <1>15 DEF ClipRefused
<1>16. ASSUME NEW t \in Stresses, StressAdd(t) PROVE ShutInv'
  BY <1>16, AdmitStress DEF StressAdd
<1>17. ASSUME NEW t \in Stresses, StressRefused(t) PROVE ShutInv'
  BY <1>17 DEF StressRefused
<1>18. ASSUME NEW j \in Jobs, Submit(j) PROVE ShutInv'
  BY <1>18, QueueAppend DEF Submit
<1>19. ASSUME NEW j \in Jobs, SubmitFails(j) PROVE ShutInv'
  BY <1>19, RemoveRun, RemoveStress DEF SubmitFails
<1>20. ASSUME NEW j \in Jobs, JobEnd(j) PROVE ShutInv'
  BY <1>20 DEF JobEnd
<1>21. ASSUME NEW x \in Models, DeleteModel(x) PROVE ShutInv'
  BY <1>21 DEF DeleteModel
<1>22. CASE JobStart
  BY <1>22, QueueHead DEF JobStart
<1>23. CASE ShutdownBegin
  BY <1>23, RegistryKinds DEF ShutdownBegin
<1>24. CASE ShutdownJoined
  BY <1>24 DEF ShutdownJoined
<1>25. CASE ShutdownDone
  <2>1. Range(queue) = {}
    BY <1>25 DEF ShutdownDone, Range
  <2> QED
    BY <1>25, <2>1 DEF ShutdownDone
<1>26. CASE UNCHANGED vars
  BY <1>26 DEF vars
<1> QED
  BY <1>1, <1>2, <1>3, <1>4, <1>5, <1>6, <1>7, <1>8, <1>9, <1>10, <1>11, <1>12, <1>13, <1>14,
     <1>15, <1>16, <1>17, <1>18, <1>19, <1>20, <1>21, <1>22, <1>23, <1>24, <1>25, <1>26
     DEF Next, Proceeds, Arrives, Lives, Settles, Work, Shutdown, Requests
-----------------------------------------------------------------------------
(* The inductive invariant holds in every reachable state.                  *)
THEOREM RegistryInvariant == Spec => [](TypeOK /\ RegistryInv)
<1>1. Init => TypeOK /\ RegistryInv
  <2> SUFFICES ASSUME Init PROVE TypeOK /\ RegistryInv
    OBVIOUS
  <2> USE RunRegistryAssumption DEF Init, Requests, Runs, Jobs, Terminal, MicActive, JobActive
  <2>1. Range(runs) = {} /\ Range(stressRuns) = {} /\ Range(queue) = {}
    BY DEF Range
  <2>2. TypeOK
    <3>1. /\ <<>> \in Seq(Runs) /\ <<>> \in Seq(Stresses) /\ <<>> \in Seq(Jobs)
          /\ Len(<<>>) <= MaxRuns /\ Distinct(<<>>)
      BY DEF Distinct
    <3>2. status \in [Requests -> Terminal \union MicActive \union JobActive \union {"absent"}]
      OBVIOUS
    <3>3. pc \in [Requests -> {"idle", "locked", "scanned", "opening", "opened", "submitting", "done"}]
      OBVIOUS
    <3> QED
      BY <3>1, <3>2, <3>3 DEF TypeOK
  <2>3. RegisteredInv /\ HandlerInv /\ CaptureInv
    BY <2>1 DEF RegisteredInv, HandlerInv, CaptureInv
  <2>4. PoolInv /\ ExclusionInv /\ OneRunPerProfile
    BY <2>1 DEF PoolInv, Distinct, ExclusionInv, OneRunPerProfile
  <2>5. LimitInv
    <3>1. Active = {}
      BY DEF Active
    <3> QED
      BY <3>1, FS_EmptySet DEF LimitInv
  <2>6. ShutInv
    BY DEF ShutInv
  <2> QED
    BY <2>2, <2>3, <2>4, <2>5, <2>6 DEF RegistryInv
<1>2. TypeOK /\ RegistryInv /\ [Next]_vars => (TypeOK /\ RegistryInv)'
  BY TypeStep, RegisteredStep, HandlerStep, CaptureStep, PoolStep, ProfileStep, ExclusionStep,
     LimitStep, ShutStep DEF RegistryInv
<1> QED
  BY <1>1, <1>2, PTL DEF Spec

(* The registries stay within max_runs, hold no id twice, and every variable *)
(* keeps its type.                                                         *)
THEOREM TypeCorrect == Spec => []TypeOK
  BY RegistryInvariant, PTL

(* A run that holds its source and is not given up as failed is active.     *)
LEMMA CapturingActive ==
  ASSUME TypeOK, RegistryInv
  PROVE  CapturingMics \subseteq Active
  BY DEF CapturingMics, Active, RegistryInv, CaptureInv, MicActive

(* A profile has at most one active run.                                    *)
THEOREM OneRunPerProfileAlways == Spec => []OneRunPerProfile
<1>1. RegistryInv => OneRunPerProfile
  BY DEF RegistryInv
<1> QED
  BY <1>1, RegistryInvariant, PTL

(* While a stress test is queued or running no microphone captures and no   *)
(* second stress test is active.                                           *)
THEOREM StressAloneAlways == Spec => []StressAlone
<1>1. TypeOK /\ RegistryInv => StressAlone
  <2> SUFFICES ASSUME TypeOK, RegistryInv PROVE StressAlone
    OBVIOUS
  <2>1. CapturingMics \subseteq Active
    BY CapturingActive
  <2> QED
    BY <2>1 DEF StressAlone, RegistryInv, ExclusionInv, Active
<1> QED
  BY <1>1, RegistryInvariant, PTL

(* At most max_microphone_runs sources are open, those that recovery reopens *)
(* included.                                                               *)
THEOREM MicLimitAlways == Spec => []MicLimit
<1>1. TypeOK /\ RegistryInv => MicLimit
  <2> SUFFICES ASSUME TypeOK, RegistryInv PROVE MicLimit
    OBVIOUS
  <2>1. CapturingMics \subseteq Active /\ IsFiniteSet(Active)
    BY CapturingActive, ActiveFinite
  <2>2. IsFiniteSet(CapturingMics) /\ Cardinality(CapturingMics) <= Cardinality(Active)
    BY <2>1, FS_Subset
  <2>3. Cardinality(CapturingMics) \in Nat /\ Cardinality(Active) \in Nat
    BY <2>1, <2>2, FS_CardinalityType
  <2> QED
    BY <2>2, <2>3, RunRegistryAssumption DEF MicLimit, RegistryInv, LimitInv
<1> QED
  BY <1>1, RegistryInvariant, PTL

(* What the pool holds is active, and what is active is registered.         *)
LEMMA AtWorkRegistered ==
  ASSUME TypeOK, RegistryInv
  PROVE  /\ \A m \in CapturingMics : m \in Range(runs) /\ status[m] \notin Terminal
         /\ \A j \in InPool : /\ status[j] \in JobActive
                              /\ j \in Range(runs) \/ (j \in Stresses /\ j \in Range(stressRuns))
<1>1. ASSUME NEW m \in CapturingMics PROVE m \in Range(runs) /\ status[m] \notin Terminal
  <2>1. m \in Mics /\ status[m] \in MicActive
    BY CapturingActive DEF Active
  <2> QED
    BY <2>1 DEF RegistryInv, RegisteredInv, MicActive, Terminal
<1>2. ASSUME NEW j \in InPool
      PROVE  /\ status[j] \in JobActive
             /\ j \in Range(runs) \/ (j \in Stresses /\ j \in Range(stressRuns))
  <2>1. j \in Jobs
    BY RegistryKinds DEF InPool, TypeOK
  <2>2. status[j] \in JobActive
    BY DEF InPool, RegistryInv, PoolInv, JobActive
  <2> QED
    BY <2>1, <2>2 DEF RegistryInv, RegisteredInv, Jobs
<1> QED
  BY <1>1, <1>2

(* Active runs are never evicted: what captures or is in the pool can be    *)
(* found in its registry.                                                  *)
THEOREM ActiveRegisteredAlways == Spec => []ActiveRegistered
<1>1. TypeOK /\ RegistryInv => ActiveRegistered
  BY AtWorkRegistered DEF ActiveRegistered
<1> QED
  BY <1>1, RegistryInvariant, PTL

(* When shutdown has returned no job is left and no source is open.         *)
THEOREM ShutdownDrainedAlways == Spec => []ShutdownDrained
<1>1. TypeOK /\ RegistryInv => ShutdownDrained
  BY CapturingActive DEF ShutdownDrained, RegistryInv, ShutInv
<1> QED
  BY <1>1, RegistryInvariant, PTL

(* A model is not deleted under a run that captures or a job that will use  *)
(* it.                                                                     *)
THEOREM ModelsKeptAlways == Spec => ModelsKept
<1> DEFINE Kept == \A x \in models : x \notin models' =>
                     \A r \in CapturingMics \union InPool : ModelOf[r] # x
<1>1. ASSUME TypeOK, RegistryInv, [Next]_vars PROVE Kept
  <2> SUFFICES ASSUME NEW x \in models, x \notin models',
                      NEW r \in CapturingMics \union InPool, ModelOf[r] = x
               PROVE  FALSE
    OBVIOUS
  <2>1. DeleteModel(x)
    <3>1. models' # models
      OBVIOUS
    <3>2. ASSUME NEW r1 \in Requests, Proceeds(r1) \/ Arrives(r1) PROVE models' = models
      BY <3>2 DEF Proceeds, Arrives, MicExisting, MicScanned, MicAdd, MicRefused, MicOpen,
         MicOpenFails, MicRecord, MicLock, ClipAdd, ClipRefused, StressAdd, StressRefused, Submit,
         SubmitFails
    <3>3. ASSUME NEW m \in Mics, Lives(m) PROVE models' = models
      BY <3>3 DEF Lives, Settles, MicLost, MicReopen, MicStop, MicStopped, MicFailed
    <3>4. ASSUME Work \/ ShutdownBegin \/ Shutdown \/ UNCHANGED vars PROVE models' = models
      BY <3>4 DEF Work, JobStart, JobEnd, ShutdownBegin, Shutdown, ShutdownJoined,
         ShutdownDone, vars
    <3>5. PICK y \in Models : DeleteModel(y)
      BY <1>1, <3>1, <3>2, <3>3, <3>4 DEF Next
    <3>6. y = x
      BY <3>5 DEF DeleteModel
    <3> QED
      BY <3>5, <3>6
  <2>2. ModelUseBlockers(x) = {}
    BY <2>1 DEF DeleteModel
  <2>3. \/ r \in Range(runs) /\ status[r] \notin Terminal
        \/ r \in Range(stressRuns) /\ r \in Stresses /\ status[r] \in JobActive
    BY <1>1, AtWorkRegistered DEF JobActive, Terminal
  <2> QED
    BY <2>2, <2>3 DEF ModelUseBlockers
<1>2. ASSUME TypeOK, RegistryInv, [Next]_vars PROVE [Kept]_vars
  BY <1>1, <1>2
<1> QED
  BY <1>2, RegistryInvariant, PTL DEF Spec, ModelsKept

(* Starts, recoveries, stress tests, evictions and stops cannot get round  *)
(* the rules of the registry in any interleaving.                          *)
THEOREM LimitsKeptAlways == Spec => []LimitsKept
<1>1. StressAlone /\ MicLimit /\ OneRunPerProfile /\ ActiveRegistered => LimitsKept
  BY DEF LimitsKept
<1> QED
  BY <1>1, StressAloneAlways, MicLimitAlways, OneRunPerProfileAlways, ActiveRegisteredAlways, PTL
-----------------------------------------------------------------------------
(* What a client sees of a microphone run's status.                         *)
PhaseOf(k) ==
  IF status[k] = "absent" THEN "absent"
  ELSE IF pc[k] # "done" \/ status[k] \in {"starting", "recording"} THEN "active"
  ELSE status[k]

(* The moves of the promise.                                                *)
PhaseMove(k) ==
  \/ /\ PhaseOf(k) \in {"active", "stopping"} /\ PhaseOf(k)' = PhaseOf(k)
     /\ ~capturing[k] /\ capturing'[k]
  \/ PhaseOf(k)' = PhaseOf(k) /\ capturing[k] /\ ~capturing'[k]
  \/ /\ capturing'[k] = capturing[k]
     /\ \/ PhaseOf(k) = "absent" /\ PhaseOf(k)' = "active"
        \/ PhaseOf(k) = "active" /\ ~capturing[k] /\ PhaseOf(k)' = "absent"
        \/ PhaseOf(k) = "active" /\ PhaseOf(k)' = "stopping"
        \/ PhaseOf(k) = "stopping" /\ ~capturing[k] /\ PhaseOf(k)' = "stopped"
        \/ PhaseOf(k) \in {"stopping", "stopped"} /\ PhaseOf(k)' = "failed"
        \/ PhaseOf(k)' = PhaseOf(k)

(* What any request, worker or shutdown does to a microphone run is one of  *)
(* them, or nothing.                                                        *)
LEMMA PhaseStep ==
  ASSUME TypeOK, RegistryInv, [Next]_vars, NEW k \in Mics
  PROVE  PhaseMove(k)
<1> USE RunRegistryAssumption DEF TypeOK, RegistryInv, registry, pool, shutVars, Unlock,
        Requests, Runs, Jobs, Terminal, MicActive, JobActive, HandlerInv, PhaseOf, PhaseMove
<1>1. ASSUME NEW m \in Mics, MicExisting(m) PROVE PhaseMove(k)
  BY <1>1 DEF MicExisting
<1>2. ASSUME NEW m \in Mics, MicScanned(m) PROVE PhaseMove(k)
  BY <1>2 DEF MicScanned
<1>3. ASSUME NEW m \in Mics, MicAdd(m) PROVE PhaseMove(k)
  BY <1>3 DEF MicAdd, MicReady
<1>4. ASSUME NEW m \in Mics, MicRefused(m) PROVE PhaseMove(k)
  BY <1>4 DEF MicRefused, MicReady
<1>5. ASSUME NEW m \in Mics, MicOpen(m) PROVE PhaseMove(k)
  BY <1>5 DEF MicOpen
<1>6. ASSUME NEW m \in Mics, MicOpenFails(m) PROVE PhaseMove(k)
  BY <1>6 DEF MicOpenFails
<1>7. ASSUME NEW m \in Mics, MicRecord(m) PROVE PhaseMove(k)
  BY <1>7 DEF MicRecord
<1>8. ASSUME NEW m \in Mics, MicLock(m) PROVE PhaseMove(k)
  BY <1>8 DEF MicLock
<1>9. ASSUME NEW m \in Mics, MicLost(m) PROVE PhaseMove(k)
  BY <1>9 DEF MicLost
<1>10. ASSUME NEW m \in Mics, MicReopen(m) PROVE PhaseMove(k)
  BY <1>10 DEF MicReopen
<1>11. ASSUME NEW m \in Mics, MicStop(m) PROVE PhaseMove(k)
  BY <1>11 DEF MicStop
<1>12. ASSUME NEW m \in Mics, MicStopped(m) PROVE PhaseMove(k)
  BY <1>12 DEF MicStopped
<1>13. ASSUME NEW m \in Mics, MicFailed(m) PROVE PhaseMove(k)
  BY <1>13 DEF MicFailed
<1>14. ASSUME NEW c \in Clips, ClipAdd(c) PROVE PhaseMove(k)
  BY <1>14 DEF ClipAdd
<1>15. ASSUME NEW c \in Clips, ClipRefused(c) PROVE PhaseMove(k)
  BY <1>15 DEF ClipRefused
<1>16. ASSUME NEW t \in Stresses, StressAdd(t) PROVE PhaseMove(k)
  BY <1>16 DEF StressAdd
<1>17. ASSUME NEW t \in Stresses, StressRefused(t) PROVE PhaseMove(k)
  BY <1>17 DEF StressRefused
<1>18. ASSUME NEW j \in Jobs, Submit(j) PROVE PhaseMove(k)
  BY <1>18 DEF Submit
<1>19. ASSUME NEW j \in Jobs, SubmitFails(j) PROVE PhaseMove(k)
  BY <1>19 DEF SubmitFails
<1>20. ASSUME NEW j \in Jobs, JobEnd(j) PROVE PhaseMove(k)
  BY <1>20 DEF JobEnd
<1>21. ASSUME NEW x \in Models, DeleteModel(x) PROVE PhaseMove(k)
  BY <1>21 DEF DeleteModel
<1>22. CASE JobStart
  BY <1>22, QueueHead, RegistryKinds DEF JobStart, PoolInv
<1>23. CASE ShutdownBegin
  BY <1>23, RegistryKinds DEF ShutdownBegin, Starting, RegisteredInv
<1>24. CASE ShutdownJoined
  BY <1>24 DEF ShutdownJoined
<1>25. CASE ShutdownDone
  BY <1>25 DEF ShutdownDone
<1>26. CASE UNCHANGED vars
  BY <1>26 DEF vars
<1> QED
  BY <1>1, <1>2, <1>3, <1>4, <1>5, <1>6, <1>7, <1>8, <1>9, <1>10, <1>11, <1>12, <1>13, <1>14,
     <1>15, <1>16, <1>17, <1>18, <1>19, <1>20, <1>21, <1>22, <1>23, <1>24, <1>25, <1>26
     DEF Next, Proceeds, Arrives, Lives, Settles, Work, Shutdown, Requests

(* So every step implements a step of the run's promise, or none.           *)
LEMMA MoveKeepsPromise ==
  ASSUME TypeOK, TypeOK', NEW k \in Mics, PhaseMove(k)
  PROVE  Promise(k)!Next \/ UNCHANGED Promise(k)!vars
<1>1. capturing[k] \in BOOLEAN /\ capturing'[k] \in BOOLEAN
  BY DEF TypeOK
<1> QED
  BY <1>1 DEF Promise!Next, Promise!vars, Promise!Accept, Promise!Refuse, Promise!Open,
     Promise!Close, Promise!Cancel, Promise!Stopped, Promise!Failed, PhaseMove, PhaseOf

(* Whatever the requests on other runs, the worker pool and shutdown do,    *)
(* every step is for each microphone run a step of what the API promises    *)
(* of it, or none: the registry composes runs that keep their promise.      *)
THEOREM RunsKeepPromiseAlways == Spec => RunsKeepPromise
<1> DEFINE Kept == \A m \in Mics : Promise(m)!Next \/ UNCHANGED Promise(m)!vars
<1>1. Init => \A m \in Mics : Promise(m)!Init
  BY RunRegistryAssumption DEF Init, Promise!Init, Requests
<1>2. ASSUME TypeOK, RegistryInv, TypeOK', [Next]_vars PROVE Kept
  BY <1>2, PhaseStep, MoveKeepsPromise
<1>3. ASSUME TypeOK, RegistryInv, TypeOK', [Next]_vars PROVE [Kept]_vars
  BY <1>2, <1>3
<1> QED
  BY <1>1, <1>3, RegistryInvariant, PTL DEF Spec, RunsKeepPromise

=============================================================================
