--------------------------- MODULE RecordingProofs ---------------------------
(***************************************************************************)
(* Theorems about Recording for any number of recordings, any buffer and   *)
(* duration and any number of faults.  The argument has two levels: SInv   *)
(* is what a session keeps by itself (who may still hold the device, and   *)
(* that a finished one holds nothing), RecInv ties the sessions to the     *)
(* library, its requests and the files.                                    *)
(***************************************************************************)
EXTENDS Recording, FiniteSetTheorems, TLAPS

\* Nothing is captured or written any more.
Over(v) == v.writer \in {"none", "dead"} /\ v.device # "open" /\ v.queue = 0

\* A session whose device has not been opened yet.
Calm(v) ==
    /\ v.status \in {"none", "recording"} /\ v.writer \in {"none", "run"} /\ v.queue = 0
    /\ ~v.asked /\ v.lock = None /\ \A c \in Closers : v.calls[c] = "idle"

\* An open device of a session that is over is about to be closed by the writer; stop()
\* waits only once the device is closed or the session over.
SInv(v) ==
    /\ v \in Sessions
    /\ v.status = "none" => v.device = "none"
    /\ v.device = "none" => Calm(v)
    /\ Terminal(v.status) /\ v.device = "open" => v.writer = "failing"
    /\ \A c \in Closers : v.calls[c] = "waits" => v.device # "open" \/ Terminal(v.status)
    /\ v.asked => v.device = "closed"
    /\ v.status = "completed" => Over(v)
    /\ v.lock = "writer" => v.writer \in {"full", "failing"}

\* What holds while a request is inside the service lock.
RequestInv ==
    svc # None =>
      /\ svc.id \in used \ gone
      /\ svc.op # "delete" => records[svc.id] = None /\ manifest[svc.id] = "none"
      /\ svc.op = "delete" => /\ records[svc.id] # None /\ ~records[svc.id].live
                              /\ wav[svc.id] = "none"
      /\ svc.op = "start" => s[svc.id].status # "none" /\ active = None
      /\ svc.op = "import" => s[svc.id] = NoSession /\ wav[svc.id] = "final"
      /\ svc.op = "undo" /\ s[svc.id].device = "open" /\ s[svc.id].calls["request"] # "wants"
           => s[svc.id].writer = "failing"

\* CaptureOwned, for the requests that really own a capture.
Owned(i) ==
    \/ active = i
    \/ svc # None /\ svc.id = i /\ svc.op \in {"start", "undo"}
    \/ s[i].writer = "failing"

FileInv(i) ==
    /\ s[i].status = "completed" \/ manifest[i] = "completed" => wav[i] \in {"final", "none"}
    /\ manifest[i] = "completed" => Over(s[i])

RecordInv(i) ==
    /\ records[i] # None /\ records[i].live => active = i /\ s[i].device # "none"
    /\ records[i] # None /\ ~records[i].live => Terminal(records[i].status)

\* Ids are given out in order, and nothing bears an id before.
UsedInv ==
    /\ \E n \in 0 .. MaxIds : used = 1 .. n
    /\ \A i \in Ids \ used :
         s[i] = NoSession /\ records[i] = None /\ wav[i] = "none" /\ manifest[i] = "none"

GoneInv == \A i \in gone : records[i] = None /\ wav[i] = "none" /\ manifest[i] = "none"

RecordingInv(i) ==
    /\ SInv(s[i])
    /\ s[i].device = "open" => Owned(i)
    /\ FileInv(i) /\ RecordInv(i)

RecInv ==
    /\ TypeOK /\ RequestInv /\ UsedInv /\ GoneInv
    /\ \A i \in Ids : RecordingInv(i)

-----------------------------------------------------------------------------
LEMMA NoSessionFacts ==
  /\ SInv(NoSession) /\ Over(NoSession)
  /\ NoSession.device = "none" /\ NoSession.status = "none"
BY RecordingAssumption
   DEF NoSession, SInv, Over, Calm, Terminal, Sessions, RecordingAssumption

\* The next id is a new one.
LEMMA FreshId ==
  ASSUME RecInv, NEW i \in Ids, i = Fresh
  PROVE  /\ i \notin used /\ \E n \in 0 .. MaxIds : used \cup {i} = 1 .. n
         /\ used \cup {i} \subseteq Ids
<1>1. PICK n \in 0 .. MaxIds : used = 1 .. n
  BY DEF RecInv, UsedInv
<1>2. Cardinality(used) = n
  BY <1>1, FS_Interval, RecordingAssumption DEF RecordingAssumption
<1>3. i = n + 1
  BY <1>2 DEF Fresh
<1>4. used \cup {i} = 1 .. (n + 1)
  BY <1>1, <1>3
<1>. QED
  BY <1>1, <1>3, <1>4, RecordingAssumption DEF Ids, RecordingAssumption

\* What a step of a session's own threads may do to it.
Follows(v, w) ==
    /\ SInv(w)
    /\ w.device = "open" => v.device = "open" /\ (v.writer = "failing" => w.writer = "failing")
    /\ v.device # "none" => w.device # "none"
    /\ v.status # "none" => w.status # "none"
    /\ Over(v) => Over(w)
    /\ w.device = "open" /\ w.calls["request"] # "wants" /\ v.calls["request"] = "wants"
         => w.writer = "failing"

\* A session that is dropped once it is settled keeps the invariant either way.
LEMMA BecomesFacts ==
  ASSUME NEW i \in Ids, NEW w, s \in [Ids -> Sessions], SInv(w), Becomes(i, w)
  PROVE  /\ s' \in [Ids -> Sessions]
         /\ \A j \in Ids : j # i => s'[j] = s[j]
         /\ s'[i] = w \/ (s'[i] = NoSession /\ ~Held(i))
         /\ SInv(s'[i])
BY NoSessionFacts DEF Becomes, Settled, SInv

\* A step of a session's threads, and what it writes, keeps the invariant.
LEMMA SessionStep ==
  ASSUME RecInv, NEW i \in Ids, NEW w, NEW file \in {"none", "open", "torn", "final"},
         s[i] # NoSession, Follows(s[i], w), Becomes(i, w),
         wav' = [wav EXCEPT ![i] = file], wav[i] = "none" => file = "none",
         w.status = "completed" \/ manifest[i] = "completed" => file \in {"final", "none"},
         UNCHANGED <<library, manifest, past>>, faults' \in 0 .. MaxFaults
  PROVE  RecInv'
<1>. USE DEF library, past
<1>0. /\ s \in [Ids -> Sessions] /\ SInv(w) /\ i \in used
      /\ wav \in [Ids -> {"none", "open", "torn", "final"}]
  BY DEF RecInv, TypeOK, Follows, UsedInv
<1>1. /\ s' \in [Ids -> Sessions]
      /\ \A j \in Ids : j # i => s'[j] = s[j] /\ wav'[j] = wav[j]
      /\ s'[i] = w \/ (s'[i] = NoSession /\ ~Held(i))
      /\ SInv(s'[i]) /\ wav'[i] = file
  BY <1>0, BecomesFacts
<1>2. TypeOK'
  BY <1>1 DEF RecInv, TypeOK
<1>3. RequestInv'
  <2>1. CASE svc # None /\ svc.id = i
    <3>1. s'[i] = w
      BY <1>1, <2>1 DEF Held
    <3>. QED
      BY <1>0, <1>1, <2>1, <3>1 DEF RecInv, RequestInv, Follows
  <2>2. CASE svc # None /\ svc.id # i
    <3>1. svc.id \in Ids
      BY <2>2 DEF RecInv, TypeOK, RequestInv
    <3>. QED
      BY <1>1, <2>2, <3>1 DEF RecInv, RequestInv
  <2>. QED
    BY <2>1, <2>2 DEF RequestInv
<1>4. UsedInv'
  BY <1>0, <1>1 DEF RecInv, UsedInv
<1>5. GoneInv'
  BY <1>0, <1>1 DEF RecInv, GoneInv, TypeOK
<1>6. ASSUME NEW j \in Ids PROVE RecordingInv(j)'
  <2>1. CASE j # i
    BY <1>1, <2>1 DEF RecInv, RecordingInv, Owned, FileInv, RecordInv
  <2>2. CASE j = i
    <3>1. s'[i].device = "open" => Owned(i)'
      BY <1>1, NoSessionFacts DEF RecInv, RecordingInv, Owned, Follows
    <3>2. FileInv(i)'
      <4>1. manifest[i] = "completed" => Over(s'[i])
        BY <1>1, NoSessionFacts DEF RecInv, RecordingInv, FileInv, Follows
      <4>2. NoSession.status # "completed"
        BY DEF NoSession
      <4>. QED
        BY <1>1, <4>1, <4>2 DEF FileInv
    <3>3. RecordInv(i)'
      BY <1>1 DEF RecInv, RecordingInv, RecordInv, Follows, Held
    <3>. QED
      BY <1>1, <2>2, <3>1, <3>2, <3>3 DEF RecordingInv
  <2>. QED
    BY <2>1, <2>2
<1>. QED
  BY <1>2, <1>3, <1>4, <1>5, <1>6 DEF RecInv

\* The same for the steps that write nothing.
LEMMA QuietStep ==
  ASSUME RecInv, NEW i \in Ids, NEW w, s[i] # NoSession, Follows(s[i], w), Becomes(i, w),
         w.status = "completed" => s[i].status = "completed",
         UNCHANGED <<library, files, past>>, faults' \in 0 .. MaxFaults
  PROVE  RecInv'
<1>1. wav \in [Ids -> {"none", "open", "torn", "final"}]
  BY DEF RecInv, TypeOK
<1>2. wav' = [wav EXCEPT ![i] = wav[i]] /\ wav[i] \in {"none", "open", "torn", "final"}
  BY <1>1 DEF files
<1>3. w.status = "completed" \/ manifest[i] = "completed" => wav[i] \in {"final", "none"}
  BY DEF RecInv, RecordingInv, FileInv
<1>. QED
  BY <1>2, <1>3, SessionStep DEF files

-----------------------------------------------------------------------------
(***************************************************************************)
(* The steps of a session's threads.                                       *)
(***************************************************************************)
LEMMA ErroredFollows ==
  ASSUME NEW v, SInv(v), v.device = "open"
  PROVE  Follows(v, Errored(v)) /\ (Errored(v).status = "completed" => v.status = "completed")
<1>1. CASE v.status # "recording" \/ v.bad
  BY <1>1 DEF Errored, Follows
<1>2. CASE v.status = "recording" /\ ~v.bad
  <2>1. /\ Errored(v) = [v EXCEPT !.bad = TRUE, !.accepting = FALSE, !.calls["error"] = "wants"]
        /\ v \in Sessions
    BY <1>2 DEF Errored, SInv
  <2>2. Errored(v) \in Sessions
    <3>1. [v.calls EXCEPT !["error"] = "wants"] \in [Closers -> {"idle", "wants", "waits"}]
      BY <2>1 DEF Sessions, Closers
    <3>. QED
      BY <2>1, <3>1 DEF Sessions
  <2>. QED
    BY <1>2, <2>1, <2>2 DEF SInv, Follows, Over, Terminal, Sessions, Closers, Calm
<1>. QED
  BY <1>1, <1>2 DEF SInv

LEMMA AudioInv ==
  ASSUME RecInv, NEW i \in Ids, InSession(Audio(i)) PROVE RecInv'
<1>. DEFINE v == s[i]
<1>0. /\ SInv(v) /\ v.device = "open" /\ v.accepting /\ v # NoSession
      /\ UNCHANGED <<library, files, past>> /\ faults' \in 0 .. MaxFaults
  BY NoSessionFacts DEF RecInv, RecordingInv, InSession, Audio, files, TypeOK
<1>1. CASE v.queue < Room
  <2>. DEFINE w == [v EXCEPT !.queue = @ + 1]
  <2>1. v \in Sessions
    BY <1>0 DEF SInv
  <2>2. w \in Sessions
    BY <1>1, <2>1, RecordingAssumption DEF Sessions, RecordingAssumption
  <2>3. Follows(v, w) /\ (w.status = "completed" => v.status = "completed")
    BY <1>0, <2>1, <2>2 DEF Follows, SInv, Over, Calm, Sessions
  <2>4. Becomes(i, w)
    BY <1>1 DEF InSession, Audio
  <2>. QED
    BY <1>0, <2>3, <2>4, QuietStep
<1>2. CASE ~ (v.queue < Room)
  <2>1. Becomes(i, Errored(v))
    BY <1>2 DEF InSession, Audio
  <2>. QED
    BY <1>0, <2>1, ErroredFollows, QuietStep
<1>. QED
  BY <1>1, <1>2

LEMMA FaultTyped ==
  ASSUME RecInv, Fault PROVE faults' \in 0 .. MaxFaults
BY RecordingAssumption DEF RecInv, TypeOK, Fault, RecordingAssumption

LEMMA SourceErrorInv ==
  ASSUME RecInv, NEW i \in Ids, InSession(SourceError(i)) PROVE RecInv'
<1>1. /\ SInv(s[i]) /\ s[i].device = "open" /\ s[i] # NoSession /\ Becomes(i, Errored(s[i]))
      /\ UNCHANGED <<library, files, past>> /\ Fault
  BY NoSessionFacts DEF RecInv, RecordingInv, InSession, SourceError, files
<1>. QED
  BY <1>1, ErroredFollows, FaultTyped, QuietStep

LEMMA EnterStopInv ==
  ASSUME RecInv, NEW i \in Ids, NEW c \in Closers \cup {"writer"}, InSession(EnterStop(i, c))
  PROVE  RecInv'
<1>. DEFINE v == s[i]
<1>0. /\ SInv(v) /\ v \in Sessions /\ Wants(i, c) /\ v.lock = None
      /\ UNCHANGED <<library, files, past>> /\ faults' \in 0 .. MaxFaults
  BY DEF RecInv, RecordingInv, InSession, EnterStop, files, TypeOK, SInv
<1>a. v # NoSession /\ v.device # "none"
  BY <1>0 DEF Wants, NoSession, SInv, Calm, Closers
<1>1. CASE c \in {"request", "watchdog"} /\ v.status # "recording"
  <2>. DEFINE w == [v EXCEPT !.calls[c] = Waiting(v)]
  <2>1. w \in Sessions
    BY <1>0, <1>1 DEF Sessions, Closers, Waiting
  <2>2. Terminal(v.status)
    BY <1>0, <1>1, <1>a DEF Sessions, SInv, Terminal
  <2>3. Follows(v, w) /\ (w.status = "completed" => v.status = "completed")
    BY <1>0, <1>1, <1>a, <2>1, <2>2 DEF Follows, SInv, Over, Sessions, Closers
  <2>4. Becomes(i, w)
    BY <1>1 DEF InSession, EnterStop
  <2>. QED
    BY <1>0, <1>a, <2>3, <2>4, QuietStep
<1>2. CASE ~ (c \in {"request", "watchdog"} /\ v.status # "recording")
  <2>. DEFINE w == [v EXCEPT !.lock = c, !.accepting = FALSE]
  <2>1. w \in Sessions
    BY <1>0 DEF Sessions
  <2>2. c = "writer" => v.writer \in {"full", "failing"}
    BY <1>0 DEF Wants
  <2>3. Follows(v, w) /\ (w.status = "completed" => v.status = "completed")
    BY <1>0, <1>a, <2>1, <2>2 DEF Follows, SInv, Over, Sessions, Closers
  <2>4. Becomes(i, w)
    BY <1>2 DEF InSession, EnterStop
  <2>. QED
    BY <1>0, <1>a, <2>3, <2>4, QuietStep
<1>. QED
  BY <1>1, <1>2

LEMMA LeaveStopInv ==
  ASSUME RecInv, NEW i \in Ids, InSession(LeaveStop(i)) PROVE RecInv'
<1>. DEFINE v == s[i]  c == v.lock
<1>0. /\ SInv(v) /\ v \in Sessions /\ v.lock # None /\ v # NoSession /\ v.device # "none"
      /\ UNCHANGED <<library, files, past>>
  BY DEF RecInv, RecordingInv, InSession, LeaveStop, files, SInv, NoSession, Calm
<1>1. PICK raises \in BOOLEAN :
        /\ IF raises THEN Fault ELSE UNCHANGED faults
        /\ LET x == [SourceStopped(v) EXCEPT !.lock = None, !.bad = @ \/ raises]
           IN Becomes(i, IF c = "writer"
                         THEN [x EXCEPT !.writer = IF @ = "full" THEN "run" ELSE "dead",
                                        !.calls = IF x.writer = "full" THEN @ ELSE Answered(@)]
                         ELSE [x EXCEPT !.calls[c] = IF c = "error" THEN "idle" ELSE Waiting(x)])
  BY DEF InSession, LeaveStop
<1>2. faults' \in 0 .. MaxFaults
  BY <1>1, FaultTyped DEF RecInv, TypeOK
<1>. DEFINE x == [SourceStopped(v) EXCEPT !.lock = None, !.bad = @ \/ raises]
<1>3. /\ x \in Sessions /\ x.device = "closed" /\ x.asked /\ x.lock = None
      /\ x.status = v.status /\ x.writer = v.writer /\ x.queue = v.queue /\ x.calls = v.calls
  BY <1>0 DEF Sessions, SourceStopped
<1>4. CASE c = "writer"
  <2>. DEFINE w == [x EXCEPT !.writer = IF @ = "full" THEN "run" ELSE "dead",
                             !.calls = IF x.writer = "full" THEN @ ELSE Answered(@)]
  <2>1. v.writer \in {"full", "failing"} /\ v.status # "completed" /\ ~Over(v)
    BY <1>0, <1>4 DEF SInv, Over
  <2>2. /\ w \in Sessions /\ w.device = "closed" /\ w.status = v.status /\ w.lock = None
        /\ w.asked
    <3>1. Answered(x.calls) \in [Closers -> {"idle", "wants", "waits"}]
      BY <1>3 DEF Sessions, Answered
    <3>. DEFINE n == IF x.writer = "full" THEN "run" ELSE "dead"
                k == IF x.writer = "full" THEN x.calls ELSE Answered(x.calls)
    <3>2. w = [x EXCEPT !.writer = n, !.calls = k]
      OBVIOUS
    <3>3. n \in {"run", "dead"} /\ k \in [Closers -> {"idle", "wants", "waits"}]
      BY <1>3, <3>1 DEF Sessions
    <3>. HIDE DEF x, n, k
    <3>. QED
      BY <1>3, <3>2, <3>3 DEF Sessions
  <2>3. Follows(v, w) /\ w.status # "completed"
    BY <1>0, <2>1, <2>2, RecordingAssumption DEF Follows, SInv, Sessions, Terminal, RecordingAssumption
  <2>. QED
    BY <1>0, <1>1, <1>2, <1>4, <2>3, QuietStep
<1>5. CASE c # "writer"
  <2>. DEFINE w == [x EXCEPT !.calls[c] = IF c = "error" THEN "idle" ELSE Waiting(x)]
  <2>1. /\ w \in Sessions /\ w.device = "closed" /\ w.status = v.status /\ w.lock = None
        /\ w.asked /\ w.writer = v.writer /\ w.queue = v.queue
    <3>. DEFINE k == [x.calls EXCEPT ![c] = IF c = "error" THEN "idle" ELSE Waiting(x)]
    <3>1. k \in [Closers -> {"idle", "wants", "waits"}]
      BY <1>0, <1>3, <1>5 DEF Sessions, Waiting
    <3>2. w = [x EXCEPT !.calls = k]
      OBVIOUS
    <3>. HIDE DEF x, k, w
    <3>. QED
      BY <1>3, <3>1, <3>2 DEF Sessions
  <2>2. Follows(v, w)
    BY <1>0, <2>1, RecordingAssumption
       DEF Follows, SInv, Sessions, Terminal, Over, RecordingAssumption
  <2>. QED
    BY <1>0, <1>1, <1>2, <1>5, <2>1, <2>2, QuietStep
<1>. QED
  BY <1>4, <1>5

LEMMA StopTimesOutInv ==
  ASSUME RecInv, NEW i \in Ids, NEW c \in {"request", "watchdog"}, InSession(StopTimesOut(i, c))
  PROVE  RecInv'
<1>. DEFINE v == s[i]
            k == [v.calls EXCEPT ![c] = "idle"]
            w == [v EXCEPT !.calls = k, !.status = "failed", !.bad = TRUE]
<1>0. /\ SInv(v) /\ v \in Sessions /\ c \in Closers /\ v.calls[c] = "waits" /\ v # NoSession
      /\ Becomes(i, w) /\ UNCHANGED <<library, files, past>> /\ faults' \in 0 .. MaxFaults
  BY FaultTyped
     DEF RecInv, RecordingInv, InSession, StopTimesOut, files, SInv, NoSession, Closers
<1>1. k \in [Closers -> {"idle", "wants", "waits"}]
  BY <1>0 DEF Sessions
<1>2. /\ v.device # "none" /\ (v.device # "open" \/ v.writer = "failing")
      /\ \A d \in Closers : d # c => k[d] = v.calls[d]
      /\ k[c] = "idle"
  BY <1>0 DEF SInv, Calm, Sessions
<1>. HIDE DEF k
<1>3. w \in Sessions
  BY <1>0, <1>1 DEF Sessions
<1>4. Follows(v, w) /\ w.status = "failed"
  BY <1>0, <1>2, <1>3 DEF Follows, SInv, Sessions, Over, Terminal
<1>. QED
  BY <1>0, <1>4, QuietStep

LEMMA WatchdogFiresInv ==
  ASSUME RecInv, NEW i \in Ids, InSession(WatchdogFires(i)) PROVE RecInv'
<1>. DEFINE v == s[i]
            k == [v.calls EXCEPT !["watchdog"] = "wants"]
            w == [v EXCEPT !.calls = k]
<1>0. /\ SInv(v) /\ v \in Sessions /\ v.device # "none" /\ v # NoSession
      /\ Becomes(i, w) /\ UNCHANGED <<library, files, past>> /\ faults' \in 0 .. MaxFaults
  BY NoSessionFacts
     DEF RecInv, RecordingInv, InSession, WatchdogFires, files, TypeOK, SInv
<1>1. /\ k \in [Closers -> {"idle", "wants", "waits"}]
      /\ \A d \in Closers : k[d] = v.calls[d] \/ k[d] = "wants"
      /\ k["request"] = v.calls["request"]
  BY <1>0 DEF Sessions, Closers
<1>. HIDE DEF k
<1>2. w \in Sessions
  BY <1>0, <1>1 DEF Sessions
<1>3. Follows(v, w) /\ w.status = v.status
  BY <1>0, <1>1, <1>2 DEF Follows, SInv, Sessions, Over
<1>. QED
  BY <1>0, <1>3, QuietStep

LEMMA WriterTakesInv ==
  ASSUME RecInv, NEW i \in Ids, InSession(WriterTakes(i)) PROVE RecInv'
<1>. DEFINE v == s[i]
            n == IF v.frames < MaxFrames THEN v.frames + 1 ELSE MaxFrames
            q == v.queue - 1
            x == IF n = MaxFrames THEN "full" ELSE "run"
            y == v.accepting /\ n < MaxFrames
            w == [v EXCEPT !.queue = q, !.frames = n, !.writer = x, !.accepting = y]
<1>0. /\ SInv(v) /\ v \in Sessions /\ v.writer = "run" /\ v.queue > 0 /\ v # NoSession
      /\ Becomes(i, w) /\ UNCHANGED <<library, files, past>> /\ faults' \in 0 .. MaxFaults
  BY DEF RecInv, RecordingInv, InSession, WriterTakes, files, TypeOK, SInv, NoSession
<1>1. /\ n \in 0 .. MaxFrames /\ q \in 0 .. Room
      /\ x \in {"full", "run"} /\ y \in BOOLEAN
  BY <1>0, RecordingAssumption DEF Sessions, RecordingAssumption
<1>. HIDE DEF n, q, x, y
<1>2. w \in Sessions
  BY <1>0, <1>1 DEF Sessions
<1>3. Follows(v, w) /\ w.status = v.status
  BY <1>0, <1>1, <1>2 DEF Follows, SInv, Sessions, Over, Calm
<1>. QED
  BY <1>0, <1>3, QuietStep

LEMMA WriterFailsInv ==
  ASSUME RecInv, NEW i \in Ids, InSession(WriterFails(i)) PROVE RecInv'
<1>. DEFINE v == s[i]
            q == v.queue - 1
            w == [v EXCEPT !.queue = q, !.status = "failed", !.bad = TRUE,
                           !.accepting = FALSE, !.writer = "failing"]
            file == IF wav[i] = "none" THEN "none" ELSE "torn"
<1>0. /\ SInv(v) /\ v \in Sessions /\ v.writer = "run" /\ v.queue > 0 /\ v # NoSession
      /\ Becomes(i, w) /\ wav' = [wav EXCEPT ![i] = file]
      /\ UNCHANGED <<library, manifest, past>> /\ faults' \in 0 .. MaxFaults
  BY FaultTyped
     DEF RecInv, RecordingInv, InSession, WriterFails, Written, SInv, NoSession
<1>a. q \in 0 .. Room
  BY <1>0, RecordingAssumption DEF Sessions, RecordingAssumption
<1>. HIDE DEF q
<1>1. w \in Sessions
  BY <1>0, <1>a DEF Sessions
<1>2. Follows(v, w) /\ w.status = "failed"
  BY <1>0, <1>1 DEF Follows, SInv, Sessions, Over, Calm, Terminal
<1>3. manifest[i] # "completed"
  BY <1>0 DEF RecInv, RecordingInv, FileInv, Over
<1>. QED
  BY <1>0, <1>2, <1>3, SessionStep

LEMMA WriterEndsInv ==
  ASSUME RecInv, NEW i \in Ids, InSession(WriterEnds(i)) PROVE RecInv'
<1>. DEFINE v == s[i]
            k == Answered(v.calls)
            w == [v EXCEPT !.status = IF v.bad THEN "failed" ELSE "completed",
                           !.writer = "dead", !.calls = k]
            file == IF wav[i] = "none" THEN "none" ELSE "final"
<1>0. /\ SInv(v) /\ v \in Sessions /\ v.writer = "run" /\ v.asked /\ v.queue = 0
      /\ v # NoSession
      /\ Becomes(i, w) /\ wav' = [wav EXCEPT ![i] = file]
      /\ UNCHANGED <<library, manifest, past>> /\ faults' \in 0 .. MaxFaults
  BY DEF RecInv, RecordingInv, InSession, WriterEnds, Written, Drained, SInv, NoSession, TypeOK
<1>1. k \in [Closers -> {"idle", "wants", "waits"}] /\ \A d \in Closers : k[d] # "waits"
  BY <1>0 DEF Sessions, Answered
<1>. HIDE DEF k
<1>2. w \in Sessions
  BY <1>0, <1>1 DEF Sessions
<1>3. Follows(v, w)
  BY <1>0, <1>1, <1>2 DEF Follows, SInv, Sessions, Over, Calm, Terminal
<1>. QED
  BY <1>0, <1>3, SessionStep

\* The steps of a session's own threads.
LEMMA ThreadStepInv ==
  ASSUME RecInv, NEW i \in Ids, InSession(ThreadStep(i)) PROVE RecInv'
BY EnterStopInv, LeaveStopInv, StopTimesOutInv, WatchdogFiresInv, WriterTakesInv,
   WriterFailsInv, WriterEndsInv
   DEF ThreadStep, CloseStep, WriterStep, InSession

-----------------------------------------------------------------------------
(***************************************************************************)
(* The steps of the library.                                               *)
(***************************************************************************)
LEMMA NewSessionFacts ==
  /\ SInv(NewSession) /\ NewSession.device = "none" /\ NewSession.status = "recording"
<1>. DEFINE n == NewSession
<1>1. /\ n = [NoSession EXCEPT !.status = "recording", !.accepting = TRUE, !.writer = "run"]
      /\ NoSession \in Sessions /\ NoSession.device = "none" /\ NoSession.queue = 0
      /\ ~NoSession.asked /\ NoSession.lock = None
      /\ \A c \in Closers : NoSession.calls[c] = "idle"
  BY NoSessionFacts DEF NewSession, SInv, NoSession
<1>2. /\ n \in Sessions /\ n.device = "none" /\ n.status = "recording" /\ n.writer = "run"
      /\ n.queue = 0 /\ ~n.asked /\ n.lock = None /\ n.calls = NoSession.calls
  BY <1>1 DEF Sessions
<1>. QED
  BY <1>1, <1>2, RecordingAssumption DEF SInv, Calm, Terminal, RecordingAssumption

LEMMA StartWriterInv ==
  ASSUME RecInv, NEW i \in Ids, StartWriter(i) PROVE RecInv'
<1>. USE DEF RecInv, StartWriter
<1>1. i \notin used /\ i \notin gone /\ used' \subseteq Ids
  BY FreshId DEF TypeOK
<1>2. /\ records[i] = None /\ manifest[i] = "none" /\ active # i
  BY <1>1, RecordingAssumption DEF UsedInv, TypeOK, RecordingAssumption
<1>3. /\ svc' = [op |-> "start", id |-> i] /\ svc' \in Requests /\ svc' # None
      /\ svc'.op = "start" /\ svc'.id = i
  BY RecordingAssumption DEF Requests, RecordingAssumption
<1>4. /\ s' \in [Ids -> Sessions] /\ s'[i] = NewSession
      /\ \A j \in Ids : j # i => s'[j] = s[j] /\ wav'[j] = wav[j]
  BY NewSessionFacts DEF TypeOK, SInv
<1>5. TypeOK'
  BY <1>1, <1>3, <1>4 DEF TypeOK
<1>6. RequestInv'
  BY <1>1, <1>2, <1>3, <1>4, NewSessionFacts DEF RequestInv, MayStart
<1>7. UsedInv'
  BY <1>4, FreshId DEF UsedInv
<1>8. GoneInv'
  BY <1>1, <1>4 DEF GoneInv, TypeOK
<1>9. ASSUME NEW j \in Ids PROVE RecordingInv(j)'
  <2>1. CASE j = i
    BY <1>2, <1>3, <1>4, <2>1, NewSessionFacts DEF RecordingInv, Owned, FileInv, RecordInv
  <2>2. CASE j # i
    <3>1. RecordingInv(j) /\ s'[j] = s[j] /\ wav'[j] = wav[j] /\ svc = None
      BY <1>4, <2>2 DEF MayStart, Free
    <3>. QED
      BY <3>1 DEF RecordingInv, Owned, FileInv, RecordInv
  <2>. QED
    BY <2>1, <2>2
<1>. QED
  BY <1>5, <1>6, <1>7, <1>8, <1>9

LEMMA RecordFacts ==
  ASSUME NEW st \in {"recording", "completed", "failed"}, NEW live \in BOOLEAN
  PROVE  /\ Record(st, live) \in Entries /\ Record(st, live) # None
         /\ Record(st, live).live = live /\ Record(st, live).status = st
<1>1. Record(st, live) \in Entries
  BY DEF Record, Entries
<1>2. None \notin Entries
  BY RecordingAssumption DEF RecordingAssumption
<1>3. Record(st, live).live = live /\ Record(st, live).status = st
  BY DEF Record
<1>. QED
  BY <1>1, <1>2, <1>3

\* What InStart and the like say about the request in the lock.
LEMMA InStartFacts ==
  ASSUME RecInv, NEW i \in Ids, InStart(i)
  PROVE  /\ svc # None /\ svc.op = "start" /\ svc.id = i /\ i \in used /\ i \notin gone
         /\ records[i] = None /\ manifest[i] = "none" /\ active = None /\ s[i].status # "none"
<1>1. svc # None /\ svc.op = "start" /\ svc.id = i
  BY RecordingAssumption DEF InStart, Requests, RecordingAssumption
<1>. QED
  BY <1>1 DEF RecInv, RequestInv

LEMMA StartDeviceInv ==
  ASSUME RecInv, NEW i \in Ids, StartDevice(i) PROVE RecInv'
<1>. DEFINE v == s[i]
            w == [v EXCEPT !.device = "open"]
<1>0. /\ SInv(v) /\ v \in Sessions /\ v.device = "none" /\ Becomes(i, w)
      /\ UNCHANGED <<records, active, svc, wav, manifest, used, gone, faults>>
      /\ s \in [Ids -> Sessions]
  BY DEF RecInv, RecordingInv, StartDevice, SInv, library, files, past, TypeOK
<1>1. /\ svc # None /\ svc.op = "start" /\ svc.id = i /\ i \in used /\ i \notin gone
      /\ records[i] = None /\ manifest[i] = "none" /\ active = None /\ v.status # "none"
  BY InStartFacts DEF StartDevice
<1>2. w \in Sessions /\ w.device = "open" /\ w.status = v.status
  BY <1>0 DEF Sessions
<1>3. SInv(w) /\ w.status # "completed"
  <2>1. /\ w.writer = v.writer /\ w.queue = v.queue /\ w.asked = v.asked /\ w.lock = v.lock
        /\ w.calls = v.calls
    BY <1>0 DEF Sessions
  <2>2. Calm(v)
    BY <1>0 DEF SInv
  <2>. HIDE DEF w
  <2>. QED
    BY <1>1, <1>2, <2>1, <2>2, RecordingAssumption DEF SInv, Calm, Terminal, RecordingAssumption
<1>4. /\ s' \in [Ids -> Sessions] /\ s'[i] = w
      /\ \A j \in Ids : j # i => s'[j] = s[j]
  BY <1>0, <1>1, <1>3, BecomesFacts DEF Held
<1>5. ASSUME NEW j \in Ids PROVE RecordingInv(j)'
  <2>1. CASE j = i
    BY <1>0, <1>1, <1>2, <1>3, <1>4, <2>1 DEF RecordingInv, Owned, FileInv, RecordInv
  <2>2. CASE j # i
    BY <1>0, <1>4, <2>2 DEF RecInv, RecordingInv, Owned, FileInv, RecordInv
  <2>. QED
    BY <2>1, <2>2
<1>6. UsedInv' /\ RequestInv' /\ TypeOK' /\ GoneInv'
  BY <1>0, <1>1, <1>4
     DEF RecInv, UsedInv, RequestInv, TypeOK, GoneInv
<1>. QED
  BY <1>5, <1>6 DEF RecInv

LEMMA StartFailsInv ==
  ASSUME RecInv, NEW i \in Ids, StartFails(i) PROVE RecInv'
<1>0. /\ s' = [s EXCEPT ![i] = NoSession] /\ wav' = [wav EXCEPT ![i] = "none"] /\ svc' = None
      /\ UNCHANGED <<records, active, manifest, used, gone>> /\ faults' \in 0 .. MaxFaults
  BY FaultTyped DEF StartFails, past
<1>1. /\ i \in used /\ i \notin gone /\ records[i] = None /\ manifest[i] = "none" /\ active = None
      /\ svc # None /\ svc.id = i
  BY InStartFacts DEF StartFails
<1>2. /\ s' \in [Ids -> Sessions] /\ s'[i] = NoSession /\ wav'[i] = "none"
      /\ \A j \in Ids : j # i => s'[j] = s[j] /\ wav'[j] = wav[j]
  BY <1>0, NoSessionFacts DEF RecInv, TypeOK, SInv
<1>3. TypeOK' /\ RequestInv' /\ UsedInv' /\ GoneInv'
  BY <1>0, <1>1, <1>2 DEF RecInv, TypeOK, RequestInv, UsedInv, GoneInv
<1>4. ASSUME NEW j \in Ids PROVE RecordingInv(j)'
  <2>1. CASE j = i
    BY <1>0, <1>1, <1>2, <2>1, NoSessionFacts DEF RecordingInv, FileInv, RecordInv
  <2>2. CASE j # i
    BY <1>0, <1>1, <1>2, <2>2 DEF RecInv, RecordingInv, Owned, FileInv, RecordInv
  <2>. QED
    BY <2>1, <2>2
<1>. QED
  BY <1>3, <1>4 DEF RecInv

LEMMA StartSavesInv ==
  ASSUME RecInv, NEW i \in Ids, StartSaves(i) PROVE RecInv'
<1>0. /\ records' = [records EXCEPT ![i] = Record("recording", TRUE)] /\ active' = i
      /\ manifest' = [manifest EXCEPT ![i] = "recording"] /\ svc' = None
      /\ s[i].device # "none" /\ UNCHANGED <<s, wav, used, gone, faults>>
  BY DEF StartSaves, past
<1>1. /\ i \in used /\ i \notin gone /\ active = None /\ svc # None /\ svc.id = i
      /\ manifest[i] = "none" /\ s[i].status # "none"
  BY InStartFacts DEF StartSaves
<1>2. /\ Record("recording", TRUE) \in Entries /\ Record("recording", TRUE) # None
      /\ Record("recording", TRUE).live
  BY RecordFacts
<1>3. /\ records'[i] = Record("recording", TRUE) /\ manifest'[i] = "recording"
      /\ \A j \in Ids : j # i => records'[j] = records[j] /\ manifest'[j] = manifest[j]
      /\ records' \in [Ids -> Entries \cup {None}]
      /\ manifest' \in [Ids -> {"none", "recording", "completed", "failed"}]
  BY <1>0, <1>2 DEF RecInv, TypeOK
<1>4. TypeOK'
  BY <1>0, <1>2, <1>3 DEF RecInv, TypeOK
<1>5. RequestInv'
  BY <1>0 DEF RequestInv
<1>6. UsedInv' /\ GoneInv'
  BY <1>0, <1>1, <1>2, <1>3 DEF RecInv, TypeOK, UsedInv, GoneInv
<1>7. ASSUME NEW j \in Ids PROVE RecordingInv(j)'
  <2>1. CASE j = i
    BY <1>0, <1>1, <1>2, <1>3, <2>1 DEF RecInv, RecordingInv, Owned, FileInv, RecordInv
  <2>2. CASE j # i
    BY <1>0, <1>1, <1>3, <2>2, RecordingAssumption
       DEF RecInv, RecordingInv, Owned, FileInv, RecordInv, RecordingAssumption
  <2>. QED
    BY <2>1, <2>2
<1>. QED
  BY <1>4, <1>5, <1>6, <1>7 DEF RecInv

LEMMA RequestFacts ==
  ASSUME NEW op \in {"start", "undo", "delete", "import"}, NEW i \in Ids
  PROVE  /\ [op |-> op, id |-> i] \in Requests /\ [op |-> op, id |-> i] # None
         /\ [op |-> op, id |-> i].op = op /\ [op |-> op, id |-> i].id = i
<1>1. [op |-> op, id |-> i] \in Requests
  BY DEF Requests
<1>2. None \notin Requests
  BY RecordingAssumption DEF RecordingAssumption
<1>. QED
  BY <1>1, <1>2

\* A call of stop() changes nothing but who wants the device closed.
LEMMA RequestFollows ==
  ASSUME NEW v, SInv(v), v.device # "none"
  PROVE  LET w == [v EXCEPT !.calls["request"] = "wants"] IN
         /\ Follows(v, w) /\ w.status = v.status /\ w.device = v.device /\ w.writer = v.writer
         /\ w.calls["request"] = "wants"
<1>. DEFINE k == [v.calls EXCEPT !["request"] = "wants"]
            w == [v EXCEPT !.calls = k]
<1>0. v \in Sessions
  BY DEF SInv
<1>1. /\ k \in [Closers -> {"idle", "wants", "waits"}]
      /\ \A d \in Closers : k[d] = v.calls[d] \/ k[d] = "wants"
      /\ k["request"] = "wants"
  BY <1>0 DEF Sessions, Closers
<1>. HIDE DEF k
<1>2. w \in Sessions
  BY <1>0, <1>1 DEF Sessions
<1>3. Follows(v, w) /\ w.status = v.status /\ w.device = v.device /\ w.writer = v.writer
  BY <1>0, <1>1, <1>2 DEF Follows, SInv, Sessions, Over
<1>4. w.calls["request"] = "wants"
  BY <1>0, <1>1 DEF Sessions
<1>. QED
  BY <1>3, <1>4 DEF k

LEMMA RequestStopInv ==
  ASSUME RecInv, NEW i \in Ids, RequestStop(i) PROVE RecInv'
<1>1. /\ SInv(s[i]) /\ s[i].device # "none" /\ s[i] # NoSession
      /\ UNCHANGED <<library, files, past>> /\ faults' \in 0 .. MaxFaults
      /\ Becomes(i, [s[i] EXCEPT !.calls["request"] = "wants"])
  BY NoSessionFacts DEF RecInv, RecordingInv, RecordInv, RequestStop, TypeOK
<1>. QED
  BY <1>1, RequestFollows, QuietStep

LEMMA StartUnsavedInv ==
  ASSUME RecInv, NEW i \in Ids, StartUnsaved(i) PROVE RecInv'
<1>. DEFINE w == [s[i] EXCEPT !.calls["request"] = "wants"]
<1>0. /\ svc' = [op |-> "undo", id |-> i] /\ Becomes(i, w) /\ s[i].device # "none"
      /\ UNCHANGED <<records, active, wav, manifest, used, gone>> /\ faults' \in 0 .. MaxFaults
      /\ s \in [Ids -> Sessions] /\ SInv(s[i])
  BY FaultTyped DEF StartUnsaved, files, past, RecInv, RecordingInv, TypeOK
<1>1. /\ i \in used /\ i \notin gone /\ active = None /\ records[i] = None
      /\ manifest[i] = "none" /\ svc # None /\ svc.id = i
  BY InStartFacts DEF StartUnsaved
<1>2. /\ svc' \in Requests /\ svc' # None /\ svc'.op = "undo" /\ svc'.id = i
  BY <1>0, RequestFacts
<1>3. /\ SInv(w) /\ w.status = s[i].status /\ w.device = s[i].device /\ w.writer = s[i].writer
      /\ w.calls["request"] = "wants" /\ (Over(s[i]) => Over(w))
  BY <1>0, RequestFollows DEF Follows
<1>. HIDE DEF w
<1>4. /\ s' \in [Ids -> Sessions] /\ s'[i] = w
      /\ \A j \in Ids : j # i => s'[j] = s[j]
  BY <1>0, <1>1, <1>3, BecomesFacts DEF Held
<1>5. TypeOK' /\ RequestInv' /\ UsedInv' /\ GoneInv'
  BY <1>0, <1>1, <1>2, <1>3, <1>4 DEF RecInv, TypeOK, RequestInv, UsedInv, GoneInv
<1>6. ASSUME NEW j \in Ids PROVE RecordingInv(j)'
  <2>1. CASE j = i
    BY <1>0, <1>1, <1>2, <1>3, <1>4, <2>1
       DEF RecInv, RecordingInv, Owned, FileInv, RecordInv
  <2>2. CASE j # i
    BY <1>0, <1>1, <1>4, <2>2 DEF RecInv, RecordingInv, Owned, FileInv, RecordInv
  <2>. QED
    BY <2>1, <2>2
<1>. QED
  BY <1>5, <1>6 DEF RecInv

\* The request in the lock is the one its op names.
LEMMA HeldFacts ==
  ASSUME RecInv, NEW i \in Ids, NEW op \in {"undo", "delete", "import"},
         svc = [op |-> op, id |-> i]
  PROVE  /\ svc # None /\ svc.op = op /\ svc.id = i /\ i \in used /\ i \notin gone
         /\ op # "delete" => records[i] = None /\ manifest[i] = "none"
         /\ op = "delete" => records[i] # None /\ ~records[i].live /\ wav[i] = "none"
         /\ op = "import" => s[i] = NoSession /\ wav[i] = "final"
BY RequestFacts DEF RecInv, RequestInv

LEMMA StartUndoneInv ==
  ASSUME RecInv, NEW i \in Ids, StartUndone(i) PROVE RecInv'
<1>0. /\ s' = [s EXCEPT ![i] = Settled(s[i])] /\ wav' = [wav EXCEPT ![i] = "none"] /\ svc' = None
      /\ UNCHANGED <<records, active, manifest, used, gone, faults>>
      /\ s \in [Ids -> Sessions] /\ SInv(s[i]) /\ s[i].calls["request"] = "idle"
  BY DEF StartUndone, past, RecInv, RecordingInv, TypeOK
<1>1. /\ svc # None /\ svc.op = "undo" /\ svc.id = i /\ i \in used /\ i \notin gone
      /\ records[i] = None /\ manifest[i] = "none"
  BY HeldFacts DEF StartUndone
<1>2. Settled(s[i]) \in {s[i], NoSession}
  BY DEF Settled
<1>3. /\ s' \in [Ids -> Sessions] /\ s'[i] \in {s[i], NoSession} /\ wav'[i] = "none"
      /\ \A j \in Ids : j # i => s'[j] = s[j] /\ wav'[j] = wav[j]
  BY <1>0, <1>2, NoSessionFacts DEF RecInv, TypeOK, SInv
<1>4. s[i].device = "open" => s[i].writer = "failing"
  BY <1>0, <1>1 DEF RecInv, RequestInv
<1>5. TypeOK' /\ RequestInv' /\ UsedInv' /\ GoneInv'
  BY <1>0, <1>1, <1>3 DEF RecInv, TypeOK, RequestInv, UsedInv, GoneInv
<1>6. ASSUME NEW j \in Ids PROVE RecordingInv(j)'
  <2>1. CASE j = i
    BY <1>0, <1>1, <1>3, <1>4, <2>1, NoSessionFacts
       DEF RecInv, RecordingInv, Owned, FileInv, RecordInv
  <2>2. CASE j # i
    BY <1>0, <1>1, <1>3, <2>2 DEF RecInv, RecordingInv, Owned, FileInv, RecordInv
  <2>. QED
    BY <2>1, <2>2
<1>. QED
  BY <1>5, <1>6 DEF RecInv

LEMMA RefreshInv ==
  ASSUME RecInv, NEW i \in Ids, Refresh(i) PROVE RecInv'
<1>0. /\ svc = None /\ records[i] # None /\ records[i].live /\ Terminal(s[i].status)
      /\ active' = Freed(i) /\ s' = [s EXCEPT ![i] = Settled(s[i])]
      /\ UNCHANGED <<svc, wav, used, gone>>
      /\ s \in [Ids -> Sessions] /\ SInv(s[i])
  BY DEF Refresh, Free, past, RecInv, RecordingInv, TypeOK
<1>1. PICK st \in {"completed", "failed"} :
        /\ records' = [records EXCEPT ![i] = Record(st, FALSE)]
        /\ manifest' = [manifest EXCEPT ![i] = s[i].status] \/ manifest' = manifest
        /\ faults' \in 0 .. MaxFaults
  <2>1. faults \in 0 .. MaxFaults /\ s[i].status \in {"completed", "failed"}
    BY <1>0 DEF RecInv, TypeOK, Terminal
  <2>. QED
    BY <2>1, FaultTyped DEF Refresh
<1>2. /\ Record(st, FALSE) \in Entries /\ Record(st, FALSE) # None
      /\ ~Record(st, FALSE).live /\ Terminal(Record(st, FALSE).status)
  BY RecordFacts DEF Terminal
<1>3. /\ i \in used /\ i \notin gone /\ active = i /\ active' = None
      /\ (s[i].device = "open" => s[i].writer = "failing")
  BY <1>0 DEF RecInv, UsedInv, GoneInv, RecordingInv, RecordInv, Freed, SInv
<1>4. Settled(s[i]) \in {s[i], NoSession}
  BY DEF Settled
<1>5. /\ s' \in [Ids -> Sessions] /\ s'[i] \in {s[i], NoSession} /\ records'[i] = Record(st, FALSE)
      /\ manifest'[i] \in {manifest[i], s[i].status}
      /\ \A j \in Ids : j # i => s'[j] = s[j] /\ records'[j] = records[j] /\ manifest'[j] = manifest[j]
      /\ records' \in [Ids -> Entries \cup {None}]
      /\ manifest' \in [Ids -> {"none", "recording", "completed", "failed"}]
  BY <1>0, <1>1, <1>2, <1>4, NoSessionFacts DEF RecInv, TypeOK, SInv, Terminal
<1>6. TypeOK' /\ RequestInv' /\ UsedInv' /\ GoneInv'
  <2>1. TypeOK'
    BY <1>0, <1>1, <1>3, <1>5 DEF RecInv, TypeOK
  <2>2. UsedInv'
    BY <1>0, <1>3, <1>5 DEF RecInv, UsedInv
  <2>3. GoneInv'
    BY <1>0, <1>3, <1>5 DEF RecInv, TypeOK, GoneInv
  <2>. QED
    BY <1>0, <2>1, <2>2, <2>3 DEF RequestInv
<1>7. ASSUME NEW j \in Ids PROVE RecordingInv(j)'
  <2>1. CASE j = i
    <3>1. s[i].status = "completed" => Over(s[i]) /\ wav[i] \in {"final", "none"}
      BY <1>0 DEF SInv, RecInv, RecordingInv, FileInv
    <3>2. FileInv(i)'
      BY <1>0, <1>5, <3>1, NoSessionFacts DEF RecInv, RecordingInv, FileInv
    <3>. QED
      BY <1>0, <1>2, <1>3, <1>5, <2>1, <3>2, NoSessionFacts
         DEF RecInv, RecordingInv, Owned, RecordInv
  <2>2. CASE j # i
    BY <1>0, <1>3, <1>5, <2>2 DEF RecInv, RecordingInv, Owned, FileInv, RecordInv
  <2>. QED
    BY <2>1, <2>2
<1>. QED
  BY <1>6, <1>7 DEF RecInv

LEMMA DeleteAudioInv ==
  ASSUME RecInv, NEW i \in Ids, DeleteAudio(i) PROVE RecInv'
<1>0. /\ svc = None /\ records[i] # None /\ ~records[i].live
      /\ wav' = [wav EXCEPT ![i] = "none"] /\ svc' = [op |-> "delete", id |-> i]
      /\ UNCHANGED <<s, records, active, manifest, used, gone, faults>>
  BY DEF DeleteAudio, Unlinked, Free, past
<1>1. /\ svc' \in Requests /\ svc' # None /\ svc'.op = "delete" /\ svc'.id = i
      /\ i \in used /\ i \notin gone
  BY <1>0, RequestFacts DEF RecInv, UsedInv, GoneInv
<1>2. /\ wav' \in [Ids -> {"none", "open", "torn", "final"}] /\ wav'[i] = "none"
      /\ \A j \in Ids : j # i => wav'[j] = wav[j]
  BY <1>0 DEF RecInv, TypeOK
<1>3. TypeOK' /\ RequestInv' /\ UsedInv' /\ GoneInv'
  BY <1>0, <1>1, <1>2 DEF RecInv, TypeOK, RequestInv, UsedInv, GoneInv
<1>4. ASSUME NEW j \in Ids PROVE RecordingInv(j)'
  BY <1>0, <1>2 DEF RecInv, RecordingInv, Owned, FileInv, RecordInv
<1>. QED
  BY <1>3, <1>4 DEF RecInv

LEMMA DeleteManifestInv ==
  ASSUME RecInv, NEW i \in Ids, DeleteManifest(i) PROVE RecInv'
<1>0. /\ svc' = None /\ UNCHANGED <<s, active, wav, used>>
      /\ svc # None /\ svc.op = "delete" /\ svc.id = i /\ i \in used /\ i \notin gone
      /\ records[i] # None /\ ~records[i].live /\ wav[i] = "none"
  BY HeldFacts DEF DeleteManifest
<1>1. CASE UNCHANGED <<manifest, records, gone>> /\ Fault
  <2>1. TypeOK' /\ RequestInv' /\ UsedInv' /\ GoneInv'
    BY <1>0, <1>1, FaultTyped DEF RecInv, TypeOK, RequestInv, UsedInv, GoneInv
  <2>2. ASSUME NEW j \in Ids PROVE RecordingInv(j)'
    BY <1>0, <1>1 DEF RecInv, RecordingInv, Owned, FileInv, RecordInv
  <2>. QED
    BY <2>1, <2>2 DEF RecInv
<1>2. CASE /\ manifest' = [manifest EXCEPT ![i] = "none"]
           /\ records' = [records EXCEPT ![i] = None]
           /\ gone' = gone \cup {i} /\ UNCHANGED faults
  <2>1. /\ manifest'[i] = "none" /\ records'[i] = None
        /\ \A j \in Ids : j # i => manifest'[j] = manifest[j] /\ records'[j] = records[j]
        /\ records' \in [Ids -> Entries \cup {None}]
        /\ manifest' \in [Ids -> {"none", "recording", "completed", "failed"}]
    BY <1>2 DEF RecInv, TypeOK
  <2>2. TypeOK' /\ RequestInv' /\ UsedInv' /\ GoneInv'
    <3>1. TypeOK'
      BY <1>0, <1>2, <2>1 DEF RecInv, TypeOK
    <3>2. UsedInv'
      BY <1>0, <2>1 DEF RecInv, UsedInv
    <3>3. GoneInv'
      BY <1>0, <1>2, <2>1 DEF RecInv, TypeOK, GoneInv
    <3>. QED
      BY <1>0, <3>1, <3>2, <3>3 DEF RequestInv
  <2>3. ASSUME NEW j \in Ids PROVE RecordingInv(j)'
    <3>1. CASE j = i
      BY <1>0, <1>2, <2>1, <3>1 DEF RecInv, RecordingInv, Owned, FileInv, RecordInv
    <3>2. CASE j # i
      BY <1>0, <1>2, <2>1, <3>2 DEF RecInv, RecordingInv, Owned, FileInv, RecordInv
    <3>. QED
      BY <3>1, <3>2
  <2>. QED
    BY <2>2, <2>3 DEF RecInv
<1>. QED
  BY <1>1, <1>2 DEF DeleteManifest

LEMMA ImportLinksInv ==
  ASSUME RecInv, NEW i \in Ids, ImportLinks(i) PROVE RecInv'
<1>0. /\ svc = None /\ i = Fresh /\ used' = used \cup {i}
      /\ wav' = [wav EXCEPT ![i] = "final"] /\ svc' = [op |-> "import", id |-> i]
      /\ UNCHANGED <<s, records, active, manifest, gone, faults>>
  BY DEF ImportLinks, Free
<1>1. /\ i \notin used /\ i \notin gone /\ used' \subseteq Ids
      /\ \E n \in 0 .. MaxIds : used' = 1 .. n
  BY <1>0, FreshId DEF RecInv, TypeOK
<1>2. /\ svc' \in Requests /\ svc' # None /\ svc'.op = "import" /\ svc'.id = i
      /\ records[i] = None /\ manifest[i] = "none" /\ s[i] = NoSession
  BY <1>0, <1>1, RequestFacts DEF RecInv, UsedInv
<1>3. /\ wav' \in [Ids -> {"none", "open", "torn", "final"}] /\ wav'[i] = "final"
      /\ \A j \in Ids : j # i => wav'[j] = wav[j]
  BY <1>0 DEF RecInv, TypeOK
<1>4. TypeOK' /\ RequestInv' /\ UsedInv'
  BY <1>0, <1>1, <1>2, <1>3 DEF RecInv, TypeOK, RequestInv, UsedInv
<1>5. GoneInv'
  BY <1>0, <1>1, <1>3 DEF RecInv, TypeOK, GoneInv
<1>6. ASSUME NEW j \in Ids PROVE RecordingInv(j)'
  BY <1>0, <1>3 DEF RecInv, RecordingInv, Owned, FileInv, RecordInv
<1>. QED
  BY <1>4, <1>5, <1>6 DEF RecInv

LEMMA ImportSavesInv ==
  ASSUME RecInv, NEW i \in Ids, ImportSaves(i) PROVE RecInv'
<1>0. /\ svc' = None /\ UNCHANGED <<s, active, used, gone>>
      /\ svc # None /\ svc.op = "import" /\ svc.id = i /\ i \in used /\ i \notin gone
      /\ records[i] = None /\ manifest[i] = "none" /\ s[i] = NoSession /\ wav[i] = "final"
  BY HeldFacts DEF ImportSaves, past
<1>1. CASE UNCHANGED <<manifest, records>> /\ Fault /\ wav' = [wav EXCEPT ![i] = "none"]
  <2>1. /\ wav' \in [Ids -> {"none", "open", "torn", "final"}] /\ wav'[i] = "none"
        /\ \A j \in Ids : j # i => wav'[j] = wav[j]
    BY <1>1 DEF RecInv, TypeOK
  <2>2. TypeOK' /\ RequestInv' /\ UsedInv' /\ GoneInv'
    BY <1>0, <1>1, <2>1, FaultTyped DEF RecInv, TypeOK, RequestInv, UsedInv, GoneInv
  <2>3. ASSUME NEW j \in Ids PROVE RecordingInv(j)'
    BY <1>0, <1>1, <2>1, NoSessionFacts DEF RecInv, RecordingInv, Owned, FileInv, RecordInv
  <2>. QED
    BY <2>2, <2>3 DEF RecInv
<1>2. CASE /\ manifest' = [manifest EXCEPT ![i] = "completed"]
           /\ records' = [records EXCEPT ![i] = Record("completed", FALSE)]
           /\ UNCHANGED <<wav, faults>>
  <2>0. /\ Record("completed", FALSE) \in Entries /\ ~Record("completed", FALSE).live
        /\ Terminal(Record("completed", FALSE).status)
    BY RecordFacts DEF Terminal
  <2>1. /\ manifest'[i] = "completed" /\ records'[i] = Record("completed", FALSE)
        /\ \A j \in Ids : j # i => manifest'[j] = manifest[j] /\ records'[j] = records[j]
        /\ records' \in [Ids -> Entries \cup {None}]
        /\ manifest' \in [Ids -> {"none", "recording", "completed", "failed"}]
    BY <1>2, <2>0 DEF RecInv, TypeOK
  <2>2. TypeOK'
    BY <1>0, <1>2, <2>1 DEF RecInv, TypeOK
  <2>3. UsedInv' /\ GoneInv'
    BY <1>0, <1>2, <2>1 DEF RecInv, TypeOK, UsedInv, GoneInv
  <2>4. ASSUME NEW j \in Ids PROVE RecordingInv(j)'
    <3>1. CASE j = i
      BY <1>0, <1>2, <2>0, <2>1, <3>1, NoSessionFacts
         DEF RecInv, RecordingInv, Owned, FileInv, RecordInv
    <3>2. CASE j # i
      BY <1>0, <1>2, <2>1, <3>2 DEF RecInv, RecordingInv, Owned, FileInv, RecordInv
    <3>. QED
      BY <3>1, <3>2
  <2>. QED
    BY <1>0, <2>2, <2>3, <2>4 DEF RecInv, RequestInv
<1>. QED
  BY <1>1, <1>2 DEF ImportSaves

\* A restart keeps the files and lists what they hold.
LEMMA RestartInv ==
  ASSUME RecInv, Restart PROVE RecInv'
<1>0. /\ records' = [i \in Ids |-> IF Restored(i) THEN Record(manifest[i], FALSE) ELSE None]
      /\ wav' = [i \in Ids |-> IF wav[i] = "open" THEN "torn" ELSE wav[i]]
      /\ s' = [i \in Ids |-> NoSession] /\ active' = None /\ svc' = None
      /\ UNCHANGED <<manifest, used, gone>> /\ faults' \in 0 .. MaxFaults
  BY FaultTyped DEF Restart, past
<1>1. ASSUME NEW i \in Ids
      PROVE  /\ records'[i] \in Entries \cup {None} /\ wav'[i] \in {"none", "open", "torn", "final"}
             /\ records'[i] # None => ~records'[i].live /\ Terminal(records'[i].status)
             /\ (manifest[i] = "none" \/ wav[i] = "none" => records'[i] = None)
             /\ (wav[i] \in {"none", "final"} => wav'[i] = wav[i])
  <2>1. CASE Restored(i)
    <3>1. manifest[i] \in {"completed", "failed"} /\ wav[i] # "none"
      BY <2>1 DEF Restored, Terminal
    <3>2. records'[i] = Record(manifest[i], FALSE)
      BY <1>0, <2>1
    <3>3. wav[i] \in {"none", "open", "torn", "final"}
      BY DEF RecInv, TypeOK
    <3>. QED
      BY <1>0, <3>1, <3>2, <3>3, RecordFacts DEF Terminal
  <2>2. CASE ~Restored(i)
    BY <1>0, <2>2 DEF RecInv, TypeOK
  <2>. QED
    BY <2>1, <2>2
<1>2. records' \in [Ids -> Entries \cup {None}] /\ wav' \in [Ids -> {"none", "open", "torn", "final"}]
  BY <1>0, <1>1
<1>3. s' \in [Ids -> Sessions] /\ \A i \in Ids : s'[i] = NoSession
  BY <1>0, NoSessionFacts DEF SInv
<1>4. TypeOK'
  BY <1>0, <1>2, <1>3 DEF RecInv, TypeOK
<1>5. UsedInv' /\ GoneInv' /\ RequestInv'
  BY <1>0, <1>1, <1>3 DEF RecInv, TypeOK, UsedInv, GoneInv, RequestInv
<1>6. ASSUME NEW j \in Ids PROVE RecordingInv(j)'
  BY <1>0, <1>1, <1>3, NoSessionFacts DEF RecInv, RecordingInv, FileInv, RecordInv
<1>. QED
  BY <1>4, <1>5, <1>6 DEF RecInv

-----------------------------------------------------------------------------
LEMMA InitRec == Init => RecInv
<1>. SUFFICES ASSUME Init PROVE RecInv
  OBVIOUS
<1>. USE DEF Init
<1>1. used = 1 .. 0 /\ 0 \in 0 .. MaxIds /\ 0 \in 0 .. MaxFaults
  BY RecordingAssumption DEF RecordingAssumption
<1>2. TypeOK
  BY <1>1, NoSessionFacts DEF TypeOK, SInv
<1>3. UsedInv
  BY <1>1 DEF UsedInv
<1>. QED
  BY <1>2, <1>3, NoSessionFacts
     DEF RecInv, RequestInv, GoneInv, RecordingInv, FileInv, RecordInv

LEMMA RecNext == RecInv /\ [Next]_vars => RecInv'
<1>. SUFFICES ASSUME RecInv, [Next]_vars PROVE RecInv'
  OBVIOUS
<1>1. ASSUME NEW i \in Ids, StartWriter(i) \/ StartStep(i) PROVE RecInv'
  BY <1>1, StartWriterInv, StartDeviceInv, StartFailsInv, StartSavesInv, StartUnsavedInv,
     StartUndoneInv DEF StartStep
<1>2. ASSUME NEW i \in Ids,
             InSession(Audio(i)) \/ InSession(SourceError(i)) \/ InSession(ThreadStep(i))
      PROVE  RecInv'
  BY <1>2, AudioInv, SourceErrorInv, ThreadStepInv
<1>3. ASSUME NEW i \in Ids,
             \/ Refresh(i) \/ RequestStop(i)
             \/ DeleteAudio(i) \/ ImportLinks(i) \/ LibraryStep(i)
      PROVE  RecInv'
  BY <1>3, RefreshInv, RequestStopInv, DeleteAudioInv, DeleteManifestInv, ImportLinksInv,
     ImportSavesInv DEF LibraryStep
<1>4. CASE UNCHANGED vars
  BY <1>4
     DEF vars, library, files, past, RecInv, TypeOK, RequestInv, UsedInv, GoneInv, RecordingInv,
         Owned, FileInv, RecordInv
<1>. QED
  BY <1>1, <1>2, <1>3, <1>4, RestartInv DEF Next

\* The invariant that ties sessions, requests, records and files together.
THEOREM RecordingInvariant == Spec => []RecInv
BY InitRec, RecNext, PTL DEF Spec

\* Every variable stays in its set, and the active recording is one in the library.
THEOREM TypeCorrect == Spec => []TypeOK
<1>1. RecInv => TypeOK
  BY DEF RecInv
<1>. QED
  BY <1>1, RecordingInvariant, PTL

\* No path of errors, stops, timeouts and failed requests leaves the microphone open behind
\* a recording that is over.
THEOREM CaptureOwnedAlways == Spec => []CaptureOwned
<1>1. RecInv => CaptureOwned
  BY DEF RecInv, RecordingInv, Owned, CaptureOwned
<1>. QED
  BY <1>1, RecordingInvariant, PTL

\* What is reported completed has all its audio in a finished file.
THEOREM CompletedMeansWholeAlways == Spec => []CompletedMeansWhole
<1>1. RecInv => CompletedMeansWhole
  BY DEF RecInv, RecordingInv, FileInv, SInv, Over, CompletedMeansWhole
<1>. QED
  BY <1>1, RecordingInvariant, PTL

\* An answered deletion leaves nothing behind, restarts and late writers included.
THEOREM DeletedStaysGoneAlways == Spec => []DeletedStaysGone
<1>1. RecInv => DeletedStaysGone
  BY DEF RecInv, RecordingInv, RecordInv, GoneInv, DeletedStaysGone
<1>. QED
  BY <1>1, RecordingInvariant, PTL
=============================================================================
