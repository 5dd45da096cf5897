--------------------------- MODULE EventLogProofs ---------------------------
(* Proofs about EventLog: the history keeps its newest events, and no page   *)
(* skips an event in silence, asks ahead of the record or goes back.        *)
EXTENDS EventLog, FiniteSetTheorems, TLAPS

(* Only a worker that has something left to append is closing the record.  *)
ClosingInv == worker = "closing" => closing >= 1

(* What an answer promises of the request it was made for.  *)
Answers(r, after) ==
  IF r.expired THEN after < r.next - 1 /\ r.next <= Oldest
  ELSE /\ after <= r.next /\ r.next <= Latest
       /\ r.cursors = {c \in Nat : after < c /\ c <= r.next}

(* The load of the present visit asks from the page's cursor, answers keep  *)
(* their promise while the record goes on, no visit to come has a load.    *)
LoadOK(g) ==
  /\ asked[g] <= Latest
  /\ g = generation /\ loadAt[g] \in {"asked", "checked", "answered"} => asked[g] = cursor
  /\ loadAt[g] = "answered" => Answers(reply[g], asked[g])
  /\ g > generation => loadAt[g] = "none"

LoadInv == \A g \in Generations : LoadOK(g)

(* The page is behind the record and shows nothing beyond its cursor.      *)
PageInv == cursor <= Latest /\ shown \subseteq 1..cursor /\ GapsShown

IInv == TypeOK /\ ClosingInv /\ LogWindow /\ LoadInv /\ PageInv /\ NeverAhead

-----------------------------------------------------------------------------
(* Where the history starts and ends.                                      *)
LEMMA WindowEnds ==
  ASSUME TypeOK, LogWindow
  PROVE  /\ Latest \in Nat /\ Latest >= 1 /\ Oldest \in Nat /\ Oldest <= Latest /\ Oldest >= 1
         /\ Len(events) \in Nat /\ Oldest = Latest - Len(events) + 1
         /\ events[Len(events)] = Latest
<1>0. /\ events \in Seq(Nat) /\ Len(events) \in 1..EventLimit /\ nextCursor \in Nat
      /\ nextCursor >= 2
  BY DEF TypeOK
<1>1. EventLimit \in Nat /\ Len(events) \in Nat /\ Len(events) >= 1 /\ Len(events) <= EventLimit
  BY <1>0, EventLogAssumption
<1>2. events # <<>>
  BY <1>0, <1>1
<1>3. Len(events) <= Latest
  BY <1>0, <1>1 DEF LogWindow, Latest
<1>4. events[1] = Latest - Len(events) + 1 /\ events[Len(events)] = Latest
  BY <1>0, <1>1 DEF LogWindow, Latest
<1> QED
  BY <1>0, <1>1, <1>2, <1>3, <1>4 DEF Oldest, Latest

(* A page that can be answered is answered with all later events there are. *)
LEMMA AfterWindow ==
  ASSUME TypeOK, LogWindow, NEW after \in Nat, after >= Oldest - 1
  PROVE  After(after) = {c \in Nat : after < c /\ c <= Latest}
<1> USE WindowEnds
<1>0. events \in Seq(Nat)
  BY DEF TypeOK
<1>1. events \in Seq(Nat) /\ DOMAIN events = 1..Len(events)
  BY <1>0
<1>2. ASSUME NEW c \in Nat, after < c, c <= Latest PROVE c \in After(after)
  <2> DEFINE i == c - Latest + Len(events)
  <2>a. /\ Latest \in Nat /\ Len(events) \in Nat /\ Oldest \in Nat
        /\ Oldest = Latest - Len(events) + 1
    OBVIOUS
  <2>b. c \in Nat /\ after < c /\ c <= Latest /\ after >= Oldest - 1
    BY <1>2
  <2>0. i \in 1..Len(events) /\ c = Latest - Len(events) + i
    <3> HIDE WindowEnds
    <3> QED
      BY <2>a, <2>b
  <2>1. i \in 1..Len(events) /\ events[i] = c
    <3> HIDE DEF i
    <3> QED
      BY <2>0 DEF LogWindow
  <2> QED
    BY <1>1, <1>2, <2>1 DEF After
<1>3. ASSUME NEW c \in After(after) PROVE c \in Nat /\ after < c /\ c <= Latest
  <2>1. PICK i \in 1..Len(events) : c = events[i] /\ c > after
    BY <1>1 DEF After
  <2>2. events[i] = Latest - Len(events) + i
    BY DEF LogWindow
  <2>3. events[i] \in Nat
    BY <1>1
  <2> QED
    BY <2>1, <2>2, <2>3
<1> QED
  BY <1>2, <1>3

(* Every answer keeps its promise when it is made.                         *)
LEMMA Answered ==
  ASSUME TypeOK, LogWindow, NEW after \in Nat, after <= Latest
  PROVE  /\ Answers(EventsAfter(after), after)
         /\ EventsAfter(after) \in [expired : BOOLEAN, cursors : SUBSET Nat, next : Nat]
<1> USE WindowEnds
<1>1. CASE after < Oldest - 1
  BY <1>1 DEF EventsAfter, Expired, Answers
<1>2. CASE ~(after < Oldest - 1)
  <2>1. EventsAfter(after) = Page(after)
    BY <1>2 DEF EventsAfter
  <2>2. After(after) = {c \in Nat : after < c /\ c <= Latest}
    BY <1>2, AfterWindow
  <2> DEFINE r == Page(after)
  <2>3. r.expired = FALSE /\ r.cursors = After(after)
    BY DEF Page
  <2>4. CASE after = Latest
    <3>1. After(after) = {}
      BY <2>2, <2>4
    <3>2. r.next = after
      BY <3>1 DEF Page
    <3>3. r.cursors = {c \in Nat : after < c /\ c <= after}
      BY <2>2, <2>3, <2>4
    <3> QED
      BY <2>1, <2>2, <2>3, <2>4, <3>2, <3>3 DEF Answers, Page
  <2>5. CASE after < Latest
    <3>1. Latest \in After(after)
      BY <2>2, <2>5
    <3>2. r.next = Latest
      BY <3>1 DEF Page
    <3> QED
      BY <2>1, <2>2, <2>3, <2>5, <3>2 DEF Answers, Page
  <2> QED
    BY <2>4, <2>5
<1> QED
  BY <1>1, <1>2

(* Appending keeps the window and moves both of its ends forward.          *)
LEMMA Appended ==
  ASSUME TypeOK, LogWindow, AppendEvent
  PROVE  /\ events' \in Seq(Nat) /\ Len(events') \in 1..EventLimit
         /\ nextCursor' \in Nat /\ nextCursor' >= 2 /\ LogWindow'
         /\ Latest' = Latest + 1 /\ Oldest <= Oldest' /\ Oldest' \in Nat
<1> USE WindowEnds
<1>1. /\ events \in Seq(Nat) /\ Len(events) \in 1..EventLimit /\ nextCursor \in Nat
      /\ nextCursor >= 2 /\ EventLimit \in Nat \ {0} /\ nextCursor' = nextCursor + 1
  BY EventLogAssumption DEF TypeOK, AppendEvent
<1>2. Latest = nextCursor - 1 /\ Latest' = Latest + 1
  BY <1>1 DEF Latest
<1>3. CASE Len(events) >= EventLimit
  <2> DEFINE t == Tail(events)
  <2>1. events' = Append(t, nextCursor)
    BY <1>3 DEF AppendEvent
  <2>2. t \in Seq(Nat) /\ Len(t) = Len(events) - 1 /\ \A i \in 1..Len(t) : t[i] = events[i + 1]
    BY <1>1
  <2> HIDE DEF t
  <2>3. events' \in Seq(Nat) /\ Len(events') = Len(events)
    BY <1>1, <2>1, <2>2
  <2>4. \A i \in 1..Len(events') : events'[i] = Latest' - Len(events') + i
    <3> SUFFICES ASSUME NEW i \in 1..Len(events') PROVE events'[i] = Latest' - Len(events') + i
      OBVIOUS
    <3>1. CASE i = Len(events')
      BY <1>1, <1>2, <2>1, <2>2, <2>3, <3>1
    <3>2. CASE i < Len(events')
      <4>1. i \in 1..Len(t) /\ i + 1 \in 1..Len(events)
        BY <1>1, <2>2, <2>3, <3>2
      <4>2. events'[i] = t[i]
        BY <1>1, <2>1, <2>2, <4>1
      <4>3. events[i + 1] = Latest - Len(events) + (i + 1)
        BY <4>1 DEF LogWindow
      <4> QED
        BY <1>1, <1>2, <2>2, <2>3, <4>1, <4>2, <4>3
    <3> QED
      BY <1>1, <2>3, <3>1, <3>2
  <2>5. Len(events') = (IF Latest' < EventLimit THEN Latest' ELSE EventLimit)
    BY <1>1, <1>2, <1>3, <2>3 DEF LogWindow
  <2>6. LogWindow'
    BY <2>4, <2>5 DEF LogWindow
  <2>7. events'[1] = Latest' - Len(events') + 1 /\ events' # <<>>
    BY <1>1, <2>3, <2>4
  <2> QED
    BY <1>1, <1>2, <2>3, <2>6, <2>7 DEF Oldest
<1>4. CASE ~(Len(events) >= EventLimit)
  <2>1. events' = Append(events, nextCursor)
    BY <1>4 DEF AppendEvent
  <2>2. events' \in Seq(Nat) /\ Len(events') = Len(events) + 1 /\ Len(events) = Latest
    BY <1>1, <1>2, <1>4, <2>1 DEF LogWindow
  <2>3. \A i \in 1..Len(events') : events'[i] = Latest' - Len(events') + i
    <3> SUFFICES ASSUME NEW i \in 1..Len(events') PROVE events'[i] = Latest' - Len(events') + i
      OBVIOUS
    <3>1. CASE i = Len(events')
      BY <1>1, <1>2, <2>1, <2>2, <3>1
    <3>2. CASE i < Len(events')
      <4>1. i \in 1..Len(events) /\ events'[i] = events[i]
        BY <1>1, <2>1, <2>2, <3>2
      <4>2. events[i] = Latest - Len(events) + i
        BY <4>1 DEF LogWindow
      <4>3. events'[i] = Latest - Len(events) + i
        BY <4>1, <4>2
      <4>4. Latest' - Len(events') = Latest - Len(events)
        BY <1>1, <1>2, <2>2
      <4> QED
        BY <4>3, <4>4
    <3> QED
      BY <1>1, <2>2, <3>1, <3>2
  <2>4. Len(events') = (IF Latest' < EventLimit THEN Latest' ELSE EventLimit)
    BY <1>1, <1>2, <1>4, <2>2
  <2>5. LogWindow'
    BY <2>3, <2>4 DEF LogWindow
  <2>6. events'[1] = Latest' - Len(events') + 1 /\ events' # <<>>
    BY <1>1, <2>2, <2>3
  <2> QED
    BY <1>1, <1>2, <1>4, <2>2, <2>5, <2>6 DEF Oldest
<1> QED
  BY <1>3, <1>4

(* What the page's list keeps: the events among the newest cursors.        *)
LEMMA NewestKept ==
  ASSUME NEW n \in Nat, NEW S \in SUBSET (1..n), NEW c \in S, c > n - DisplayLimit
  PROVE  c \in KeepNewest(S)
<1> DEFINE later == {d \in S : d > c}
<1>1. c \in 1..n
  OBVIOUS
<1>2. \A d \in S : d \in 1..n /\ (d > c => d \in (c + 1)..n)
  BY <1>1
<1>2a. later \subseteq (c + 1)..n
  BY <1>2
<1>3. IsFiniteSet((c + 1)..n) /\ Cardinality((c + 1)..n) = IF c + 1 > n THEN 0 ELSE n - (c + 1) + 1
  BY <1>1, FS_Interval
<1>4. IsFiniteSet(later) /\ Cardinality(later) <= Cardinality((c + 1)..n)
  BY <1>2a, <1>3, FS_Subset
<1>5. Cardinality(later) \in Nat
  BY <1>4, FS_CardinalityType
<1>6. Cardinality((c + 1)..n) <= n - c /\ Cardinality((c + 1)..n) \in Nat
  BY <1>1, <1>3
<1>7. Cardinality(later) < DisplayLimit
  <2> HIDE DEF later
  <2> QED
    BY <1>1, <1>4, <1>5, <1>6, EventLogAssumption
<1> QED
  BY <1>7 DEF KeepNewest

-----------------------------------------------------------------------------
Reply == [expired : BOOLEAN, cursors : SUBSET Nat, next : Nat]

(* The steps of one load leave the record alone.                           *)
LoadStep(g) ==
  \/ StatusAnswered(g) \/ Missing(g) \/ EventsChecked(g) \/ EventsRead(g)
  \/ PageArrives(g) \/ ExpiredArrives(g) \/ LoadRefused(g) \/ Dropped(g) \/ LoadFails(g)

(* The steps that append an event, and those that leave page and loads alone. *)
Appends == WorkerStarted \/ WorkerReports \/ WorkerCloses
Others == WorkerRuns \/ WorkerSettles \/ Evicted \/ UNCHANGED vars

(* A step is one of the worker, of the page or of one load.                 *)
LEMMA StepKinds ==
  ASSUME [Next]_vars
  PROVE  Appends \/ Others \/ Tick \/ Retry \/ Reopen \/ \E g \in Generations : LoadStep(g)
BY DEF Next, Worker, Answer, Appends, Others, LoadStep

(* The endpoint and the page only read the record.                         *)
LEMMA LoadKeepsRecord ==
  ASSUME NEW g \in Generations, LoadStep(g)
  PROVE  UNCHANGED <<recordVars, workerVars, generation>>
<1>1. CASE StatusAnswered(g) BY <1>1 DEF StatusAnswered
<1>2. CASE Missing(g) BY <1>2 DEF Missing
<1>3. CASE EventsChecked(g) BY <1>3 DEF EventsChecked, pageVars
<1>4. CASE EventsRead(g) BY <1>4 DEF EventsRead, pageVars
<1>5. CASE PageArrives(g) BY <1>5 DEF PageArrives
<1>6. CASE ExpiredArrives(g) BY <1>6 DEF ExpiredArrives
<1>7. CASE LoadRefused(g) BY <1>7 DEF LoadRefused
<1>8. CASE Dropped(g) BY <1>8 DEF Dropped, pageVars
<1>9. CASE LoadFails(g) BY <1>9 DEF LoadFails
<1> QED
  BY <1>1, <1>2, <1>3, <1>4, <1>5, <1>6, <1>7, <1>8, <1>9 DEF LoadStep

(* The record only moves forward.                                          *)
LEMMA Forward ==
  ASSUME TypeOK, LogWindow, [Next]_vars
  PROVE  /\ events' \in Seq(Nat) /\ Len(events') \in 1..EventLimit
         /\ nextCursor' \in Nat /\ nextCursor' >= 2 /\ LogWindow'
         /\ Latest <= Latest' /\ Oldest <= Oldest'
         /\ Latest \in Nat /\ Latest' \in Nat /\ Oldest \in Nat /\ Oldest' \in Nat
<1>1. Latest \in Nat /\ Oldest \in Nat
  BY WindowEnds
<1>2. CASE Appends
  <2>1. AppendEvent
    BY <1>2 DEF Appends, WorkerStarted, WorkerReports, WorkerCloses
  <2>2. Latest' = Latest + 1 /\ Oldest <= Oldest' /\ Oldest' \in Nat
    BY <2>1, Appended
  <2> QED
    BY <1>1, <2>1, <2>2, Appended
<1>3. CASE ~Appends
  <2>1. UNCHANGED <<events, nextCursor>>
    <3>1. CASE Others
      BY <3>1 DEF Others, WorkerRuns, WorkerSettles, Evicted, vars, recordVars
    <3>2. CASE Tick \/ Retry \/ Reopen
      BY <3>2 DEF Tick, Retry, Reopen, recordVars
    <3>3. ASSUME NEW g \in Generations, LoadStep(g) PROVE UNCHANGED <<events, nextCursor>>
      BY <3>3, LoadKeepsRecord DEF recordVars
    <3> QED
      BY <1>3, <3>1, <3>2, <3>3, StepKinds
  <2>2. Latest' = Latest /\ Oldest' = Oldest
    BY <2>1 DEF Latest, Oldest
  <2>3. LogWindow'
    BY <2>1, <2>2 DEF LogWindow
  <2>4. events \in Seq(Nat) /\ Len(events) \in 1..EventLimit /\ nextCursor \in Nat /\ nextCursor >= 2
    BY DEF TypeOK
  <2> QED
    BY <1>1, <2>1, <2>2, <2>3, <2>4
<1> QED
  BY <1>2, <1>3

-----------------------------------------------------------------------------
(* A load in progress asks from the page's cursor and behind the record.   *)
LEMMA LoadFacts ==
  ASSUME IInv, NEW g \in Generations
  PROVE  /\ asked[g] \in Nat /\ asked[g] <= Latest /\ loadAt[g] # "failed" /\ cursor \in Nat
         /\ reply[g] \in Reply /\ reply[g].next \in Nat /\ reply[g].cursors \subseteq Nat
         /\ reply[g].expired \in BOOLEAN /\ LoadOK(g)
<1>1. asked[g] \in Nat /\ reply[g] \in Reply /\ cursor \in Nat
  BY DEF IInv, TypeOK, Reply
<1>2. LoadOK(g) /\ loadAt[g] # "failed"
  BY DEF IInv, LoadInv, NeverAhead
<1> QED
  BY <1>1, <1>2 DEF LoadOK, Reply

(* Types of the record and its worker.                                     *)
LEMMA RecordTypes ==
  ASSUME IInv, [Next]_vars
  PROVE  /\ status' \in {"queued", "running"} \union Terminal
         /\ registered' \in BOOLEAN /\ kind' \in Kinds
         /\ worker' \in {"submitted", "starting", "working", "closing", "done"}
         /\ closing' \in 0..4 /\ ClosingInv'
<1>1. /\ kind \in Kinds
      /\ status \in {"queued", "running"} \union Terminal /\ registered \in BOOLEAN
      /\ worker \in {"submitted", "starting", "working", "closing", "done"}
      /\ closing \in 0..4 /\ ClosingInv
  BY DEF IInv, TypeOK
<1>2. CASE WorkerRuns
  BY <1>1, <1>2 DEF WorkerRuns, WorkerUnchanged, ClosingInv
<1>3. CASE WorkerStarted
  BY <1>1, <1>3 DEF WorkerStarted, WorkerUnchanged, ClosingInv
<1>4. CASE WorkerReports
  BY <1>1, <1>4 DEF WorkerReports, WorkerUnchanged, ClosingInv, workerVars
<1>5. CASE WorkerSettles
  BY <1>1, <1>5 DEF WorkerSettles, WorkerUnchanged, ClosingInv, ClosingEvents
<1>6. CASE WorkerCloses
  BY <1>1, <1>6 DEF WorkerCloses, WorkerUnchanged, ClosingInv
<1>7. CASE Evicted
  BY <1>1, <1>7 DEF Evicted, workerVars, ClosingInv
<1>8. CASE Tick \/ Retry \/ Reopen \/ UNCHANGED vars
  BY <1>1, <1>8 DEF Tick, Retry, Reopen, vars, recordVars, workerVars, ClosingInv
<1>9. ASSUME NEW g \in Generations, LoadStep(g) PROVE UNCHANGED <<recordVars, workerVars>>
  BY <1>9, LoadKeepsRecord
<1>10. CASE \E g \in Generations : LoadStep(g)
  BY <1>1, <1>9, <1>10 DEF recordVars, workerVars, ClosingInv
<1> QED
  BY <1>2, <1>3, <1>4, <1>5, <1>6, <1>7, <1>8, <1>10, StepKinds DEF Appends, Others

(* Types of the page.                                                      *)
LEMMA PageTypes ==
  ASSUME IInv, [Next]_vars
  PROVE  /\ generation' \in Generations /\ cursor' \in Nat
         /\ known' \in {"", "queued", "running"} \union PageTerminal
         /\ shown' \subseteq Nat /\ gap' \in BOOLEAN /\ error' \in BOOLEAN
<1>1. /\ generation \in Generations /\ cursor \in Nat
      /\ known \in {"", "queued", "running"} \union PageTerminal
      /\ shown \subseteq Nat /\ gap \in BOOLEAN /\ error \in BOOLEAN
      /\ status \in {"queued", "running"} \union Terminal
  BY DEF IInv, TypeOK
<1>2. CASE Appends \/ Others \/ Tick \/ Retry
  <2>1. UNCHANGED pageVars
    BY <1>2 DEF Appends, Others, Tick, Retry, WorkerStarted, WorkerReports, WorkerCloses,
      WorkerRuns, WorkerSettles, WorkerUnchanged, Evicted, vars
  <2> QED
    BY <1>1, <2>1 DEF pageVars
<1>3. CASE Reopen
  <2>1. MaxGeneration \in Nat /\ generation \in 0..MaxGeneration
    BY <1>1, EventLogAssumption DEF Generations
  <2>2. generation' = generation + 1 /\ generation < MaxGeneration
    BY <1>3 DEF Reopen
  <2>3. generation' \in Generations
    BY <2>1, <2>2 DEF Generations
  <2>4. cursor' = 0 /\ known' = "" /\ shown' = {} /\ gap' = FALSE /\ error' = FALSE
    BY <1>3 DEF Reopen
  <2> QED
    BY <2>3, <2>4
<1>4. ASSUME NEW g \in Generations, LoadStep(g)
      PROVE  /\ generation' \in Generations /\ cursor' \in Nat
             /\ known' \in {"", "queued", "running"} \union PageTerminal
             /\ shown' \subseteq Nat /\ gap' \in BOOLEAN /\ error' \in BOOLEAN
  <2>1. generation' \in Generations
    BY <1>1, <1>4, LoadKeepsRecord
  <2>2. CASE StatusAnswered(g)
    BY <1>1, <2>1, <2>2 DEF StatusAnswered, PageTerminal
  <2>3. CASE Missing(g)
    BY <1>1, <2>1, <2>3 DEF Missing, PageTerminal
  <2>4. CASE EventsChecked(g) \/ EventsRead(g) \/ Dropped(g)
    BY <1>1, <2>1, <2>4 DEF EventsChecked, EventsRead, Dropped, pageVars
  <2>5. CASE PageArrives(g)
    <3>1. cursor' \in Nat /\ shown' \subseteq Nat
      BY <1>1, <2>5, LoadFacts DEF PageArrives, KeepNewest
    <3> QED
      BY <1>1, <2>1, <2>5, <3>1 DEF PageArrives
  <2>6. CASE ExpiredArrives(g)
    <3>1. asked[g] < reply[g].next - 1
      BY <2>6, LoadFacts DEF ExpiredArrives, Expires, LoadOK, Answers
    <3>2. cursor' \in Nat
      BY <2>6, <3>1, LoadFacts DEF ExpiredArrives
    <3> QED
      BY <1>1, <2>1, <2>6, <3>2 DEF ExpiredArrives, PageTerminal
  <2>7. CASE LoadRefused(g) \/ LoadFails(g)
    BY <1>1, <2>1, <2>7 DEF LoadRefused, LoadFails
  <2> QED
    BY <1>4, <2>2, <2>3, <2>4, <2>5, <2>6, <2>7 DEF LoadStep
<1> QED
  BY <1>2, <1>3, <1>4, StepKinds

(* Types of the loads.                                                     *)
LEMMA LoadTypes ==
  ASSUME IInv, [Next]_vars
  PROVE  /\ loadAt' \in [Generations -> LoadState] /\ asked' \in [Generations -> Nat]
         /\ again' \in [Generations -> BOOLEAN] /\ reply' \in [Generations -> Reply]
<1>1. /\ loadAt \in [Generations -> LoadState] /\ asked \in [Generations -> Nat]
      /\ again \in [Generations -> BOOLEAN] /\ reply \in [Generations -> Reply]
      /\ cursor \in Nat
  BY DEF IInv, TypeOK, Reply
<1>2. NoReply \in Reply
  BY DEF NoReply, Reply
<1>3. CASE Appends \/ Others \/ Reopen
  <2>1. UNCHANGED loadVars
    BY <1>3 DEF Appends, Others, Reopen, WorkerStarted, WorkerReports, WorkerCloses,
      WorkerRuns, WorkerSettles, WorkerUnchanged, Evicted, vars
  <2> QED
    BY <1>1, <2>1 DEF loadVars
<1>4. CASE Tick \/ Retry
  BY <1>1, <1>4 DEF Tick, Retry, Begin, LoadState
<1>5. ASSUME NEW g \in Generations, LoadStep(g)
      PROVE  /\ loadAt' \in [Generations -> LoadState] /\ asked' \in [Generations -> Nat]
             /\ again' \in [Generations -> BOOLEAN] /\ reply' \in [Generations -> Reply]
  <2>1. ASSUME Finish(g)
        PROVE  /\ loadAt' \in [Generations -> LoadState] /\ asked' \in [Generations -> Nat]
               /\ again' \in [Generations -> BOOLEAN] /\ reply' \in [Generations -> Reply]
    BY <1>1, <1>2, <2>1 DEF Finish, LoadState
  <2>2. ASSUME NEW after \in Nat, NEW second \in BOOLEAN, Ask(g, after, second)
        PROVE  /\ loadAt' \in [Generations -> LoadState] /\ asked' \in [Generations -> Nat]
               /\ again' \in [Generations -> BOOLEAN] /\ reply' \in [Generations -> Reply]
    BY <1>1, <1>2, <2>2 DEF Ask, LoadState
  <2>3. CASE StatusAnswered(g)
    <3>1. Ask(g, cursor, FALSE)
      BY <2>3 DEF StatusAnswered
    <3> QED
      BY <1>1, <2>2, <3>1
  <2>4. CASE ExpiredArrives(g)
    <3>1. Ask(g, cursor', TRUE) /\ cursor' \in Nat
      BY <2>4, PageTypes DEF ExpiredArrives
    <3> QED
      BY <2>2, <3>1
  <2>5. CASE EventsChecked(g)
    BY <1>1, <2>5 DEF EventsChecked, LoadState
  <2>6. CASE EventsRead(g)
    <3>1. EventsAfter(asked[g]) \in Reply
      BY LoadFacts, Answered DEF Reply, IInv
    <3> QED
      BY <1>1, <2>6, <3>1 DEF EventsRead, LoadState
  <2>7. CASE Missing(g) \/ PageArrives(g) \/ LoadRefused(g) \/ Dropped(g) \/ LoadFails(g)
    BY <2>1, <2>7 DEF Missing, PageArrives, LoadRefused, Dropped, LoadFails
  <2> QED
    BY <1>5, <2>3, <2>4, <2>5, <2>6, <2>7 DEF LoadStep
<1> QED
  BY <1>3, <1>4, <1>5, StepKinds

(* Every step keeps the types and the window.                              *)
LEMMA TypeStep ==
  ASSUME IInv, [Next]_vars
  PROVE  TypeOK' /\ ClosingInv' /\ LogWindow'
<1>1. /\ events' \in Seq(Nat) /\ Len(events') \in 1..EventLimit
      /\ nextCursor' \in Nat /\ nextCursor' >= 2 /\ LogWindow'
  BY Forward DEF IInv
<1>2. TypeOK'
  BY <1>1, RecordTypes, PageTypes, LoadTypes DEF TypeOK, Reply
<1> QED
  BY <1>1, <1>2, RecordTypes
-----------------------------------------------------------------------------
(* What the steps of one load leave of the other loads.                    *)
LEMMA OtherLoads ==
  ASSUME IInv, NEW g \in Generations, LoadStep(g), NEW h \in Generations, h # g,
         [Next]_vars
  PROVE  LoadOK(h)' /\ loadAt'[h] # "failed"
<1>1. UNCHANGED <<recordVars, workerVars, generation>>
  BY LoadKeepsRecord
<1>2. Latest' = Latest /\ Oldest' = Oldest /\ generation' = generation
  BY <1>1 DEF Latest, Oldest, recordVars
<1>3. /\ loadAt \in [Generations -> LoadState] /\ asked \in [Generations -> Nat]
      /\ again \in [Generations -> BOOLEAN] /\ reply \in [Generations -> Reply]
  BY DEF IInv, TypeOK, Reply
<1>4. loadAt'[h] = loadAt[h] /\ asked'[h] = asked[h] /\ reply'[h] = reply[h]
  <2>1. ASSUME Finish(g)
        PROVE  loadAt'[h] = loadAt[h] /\ asked'[h] = asked[h] /\ reply'[h] = reply[h]
    BY <1>3, <2>1 DEF Finish
  <2>2. ASSUME NEW after, NEW second, Ask(g, after, second)
        PROVE  loadAt'[h] = loadAt[h] /\ asked'[h] = asked[h] /\ reply'[h] = reply[h]
    BY <1>3, <2>2 DEF Ask
  <2>3. CASE StatusAnswered(g) \/ ExpiredArrives(g)
    <3>1. Ask(g, cursor, FALSE) \/ Ask(g, cursor', TRUE)
      BY <2>3 DEF StatusAnswered, ExpiredArrives
    <3> QED
      BY <2>2, <3>1
  <2>4. CASE EventsChecked(g) \/ EventsRead(g)
    BY <1>3, <2>4 DEF EventsChecked, EventsRead
  <2>5. CASE Missing(g) \/ PageArrives(g) \/ LoadRefused(g) \/ Dropped(g) \/ LoadFails(g)
    BY <2>1, <2>5 DEF Missing, PageArrives, LoadRefused, Dropped, LoadFails
  <2> QED
    BY <2>3, <2>4, <2>5 DEF LoadStep
<1>5. cursor' = cursor \/ g = generation
  BY DEF LoadStep, StatusAnswered, Missing, EventsChecked, EventsRead, PageArrives,
    ExpiredArrives, LoadRefused, Dropped, LoadFails, pageVars
<1>6. LoadOK(h) /\ loadAt[h] # "failed"
  BY DEF IInv, LoadInv, NeverAhead
<1> QED
  BY <1>2, <1>4, <1>5, <1>6 DEF LoadOK, Answers

(* Visits are numbered.                                                    *)
LEMMA GenerationNat == ASSUME NEW g \in Generations PROVE g \in Nat
BY EventLogAssumption DEF Generations

(* A step of a load keeps what is known of this load.                      *)
LEMMA OwnLoad ==
  ASSUME IInv, NEW g \in Generations, LoadStep(g), [Next]_vars
  PROVE  LoadOK(g)' /\ loadAt'[g] # "failed"
<1>1. UNCHANGED <<recordVars, workerVars, generation>>
  BY LoadKeepsRecord
<1>2. /\ Latest' = Latest /\ Oldest' = Oldest /\ generation' = generation
      /\ Latest \in Nat /\ Oldest \in Nat /\ Oldest <= Latest
  BY <1>1, WindowEnds DEF Latest, Oldest, recordVars, IInv
<1>3. /\ loadAt \in [Generations -> LoadState] /\ asked \in [Generations -> Nat]
      /\ again \in [Generations -> BOOLEAN] /\ reply \in [Generations -> Reply]
  BY DEF IInv, TypeOK, Reply
<1>4. generation \in Nat /\ g \in Nat /\ cursor \in Nat /\ cursor <= Latest
  <2>1. generation \in Generations /\ cursor \in Nat /\ cursor <= Latest
    BY DEF IInv, TypeOK, PageInv
  <2> QED
    BY <2>1, GenerationNat
<1>5. loadAt[g] # "none" => ~(g > generation)
  BY LoadFacts DEF LoadOK
<1>6. ASSUME Finish(g) PROVE LoadOK(g)' /\ loadAt'[g] # "failed"
  <2>1. loadAt'[g] = "none" /\ asked'[g] = 0
    BY <1>3, <1>6 DEF Finish
  <2> QED
    BY <1>2, <2>1 DEF LoadOK
<1>7. CASE StatusAnswered(g)
  <2>1. Ask(g, cursor, FALSE) /\ cursor' = cursor /\ g = generation
    BY <1>7 DEF StatusAnswered
  <2>2. loadAt'[g] = "asked" /\ asked'[g] = cursor
    BY <1>3, <2>1 DEF Ask
  <2> QED
    BY <1>2, <1>4, <2>1, <2>2 DEF LoadOK
<1>8. CASE ExpiredArrives(g)
  <2>1. Ask(g, cursor', TRUE) /\ cursor' = reply[g].next - 1 /\ g = generation
    BY <1>8 DEF ExpiredArrives
  <2>2. loadAt'[g] = "asked" /\ asked'[g] = cursor'
    BY <1>3, <2>1 DEF Ask
  <2>3. reply[g].next <= Oldest /\ reply[g].next \in Nat
    BY <1>8, LoadFacts DEF ExpiredArrives, Expires, LoadOK, Answers
  <2>4. cursor' <= Latest
    BY <1>2, <2>1, <2>3
  <2> QED
    BY <1>2, <1>4, <2>1, <2>2, <2>4 DEF LoadOK
<1>9. CASE EventsChecked(g)
  <2>1. loadAt[g] = "asked" /\ UNCHANGED <<cursor, asked>> /\ asked[g] <= Latest /\ asked[g] \in Nat
    BY <1>9, LoadFacts DEF EventsChecked, pageVars
  <2>2. loadAt'[g] = "checked"
    BY <1>2, <1>3, <1>9, <2>1 DEF EventsChecked
  <2>3. LoadOK(g)
    BY LoadFacts
  <2> QED
    BY <1>2, <1>4, <1>5, <2>1, <2>2, <2>3 DEF LoadOK
<1>10. CASE EventsRead(g)
  <2>1. loadAt[g] = "checked" /\ UNCHANGED <<cursor, asked>> /\ asked[g] <= Latest /\ asked[g] \in Nat
    BY <1>10, LoadFacts DEF EventsRead, pageVars
  <2>2. loadAt'[g] = "answered" /\ reply'[g] = EventsAfter(asked[g])
    BY <1>3, <1>10 DEF EventsRead
  <2>3. Answers(reply'[g], asked[g])
    BY <2>1, <2>2, Answered DEF IInv
  <2>4. Answers(reply[g], asked[g])'
    BY <1>2, <2>1, <2>3 DEF Answers
  <2>5. LoadOK(g)
    BY LoadFacts
  <2> QED
    BY <1>2, <1>4, <1>5, <2>1, <2>2, <2>4, <2>5 DEF LoadOK
<1>11. CASE Missing(g) \/ PageArrives(g) \/ LoadRefused(g) \/ Dropped(g) \/ LoadFails(g)
  BY <1>6, <1>11 DEF Missing, PageArrives, LoadRefused, Dropped, LoadFails
<1> QED
  BY <1>7, <1>8, <1>9, <1>10, <1>11 DEF LoadStep

(* Every step keeps what is known of the loads.                            *)
LEMMA LoadsStep ==
  ASSUME IInv, [Next]_vars
  PROVE  LoadInv' /\ NeverAhead'
<1> SUFFICES ASSUME NEW h \in Generations PROVE LoadOK(h)' /\ loadAt'[h] # "failed"
  BY DEF LoadInv, NeverAhead
<1>1. /\ Latest <= Latest' /\ Oldest <= Oldest'
      /\ Latest \in Nat /\ Latest' \in Nat /\ Oldest \in Nat /\ Oldest' \in Nat
  BY Forward DEF IInv
<1>2. /\ LoadOK(h) /\ loadAt[h] # "failed" /\ asked[h] \in Nat /\ reply[h] \in Reply
      /\ reply[h].next \in Nat
  BY LoadFacts
<1>3. /\ loadAt \in [Generations -> LoadState] /\ generation \in Generations
      /\ generation \in Nat /\ h \in Nat
  <2>1. loadAt \in [Generations -> LoadState] /\ generation \in Generations
    BY DEF IInv, TypeOK
  <2> QED
    BY <2>1, GenerationNat
<1>4. CASE Appends \/ Others
  <2>1. UNCHANGED <<loadVars, pageVars>>
    BY <1>4 DEF Appends, Others, WorkerStarted, WorkerReports, WorkerCloses,
      WorkerRuns, WorkerSettles, WorkerUnchanged, Evicted, vars
  <2>2. UNCHANGED <<loadAt, asked, reply, generation, cursor>>
    BY <2>1 DEF loadVars, pageVars
  <2>3. loadAt[h] = "answered" => Answers(reply[h], asked[h])'
    BY <1>1, <1>2, <2>2 DEF LoadOK, Answers
  <2> QED
    BY <1>1, <1>2, <2>2, <2>3 DEF LoadOK
<1>5. CASE Tick \/ Retry
  <2>1. /\ loadAt' = [loadAt EXCEPT ![generation] = "status"] /\ loadAt[generation] = "none"
        /\ UNCHANGED <<recordVars, asked, reply, pageVars>>
    BY <1>5 DEF Tick, Retry, Begin
  <2>2. UNCHANGED <<asked, reply, generation, cursor>> /\ Latest' = Latest /\ Oldest' = Oldest
    BY <2>1 DEF recordVars, pageVars, Latest, Oldest
  <2>3. CASE h = generation
    <3>1. loadAt'[h] = "status"
      BY <1>3, <2>1, <2>3
    <3> QED
      BY <1>2, <1>3, <2>2, <2>3, <3>1 DEF LoadOK
  <2>4. CASE h # generation
    <3>1. loadAt'[h] = loadAt[h]
      BY <1>3, <2>1, <2>4
    <3> QED
      BY <1>2, <2>2, <3>1 DEF LoadOK, Answers
  <2> QED
    BY <2>3, <2>4
<1>6. CASE Reopen
  <2>1. generation' = generation + 1 /\ UNCHANGED <<recordVars, loadAt, asked, reply>>
    BY <1>6 DEF Reopen, loadVars
  <2>2. Latest' = Latest /\ Oldest' = Oldest
    BY <2>1 DEF recordVars, Latest, Oldest
  <2>3. h > generation => loadAt[h] = "none"
    BY <1>2 DEF LoadOK
  <2> QED
    BY <1>2, <1>3, <2>1, <2>2, <2>3 DEF LoadOK, Answers
<1>7. ASSUME NEW g \in Generations, LoadStep(g) PROVE LoadOK(h)' /\ loadAt'[h] # "failed"
  BY <1>7, OwnLoad, OtherLoads
<1> QED
  BY <1>4, <1>5, <1>6, <1>7, StepKinds
-----------------------------------------------------------------------------
(* Merging a page: the list reaches to the new cursor, and what it lacks it *)
(* lacked before.                                                          *)
LEMMA Merged ==
  ASSUME IInv, NEW g \in Generations, PageArrives(g)
  PROVE  PageInv'
<1>1. /\ g = generation /\ loadAt[g] = "answered" /\ ~reply[g].expired
      /\ cursor' = (IF reply[g].next > cursor THEN reply[g].next ELSE cursor)
      /\ shown' = KeepNewest(shown \union reply[g].cursors)
      /\ UNCHANGED <<recordVars, gap>>
  BY DEF PageArrives
<1>2. Latest' = Latest /\ Oldest' = Oldest /\ gap' = gap /\ Latest \in Nat /\ Oldest \in Nat
  BY <1>1, WindowEnds DEF recordVars, Latest, Oldest, IInv
<1>3. /\ asked[g] = cursor /\ cursor \in Nat /\ reply[g].next \in Nat
      /\ cursor <= reply[g].next /\ reply[g].next <= Latest
      /\ reply[g].cursors = {c \in Nat : cursor < c /\ c <= reply[g].next}
  <2>1. LoadOK(g) /\ cursor \in Nat /\ reply[g].next \in Nat
    BY LoadFacts
  <2>2. asked[g] = cursor /\ Answers(reply[g], asked[g])
    BY <1>1, <2>1 DEF LoadOK
  <2> QED
    BY <1>1, <2>1, <2>2 DEF Answers
<1>4. cursor' = reply[g].next
  BY <1>1, <1>3
<1>5. shown \subseteq 1..cursor /\ GapsShown /\ DisplayLimit \in Nat
  BY EventLogAssumption DEF IInv, PageInv
<1> DEFINE all == shown \union reply[g].cursors
<1>6. all \subseteq 1..cursor'
  <2>1. ASSUME NEW c \in all PROVE c \in 1..cursor'
    <3>1. CASE c \in shown
      BY <1>3, <1>4, <1>5, <3>1
    <3>2. CASE c \in reply[g].cursors
      BY <1>3, <1>4, <3>2
    <3> QED
      BY <2>1, <3>1, <3>2
  <2> QED
    BY <2>1
<1>7. shown' \subseteq all
  BY <1>1 DEF KeepNewest
<1>8. GapsShown'
  <2> SUFFICES ASSUME NEW c \in 1..cursor', c > cursor' - DisplayLimit, c \notin shown'
               PROVE  gap' /\ c < Oldest'
    BY DEF GapsShown
  <2>1. c \notin all
    <3>1. cursor' \in Nat /\ all \in SUBSET (1..cursor')
      BY <1>3, <1>4, <1>6
    <3> HIDE DEF all
    <3> QED
      BY <1>1, <3>1, NewestKept DEF all
  <2>2. c \in Nat /\ c <= cursor' /\ c >= 1
    BY <1>3, <1>4
  <2>3. ~(cursor < c)
    BY <1>3, <1>4, <2>1, <2>2
  <2>4. c \in 1..cursor /\ c > cursor - DisplayLimit /\ c \notin shown
    BY <1>3, <1>4, <1>5, <2>1, <2>2, <2>3
  <2> QED
    BY <1>2, <1>5, <2>4 DEF GapsShown
<1> QED
  BY <1>2, <1>3, <1>4, <1>6, <1>7, <1>8 DEF PageInv

(* Resuming after a 410: what is skipped has expired, and the page says so. *)
LEMMA Resumed ==
  ASSUME IInv, NEW g \in Generations, ExpiredArrives(g)
  PROVE  PageInv' /\ cursor' >= cursor
<1>1. /\ g = generation /\ loadAt[g] = "answered" /\ reply[g].expired
      /\ cursor' = reply[g].next - 1 /\ gap' = TRUE /\ UNCHANGED <<recordVars, shown>>
  BY DEF ExpiredArrives, Expires
<1>2. Latest' = Latest /\ Oldest' = Oldest /\ Latest \in Nat /\ Oldest \in Nat /\ Oldest <= Latest
  BY <1>1, WindowEnds DEF recordVars, Latest, Oldest, IInv
<1>3. /\ cursor \in Nat /\ reply[g].next \in Nat
      /\ cursor < reply[g].next - 1 /\ reply[g].next <= Oldest
  <2>1. LoadOK(g) /\ cursor \in Nat /\ reply[g].next \in Nat
    BY LoadFacts
  <2> QED
    BY <1>1, <2>1 DEF LoadOK, Answers
<1>4. shown \subseteq 1..cursor
  BY DEF IInv, PageInv
<1>5. shown' \subseteq 1..cursor' /\ cursor' <= Latest'
  BY <1>1, <1>2, <1>3, <1>4
<1>6. \A c \in 1..cursor' : c < Oldest'
  BY <1>1, <1>2, <1>3
<1>7. GapsShown'
  BY <1>1, <1>6 DEF GapsShown
<1> QED
  BY <1>1, <1>3, <1>5, <1>7 DEF PageInv

(* Every step keeps what the page has shown and skipped.                   *)
LEMMA PageStep ==
  ASSUME IInv, [Next]_vars
  PROVE  PageInv' /\ (generation' = generation => cursor' >= cursor)
<1>1. /\ Latest <= Latest' /\ Oldest <= Oldest'
      /\ Latest \in Nat /\ Latest' \in Nat /\ Oldest \in Nat /\ Oldest' \in Nat
  BY Forward DEF IInv
<1>2. PageInv /\ cursor \in Nat /\ generation \in Nat
  BY GenerationNat DEF IInv, TypeOK
<1>3. ASSUME UNCHANGED <<cursor, shown, gap>>
      PROVE  PageInv' /\ (generation' = generation => cursor' >= cursor)
  <2>1. cursor' <= Latest' /\ shown' \subseteq 1..cursor'
    BY <1>1, <1>2, <1>3 DEF PageInv
  <2>2. GapsShown'
    BY <1>1, <1>2, <1>3 DEF PageInv, GapsShown
  <2> QED
    BY <1>2, <1>3, <2>1, <2>2 DEF PageInv
<1>4. CASE Appends \/ Others \/ Tick \/ Retry
  <2>1. UNCHANGED pageVars
    BY <1>4 DEF Appends, Others, Tick, Retry, WorkerStarted, WorkerReports, WorkerCloses,
      WorkerRuns, WorkerSettles, WorkerUnchanged, Evicted, vars
  <2> QED
    BY <1>3, <2>1 DEF pageVars
<1>5. CASE Reopen
  <2>1. cursor' = 0 /\ shown' = {} /\ generation' = generation + 1
    BY <1>5 DEF Reopen
  <2>2. GapsShown'
    BY <2>1 DEF GapsShown
  <2> QED
    BY <1>1, <1>2, <2>1, <2>2 DEF PageInv
<1>6. ASSUME NEW g \in Generations, LoadStep(g)
      PROVE  PageInv' /\ (generation' = generation => cursor' >= cursor)
  <2>1. CASE PageArrives(g)
    <3>1. cursor' >= cursor
      BY <1>2, <2>1, LoadFacts DEF PageArrives
    <3> QED
      BY <2>1, <3>1, Merged
  <2>2. CASE ExpiredArrives(g)
    BY <2>2, Resumed
  <2>3. CASE ~PageArrives(g) /\ ~ExpiredArrives(g)
    <3>1. UNCHANGED <<cursor, shown, gap>>
      BY <1>6, <2>3 DEF LoadStep, StatusAnswered, Missing, EventsChecked, EventsRead,
        LoadRefused, Dropped, LoadFails, pageVars
    <3> QED
      BY <1>3, <3>1
  <2> QED
    BY <2>1, <2>2, <2>3
<1> QED
  BY <1>4, <1>5, <1>6, StepKinds
-----------------------------------------------------------------------------
(* The page has just been given the id of a queued record.                 *)
LEMMA InitInv == Init => IInv
<1> SUFFICES ASSUME Init PROVE IInv
  OBVIOUS
<1>1. events = <<1>> /\ nextCursor = 2
  BY DEF Init
<1>2. EventLimit \in Nat /\ EventLimit >= 1 /\ MaxGeneration \in Nat
  BY EventLogAssumption
<1>3. events \in Seq(Nat) /\ Len(events) = 1 /\ events[1] = 1 /\ 1 \in 1..EventLimit
  BY <1>1, <1>2
<1>4. Latest = 1 /\ Oldest = 1
  BY <1>1 DEF Latest, Oldest
<1>5. 0 \in Generations /\ NoReply \in Reply
  BY <1>2 DEF Generations, NoReply, Reply
<1>6. /\ loadAt = [g \in Generations |-> "none"] /\ asked = [g \in Generations |-> 0]
      /\ again = [g \in Generations |-> FALSE] /\ reply = [g \in Generations |-> NoReply]
  BY DEF Init
<1>7. /\ loadAt \in [Generations -> LoadState] /\ asked \in [Generations -> Nat]
      /\ again \in [Generations -> BOOLEAN] /\ reply \in [Generations -> Reply]
  BY <1>5, <1>6 DEF LoadState
<1>8. /\ kind \in Kinds
      /\ status \in {"queued", "running"} \union Terminal /\ registered \in BOOLEAN
      /\ worker \in {"submitted", "starting", "working", "closing", "done"}
      /\ closing \in 0..4 /\ ClosingInv
  <2>1. /\ kind \in Kinds
        /\ status = "queued" /\ registered = TRUE /\ worker = "submitted" /\ closing = 0
    BY DEF Init
  <2> QED
    BY <2>1 DEF ClosingInv
<1>9. /\ generation = 0 /\ cursor = 0 /\ shown = {} /\ gap \in BOOLEAN /\ error \in BOOLEAN
      /\ known \in {"", "queued", "running"} \union PageTerminal
  BY DEF Init
<1>10. TypeOK
  <2>1. cursor \in Nat /\ generation \in Generations /\ shown \subseteq Nat
    BY <1>5, <1>9
  <2>2. nextCursor \in Nat /\ nextCursor >= 2 /\ Len(events) \in 1..EventLimit
    BY <1>1, <1>3
  <2> QED
    BY <1>3, <1>7, <1>8, <1>9, <2>1, <2>2 DEF TypeOK, Reply
<1>11. LogWindow
  BY <1>2, <1>3, <1>4 DEF LogWindow
<1>12. LoadInv /\ NeverAhead
  BY <1>4, <1>6 DEF LoadInv, LoadOK, NeverAhead
<1>13. PageInv
  <2>0. cursor = 0 /\ shown = {} /\ Latest = 1
    BY <1>4, <1>9
  <2>1. cursor <= Latest /\ shown \subseteq 1..cursor /\ 1..cursor = {}
    BY <2>0
  <2> QED
    BY <2>1 DEF PageInv, GapsShown
<1> QED
  BY <1>8, <1>10, <1>11, <1>12, <1>13 DEF IInv

(* Every step keeps the invariant.                                         *)
LEMMA NextInv == IInv /\ [Next]_vars => IInv'
BY TypeStep, LoadsStep, PageStep DEF IInv

(* The invariant of a record's history and the page that follows it.        *)
THEOREM Invariance == Spec => []IInv
BY InitInv, NextInv, PTL DEF Spec

(* Type correctness: the history of every record keeps to event_limit.      *)
THEOREM TypeCorrect == Spec => []TypeOK
<1>1. IInv => TypeOK
  BY DEF IInv
<1> QED
  BY <1>1, Invariance, PTL

(* append_event keeps the newest events and every cursor once, for any      *)
(* event_limit and any number of events.                                   *)
THEOREM LogWindowAlways == Spec => []LogWindow
<1>1. IInv => LogWindow
  BY DEF IInv
<1> QED
  BY <1>1, Invariance, PTL

(* The page never skips an event the backend still has without a notice,    *)
(* whatever is answered late, fails or expires between two requests.        *)
THEOREM GapsShownAlways == Spec => []GapsShown
<1>1. IInv => GapsShown
  BY DEF IInv, PageInv
<1> QED
  BY <1>1, Invariance, PTL

(* The check for cursors ahead of the record never refuses this page.       *)
THEOREM NeverAheadAlways == Spec => []NeverAhead
<1>1. IInv => NeverAhead
  BY DEF IInv
<1> QED
  BY <1>1, Invariance, PTL

(* During a visit the cursor of the page never goes back.                   *)
THEOREM CursorForwardAlways == Spec => CursorForward
<1>1. IInv /\ [Next]_vars => [generation' = generation => cursor' >= cursor]_vars
  BY PageStep
<1> QED
  BY <1>1, Invariance, PTL DEF Spec, CursorForward
=============================================================================
