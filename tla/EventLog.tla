------------------------------ MODULE EventLog ------------------------------
(***************************************************************************)
(* The bounded event history of one run record, the worker that appends to *)
(* it, and a browser page that polls the run's status and pages through    *)
(* the events by cursor.                                                   *)
(*                                                                         *)
(* An event is its cursor.  A page may leave the workflow and come back    *)
(* while a load is under way: each visit is a generation, with at most one *)
(* load of its own, and loads of earlier visits may still be answered.     *)
(***************************************************************************)
EXTENDS Integers, Sequences, FiniteSets

CONSTANTS
  EventLimit,     \* event_limit of the runtime
  DisplayLimit,   \* EVENT_LIMIT of a run's page; a stress test's page has none
  Kinds,          \* which of "clip" and "stress" the record may be of
  MaxReports,     \* bound: no progress event gets a later cursor
  MaxGeneration,  \* bound: how often the page comes back
  Failing         \* may requests fail on the network?

ASSUME EventLogAssumption ==
  /\ EventLimit \in Nat \ {0} /\ DisplayLimit \in Nat \ {0}
  /\ Kinds \subseteq {"clip", "stress"}
  /\ MaxReports \in Nat /\ MaxGeneration \in Nat /\ Failing \in BOOLEAN

VARIABLES
  kind,        \* the record's kind, which settles its worker and its page
  status,      \* record.status
  events,      \* record.events: the cursors of the retained events
  nextCursor,  \* record.next_cursor
  registered,  \* is the record in the registry?
  worker,      \* what the worker does next
  closing,     \* events it has still to append after the terminal status
  generation,  \* workflowRef.current.generation
  cursor,      \* cursorRef
  known,       \* statusRef; "": none yet
  shown,       \* the cursors in the page's list of events
  gap,         \* eventGap: the expired-history notice is shown
  error,       \* an error is shown
  loadAt,      \* how far the load of each generation is
  asked,       \* its parameter "after"
  again,       \* is it the second request, after a 410?
  reply        \* the answer on its way to the page

recordVars == <<kind, status, events, nextCursor, registered>>
workerVars == <<worker, closing>>
pageVars == <<generation, cursor, known, shown, gap, error>>
loadVars == <<loadAt, asked, again, reply>>
vars == <<recordVars, workerVars, pageVars, loadVars>>

Generations == 0..MaxGeneration
Terminal == {"completed", "failed"}
PageTerminal == Terminal \union {"not-found"}

NoReply == [expired |-> FALSE, cursors |-> {}, next |-> 0]

\* The page gets the id of a record that has its "queued" event.
Init ==
  /\ kind \in Kinds
  /\ status = "queued" /\ events = <<1>> /\ nextCursor = 2 /\ registered = TRUE
  /\ worker = "submitted" /\ closing = 0
  /\ generation = 0 /\ cursor = 0 /\ known = "" /\ shown = {} /\ gap = FALSE /\ error = FALSE
  /\ loadAt = [g \in Generations |-> "none"] /\ asked = [g \in Generations |-> 0]
  /\ again = [g \in Generations |-> FALSE] /\ reply = [g \in Generations |-> NoReply]
-----------------------------------------------------------------------------
(* The record and its worker.                                              *)

AppendEvent ==
  /\ events' = IF Len(events) >= EventLimit THEN Append(Tail(events), nextCursor)
                                            ELSE Append(events, nextCursor)
  /\ nextCursor' = nextCursor + 1

WorkerUnchanged == UNCHANGED <<kind, registered, pageVars, loadVars>>

WorkerRuns ==
  /\ worker = "submitted" /\ worker' = "starting"
  /\ status' = "running"
  /\ UNCHANGED <<events, nextCursor, closing>> /\ WorkerUnchanged

WorkerStarted ==
  /\ worker = "starting" /\ worker' = "working"
  /\ AppendEvent
  /\ UNCHANGED <<status, closing>> /\ WorkerUnchanged

\* A measurement of a clip, the progress of a stress test.
WorkerReports ==
  /\ worker = "working" /\ nextCursor <= MaxReports
  /\ AppendEvent
  /\ UNCHANGED <<status, workerVars>> /\ WorkerUnchanged

\* What is appended after the status is set.  A completed clip: its transcript, its
\* matches, its delivery if it has a destination, "completed"; a failed one:
\* "workflow_error", "completed".  A stress test: "completed" or "workflow_error".
ClosingEvents(result) ==
  IF kind = "stress" THEN {1} ELSE IF result = "completed" THEN {3, 4} ELSE {2}

WorkerSettles ==
  /\ worker = "working" /\ worker' = "closing"
  /\ \E result \in Terminal :
       /\ status' = result
       /\ closing' \in ClosingEvents(result)
  /\ UNCHANGED <<events, nextCursor>> /\ WorkerUnchanged

WorkerCloses ==
  /\ worker = "closing"
  /\ AppendEvent
  /\ closing' = closing - 1
  /\ worker' = IF closing = 1 THEN "done" ELSE "closing"
  /\ UNCHANGED status /\ WorkerUnchanged

\* Admitting another run may evict a record that has a terminal status.
Evicted ==
  /\ registered /\ status \in Terminal
  /\ registered' = FALSE
  /\ UNCHANGED <<kind, status, events, nextCursor, workerVars, pageVars, loadVars>>
-----------------------------------------------------------------------------
(* The events endpoint.                                                    *)

Latest == nextCursor - 1
Oldest == IF events # <<>> THEN events[1] ELSE nextCursor

After(after) == {c \in {events[i] : i \in DOMAIN events} : c > after}

Expired(oldest) == [expired |-> TRUE, cursors |-> {}, next |-> oldest]
Page(after) ==
  [expired |-> FALSE, cursors |-> After(after),
   next |-> IF After(after) # {} THEN events[Len(events)] ELSE after]

EventsAfter(after) ==
  IF after < Oldest - 1 THEN Expired(Oldest)
  ELSE IF after > Latest THEN Expired(Latest + 1)
  ELSE Page(after)

\* The endpoint compares the cursor with the record and releases its lock.
EventsChecked(g) ==
  /\ loadAt[g] = "asked" /\ registered
  /\ loadAt' = [loadAt EXCEPT ![g] = IF asked[g] > Latest THEN "failed" ELSE "checked"]
  /\ UNCHANGED <<recordVars, workerVars, pageVars, asked, again, reply>>

\* It takes the lock again and reads a page.
EventsRead(g) ==
  /\ loadAt[g] = "checked"
  /\ loadAt' = [loadAt EXCEPT ![g] = "answered"]
  /\ reply' = [reply EXCEPT ![g] = EventsAfter(asked[g])]
  /\ UNCHANGED <<recordVars, workerVars, pageVars, asked, again>>
-----------------------------------------------------------------------------
(* The page.                                                               *)

Begin(g) == loadAt' = [loadAt EXCEPT ![g] = "status"]
Finish(g) ==
  /\ loadAt' = [loadAt EXCEPT ![g] = "none"]
  /\ asked' = [asked EXCEPT ![g] = 0] /\ again' = [again EXCEPT ![g] = FALSE]
  /\ reply' = [reply EXCEPT ![g] = NoReply]

Ask(g, after, second) ==
  /\ loadAt' = [loadAt EXCEPT ![g] = "asked"]
  /\ asked' = [asked EXCEPT ![g] = after]
  /\ again' = [again EXCEPT ![g] = second]
  /\ reply' = [reply EXCEPT ![g] = NoReply]

\* The timer: it loads until the page knows a terminal status.
Tick ==
  /\ known \notin PageTerminal /\ loadAt[generation] = "none"
  /\ Begin(generation)
  /\ UNCHANGED <<recordVars, workerVars, pageVars, asked, again, reply>>

\* The user asks to retry what failed.
Retry ==
  /\ error /\ known # "not-found" /\ loadAt[generation] = "none"
  /\ Begin(generation)
  /\ UNCHANGED <<recordVars, workerVars, pageVars, asked, again, reply>>

Reopen ==
  /\ generation < MaxGeneration
  /\ generation' = generation + 1
  /\ cursor' = 0 /\ known' = "" /\ shown' = {} /\ gap' = FALSE /\ error' = FALSE
  /\ UNCHANGED <<recordVars, workerVars, loadVars>>

StatusAnswered(g) ==
  /\ loadAt[g] = "status" /\ g = generation /\ registered
  /\ known' = status /\ error' = FALSE
  /\ Ask(g, cursor, FALSE)
  /\ UNCHANGED <<recordVars, workerVars, generation, cursor, shown, gap>>

\* The page of a stress test reads the status again when its cursor has expired.
Expires(g) == loadAt[g] = "answered" /\ reply[g].expired /\ ~again[g]
ReadsStatus(g) == loadAt[g] = "status" \/ (kind = "stress" /\ Expires(g))

\* 404, of the status or of the events.
Missing(g) ==
  /\ (ReadsStatus(g) \/ loadAt[g] = "asked") /\ g = generation /\ ~registered
  /\ known' = "not-found" /\ error' = TRUE
  /\ Finish(g)
  /\ UNCHANGED <<recordVars, workerVars, generation, cursor, shown, gap>>

\* setEvents: merged by cursor, the latest DisplayLimit of them.
KeepNewest(cursors) == {c \in cursors : Cardinality({d \in cursors : d > c}) < DisplayLimit}

\* Mutant: a page of an earlier visit counts.
PageArrives_AnyVisit(g) ==
  /\ loadAt[g] = "answered" /\ ~reply[g].expired
  /\ cursor' = IF reply[g].next > cursor THEN reply[g].next ELSE cursor
  /\ shown' = KeepNewest(shown \union reply[g].cursors)
  /\ Finish(g)
  /\ UNCHANGED <<recordVars, workerVars, generation, known, gap, error>>

PageArrives(g) ==
  /\ loadAt[g] = "answered" /\ g = generation /\ ~reply[g].expired
  /\ cursor' = IF reply[g].next > cursor THEN reply[g].next ELSE cursor
  /\ shown' = KeepNewest(shown \union reply[g].cursors)
  /\ Finish(g)
  /\ UNCHANGED <<recordVars, workerVars, generation, known, gap, error>>

\* A 410: show the notice, resume at the oldest event and ask once more.
ExpiredArrives(g) ==
  /\ Expires(g) /\ g = generation /\ (ReadsStatus(g) => registered)
  /\ gap' = TRUE /\ cursor' = reply[g].next - 1
  /\ known' = IF ReadsStatus(g) THEN status ELSE known
  /\ Ask(g, cursor', TRUE)
  /\ UNCHANGED <<recordVars, workerVars, generation, shown, error>>

\* A 422, or the oldest event expired again before the second request: an error.
Refused(g) == loadAt[g] = "failed" \/ (loadAt[g] = "answered" /\ reply[g].expired /\ again[g])

LoadRefused(g) ==
  /\ Refused(g)
  /\ error' = IF g = generation THEN TRUE ELSE error
  /\ Finish(g)
  /\ UNCHANGED <<recordVars, workerVars, generation, cursor, known, shown, gap>>

\* Mutant: the failed load stays the one in flight.
LoadFails_StaysInFlight(g) ==
  /\ Failing /\ loadAt[g] # "none"
  /\ error' = IF g = generation THEN TRUE ELSE error
  /\ loadAt' = [loadAt EXCEPT ![g] = "lost"]
  /\ UNCHANGED <<asked, again, reply, recordVars, workerVars, generation, cursor, known, shown, gap>>

LoadFails(g) ==
  /\ Failing /\ loadAt[g] # "none"
  /\ error' = IF g = generation THEN TRUE ELSE error
  /\ Finish(g)
  /\ UNCHANGED <<recordVars, workerVars, generation, cursor, known, shown, gap>>

\* An answer to a load of an earlier visit is dropped.
Dropped(g) ==
  /\ loadAt[g] \in {"status", "asked", "answered"} /\ g # generation
  /\ Finish(g)
  /\ UNCHANGED <<recordVars, workerVars, pageVars>>
-----------------------------------------------------------------------------
Worker == WorkerRuns \/ WorkerStarted \/ WorkerReports \/ WorkerSettles \/ WorkerCloses
Answer(g) ==
  \/ EventsChecked(g) \/ EventsRead(g)
  \/ PageArrives(g) \/ ExpiredArrives(g) \/ LoadRefused(g) \/ Dropped(g)

Next ==
  \/ Worker \/ Evicted \/ Tick \/ Retry \/ Reopen
  \/ \E g \in Generations : StatusAnswered(g) \/ Missing(g) \/ Answer(g) \/ LoadFails(g)

Spec == Init /\ [][Next]_vars

\* The worker thread, the timer and the server go on; a request that is repeated
\* does not fail for ever.
Fairness ==
  /\ WF_vars(Worker) /\ WF_vars(Tick)
  /\ \A g \in Generations : SF_vars(StatusAnswered(g) \/ Missing(g)) /\ WF_vars(Answer(g))
FairSpec == Spec /\ Fairness
-----------------------------------------------------------------------------
LoadState == {"none", "status", "asked", "checked", "answered", "failed"}

\* The types of the variables; the history keeps to its limit.
TypeOK ==
  /\ kind \in Kinds
  /\ status \in {"queued", "running"} \union Terminal
  /\ events \in Seq(Nat) /\ Len(events) \in 1..EventLimit
  /\ nextCursor \in Nat /\ nextCursor >= 2 /\ registered \in BOOLEAN
  /\ worker \in {"submitted", "starting", "working", "closing", "done"} /\ closing \in 0..4
  /\ generation \in Generations /\ cursor \in Nat
  /\ known \in {"", "queued", "running"} \union PageTerminal
  /\ shown \subseteq Nat /\ gap \in BOOLEAN /\ error \in BOOLEAN
  /\ loadAt \in [Generations -> LoadState] /\ asked \in [Generations -> Nat]
  /\ again \in [Generations -> BOOLEAN]
  /\ reply \in [Generations -> [expired : BOOLEAN, cursors : SUBSET Nat, next : Nat]]

\* The retained events are the newest ones, without a hole: append_event.
LogWindow ==
  /\ Len(events) = (IF Latest < EventLimit THEN Latest ELSE EventLimit)
  /\ \A i \in 1..Len(events) : events[i] = Latest - Len(events) + i

\* What the page's list lacks among the events up to its cursor, the newest DisplayLimit
\* of them, has expired, and the page says so: no answer, however late, makes it skip an
\* event the backend still has.
GapsShown ==
  \A c \in 1..cursor : c > cursor - DisplayLimit /\ c \notin shown => gap /\ c < Oldest

\* No request is refused because its cursor is ahead of the record: the page asks only for
\* what it was told to ask for, and the history does not shrink at its new end.
NeverAhead == \A g \in Generations : loadAt[g] # "failed"

\* During one visit the page's cursor never goes back, neither on a 410 nor on a late page.
CursorForward == [][generation' = generation => cursor' >= cursor]_vars

\* The page learns that the run is over, or that its record is gone, and its timer rests.
PageSettles == <>[](known \in PageTerminal)

\* The page shows the last event of a run that is over, unless the record is gone:
\* the timeline includes the completed lifecycle event.
FinalShown == worker = "done" ~> (Latest \in shown \/ ~registered)
=============================================================================
