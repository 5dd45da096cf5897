------------------------------ MODULE Recording ------------------------------
(***************************************************************************)
(* Tuning recordings: the capture session of                               *)
(* features/model_deployment/recording.py and the library of               *)
(* workflows/audio_recording/service.py.  A session has a writer thread, a *)
(* watchdog for the longest duration, a thread that closes the source      *)
(* after an error, and whoever calls stop(); _stop_lock orders those that  *)
(* close the device.  The library keeps one record a recording under its   *)
(* own lock, a WAV file and a manifest on disk, and at most one active id. *)
(***************************************************************************)
EXTENDS Integers, FiniteSets

CONSTANTS
    MaxIds,         \* bound: recordings and uploads; an id (uuid4) is used once
    None,
    MaxFrames,      \* audio blocks that make max_seconds
    Room,           \* blocks the queue holds (64 in the code)
    MaxFaults       \* bound: storage and source errors, slow writers, and restarts

Ids == 1 .. MaxIds
Entries == [status : {"recording", "completed", "failed"}, live : BOOLEAN]
Requests == [op : {"start", "undo", "delete", "import"}, id : Ids]

ASSUME RecordingAssumption ==
    /\ MaxIds \in Nat \ {0} /\ MaxFrames \in Nat \ {0} /\ Room \in Nat \ {0} /\ MaxFaults \in Nat
    /\ None \notin Ids /\ None \notin Entries /\ None \notin Requests
    /\ None \notin {"request", "watchdog", "error", "writer"}

VARIABLES
    s,              \* the AudioRecording of each id (NoSession when nothing refers to it)
    records,        \* RecordingService._records: status and whether it has its session
    active,         \* _active_id
    svc,            \* [op, id] of a request inside the service lock for several steps
    wav, manifest,  \* the two files of a recording
    used, gone,     \* ids given out; ids whose deletion was answered
    faults

library == <<records, active, svc>>
files == <<wav, manifest>>
past == <<used, gone>>
vars == <<s, library, files, past, faults>>

Fresh == Cardinality(used) + 1
Closers == {"request", "watchdog", "error"}

\* status and whether .error is set; ._accepting and ._stop_requested; the source; the writer
\* thread ("full" and "failing" close the source, "dead" is _done); blocks waiting and
\* written; who holds _stop_lock; where the other threads are in stop() or _stop_source().
Sessions ==
    [status : {"none", "recording", "completed", "failed"}, bad : BOOLEAN,
     accepting : BOOLEAN, asked : BOOLEAN, device : {"none", "open", "closed"},
     writer : {"none", "run", "full", "failing", "dead"},
     queue : 0 .. Room, frames : 0 .. MaxFrames, lock : Closers \cup {"writer", None},
     calls : [Closers -> {"idle", "wants", "waits"}]]
NoSession ==
    [status |-> "none", bad |-> FALSE, accepting |-> FALSE, asked |-> FALSE,
     device |-> "none", writer |-> "none", queue |-> 0, frames |-> 0, lock |-> None,
     calls |-> [c \in Closers |-> "idle"]]
NewSession == [NoSession EXCEPT !.status = "recording", !.accepting = TRUE, !.writer = "run"]

Record(status, live) == [status |-> status, live |-> live]
Terminal(status) == status \in {"completed", "failed"}
Free == svc = None
Fault == faults < MaxFaults /\ faults' = faults + 1

Init ==
    /\ s = [i \in Ids |-> NoSession]
    /\ records = [i \in Ids |-> None] /\ active = None /\ svc = None
    /\ wav = [i \in Ids |-> "none"] /\ manifest = [i \in Ids |-> "none"]
    /\ used = {} /\ gone = {} /\ faults = 0

\* A session lives while its record, its request or one of its threads refers to it.
Held(i) == (records[i] # None /\ records[i].live) \/ (svc # None /\ svc.id = i)
Settled(v) ==
    IF v.writer = "dead" /\ v.lock = None /\ \A c \in Closers : v.calls[c] = "idle"
    THEN NoSession ELSE v
Becomes(i, v) == s' = [s EXCEPT ![i] = IF Held(i) THEN v ELSE Settled(v)]

(***************************************************************************)
(* start: the whole request runs inside the service lock.                  *)
(***************************************************************************)
MayStart == Free /\ active = None

\* The source is made and the writer has opened the file; the device is not open yet.
StartWriter(i) ==
    /\ MayStart /\ i = Fresh
    /\ used' = used \cup {i}
    /\ svc' = [op |-> "start", id |-> i]
    /\ s' = [s EXCEPT ![i] = NewSession]
    /\ wav' = [wav EXCEPT ![i] = "open"]
    /\ UNCHANGED <<records, active, manifest, gone, faults>>

InStart(i) == svc = [op |-> "start", id |-> i]

\* source.start() and the watchdog, then the record and its first manifest.
StartDevice(i) ==
    /\ InStart(i) /\ s[i].device = "none"
    /\ Becomes(i, [s[i] EXCEPT !.device = "open"])
    /\ UNCHANGED <<library, files, past, faults>>

\* source.start() raises: the source and the writer are stopped, the file removed.
StartFails(i) ==
    /\ InStart(i) /\ s[i].device = "none" /\ Fault
    /\ s' = [s EXCEPT ![i] = NoSession]
    /\ wav' = [wav EXCEPT ![i] = "none"] /\ svc' = None
    /\ UNCHANGED <<records, active, manifest, past>>

StartSaves(i) ==
    /\ InStart(i) /\ s[i].device # "none"
    /\ records' = [records EXCEPT ![i] = Record("recording", TRUE)] /\ active' = i
    /\ manifest' = [manifest EXCEPT ![i] = "recording"]
    /\ svc' = None
    /\ UNCHANGED <<s, wav, past, faults>>

\* The manifest cannot be written: the record is dropped and the session stopped, still
\* inside the lock, before the audio is removed.
StartUnsaved(i) ==
    /\ InStart(i) /\ s[i].device # "none" /\ Fault
    /\ svc' = [op |-> "undo", id |-> i]
    /\ Becomes(i, [s[i] EXCEPT !.calls["request"] = "wants"])
    /\ UNCHANGED <<records, active, files, past>>

StartUndone(i) ==
    /\ svc = [op |-> "undo", id |-> i] /\ s[i].calls["request"] = "idle"
    /\ wav' = [wav EXCEPT ![i] = "none"] /\ svc' = None
    /\ s' = [s EXCEPT ![i] = Settled(s[i])]
    /\ UNCHANGED <<records, active, manifest, past, faults>>

(***************************************************************************)
(* The session's threads: they change nothing of the library, nor (but for *)
(* the writer's file) of the disk.                                         *)
(***************************************************************************)
\* _on_error: the first error of a live session stops intake and spawns the closer.
Errored(v) ==
    IF v.status # "recording" \/ v.bad THEN v
    ELSE [v EXCEPT !.bad = TRUE, !.accepting = FALSE, !.calls["error"] = "wants"]

\* _on_audio: a full queue is an error that ends the capture.
Audio(i) ==
    /\ s[i].device = "open" /\ s[i].accepting
    /\ Becomes(i, IF s[i].queue < Room THEN [s[i] EXCEPT !.queue = @ + 1] ELSE Errored(s[i]))
    /\ UNCHANGED <<wav, faults>>

SourceError(i) ==
    /\ s[i].device = "open" /\ Fault
    /\ Becomes(i, Errored(s[i]))
    /\ UNCHANGED wav

\* Closing the device: stop() of a request or the watchdog, _stop_source() of the error
\* thread or the writer; _stop_lock orders them.
Wants(i, c) == IF c = "writer" THEN s[i].writer \in {"full", "failing"} ELSE s[i].calls[c] = "wants"

\* stop() waits for _done and returns as the writer ends.
Waiting(v) == IF v.writer = "dead" THEN "idle" ELSE "waits"
Answered(calls) == [c \in Closers |-> IF calls[c] = "waits" THEN "idle" ELSE calls[c]]

EnterStop(i, c) ==
    /\ Wants(i, c) /\ s[i].lock = None
    /\ Becomes(i, IF c \in {"request", "watchdog"} /\ s[i].status # "recording"
                  THEN [s[i] EXCEPT !.calls[c] = Waiting(s[i])]
                  ELSE [s[i] EXCEPT !.lock = c, !.accepting = FALSE])
    /\ UNCHANGED <<wav, faults>>

\* Mutant: the source is only asked to stop, and _stop_requested set.
SourceStopped_Asked(v) == [v EXCEPT !.asked = TRUE]
\* Mutant: the source is stopped, but the writer is not told.
SourceStopped_Untold(v) == [v EXCEPT !.device = "closed"]
\* source.stop() (the stream is closed even when it raises), then _stop_requested.
SourceStopped(v) == [v EXCEPT !.device = "closed", !.asked = TRUE]

\* The lock is released; the writer goes on or ends, stop() waits for _done.
LeaveStop(i) ==
    /\ s[i].lock # None
    /\ \E raises \in BOOLEAN :
         /\ IF raises THEN Fault ELSE UNCHANGED faults
         /\ LET c == s[i].lock
                v == [SourceStopped(s[i]) EXCEPT !.lock = None, !.bad = @ \/ raises]
            IN Becomes(i, IF c = "writer"
                          THEN [v EXCEPT !.writer = IF @ = "full" THEN "run" ELSE "dead",
                                         !.calls = IF v.writer = "full" THEN @ ELSE Answered(@)]
                          ELSE [v EXCEPT !.calls[c] = IF c = "error" THEN "idle" ELSE Waiting(v)])
    /\ UNCHANGED wav

\* _done.wait(timeout=10) gives up on a slow writer.
StopTimesOut(i, c) ==
    /\ s[i].calls[c] = "waits" /\ Fault
    /\ Becomes(i, [s[i] EXCEPT !.calls[c] = "idle", !.status = "failed", !.bad = TRUE])
    /\ UNCHANGED wav

\* _watch_duration: max_seconds pass and no one has asked to stop.
WatchdogFires(i) ==
    /\ s[i].device # "none" /\ ~s[i].asked /\ s[i].calls["watchdog"] = "idle"
    /\ Becomes(i, [s[i] EXCEPT !.calls["watchdog"] = "wants"])
    /\ UNCHANGED <<wav, faults>>

\* The writer: max_seconds of audio end the recording, each block after that is cut to nothing.
WriterTakes(i) ==
    /\ s[i].writer = "run" /\ s[i].queue > 0
    /\ LET n == IF s[i].frames < MaxFrames THEN s[i].frames + 1 ELSE MaxFrames
       IN Becomes(i, [s[i] EXCEPT !.queue = @ - 1, !.frames = n,
                                  !.writer = IF n = MaxFrames THEN "full" ELSE "run",
                                  !.accepting = @ /\ n < MaxFrames])
    /\ UNCHANGED <<wav, faults>>

Written(i, file) == wav' = [wav EXCEPT ![i] = IF @ = "none" THEN "none" ELSE file]

\* A write fails: the session is failed first, the source closed after.
WriterFails(i) ==
    /\ s[i].writer = "run" /\ s[i].queue > 0 /\ Fault
    /\ Becomes(i, [s[i] EXCEPT !.queue = @ - 1, !.status = "failed", !.bad = TRUE,
                               !.accepting = FALSE, !.writer = "failing"])
    /\ Written(i, "torn")

\* Mutant: the writer ends as soon as it is asked, whatever is queued.
Drained_Asked(v) == v.asked
Drained(v) == v.asked /\ v.queue = 0

\* The header is completed as the with block ends; a file unlinked meanwhile stays so.
WriterEnds(i) ==
    /\ s[i].writer = "run" /\ Drained(s[i])
    /\ Becomes(i, [s[i] EXCEPT !.status = IF s[i].bad THEN "failed" ELSE "completed",
                               !.writer = "dead", !.calls = Answered(@)])
    /\ Written(i, "final")
    /\ UNCHANGED faults

(***************************************************************************)
(* The library.                                                            *)
(***************************************************************************)
Freed(i) == IF active = i THEN None ELSE active

\* _refresh, by any request that looks at the record and by _watch when the session ends.
Refresh(i) ==
    /\ Free /\ records[i] # None /\ records[i].live /\ Terminal(s[i].status)
    /\ active' = Freed(i)
    /\ s' = [s EXCEPT ![i] = Settled(s[i])]
    /\ \/ /\ records' = [records EXCEPT ![i] = Record(s[i].status, FALSE)]
          /\ manifest' = [manifest EXCEPT ![i] = s[i].status]
          /\ UNCHANGED faults
       \/ /\ Fault
          /\ records' = [records EXCEPT ![i] = Record("failed", FALSE)]
          /\ UNCHANGED manifest
    /\ UNCHANGED <<svc, wav, past>>

\* stop(), also what close() does with the active recording.
RequestStop(i) ==
    /\ Free /\ records[i] # None /\ records[i].live /\ s[i].calls["request"] = "idle"
    /\ Becomes(i, [s[i] EXCEPT !.calls["request"] = "wants"])
    /\ UNCHANGED <<library, files, past, faults>>

\* Mutant: a delete keeps a WAV that is still being written.
Unlinked_Live(i) == IF s[i].writer \in {"none", "dead"} THEN "none" ELSE wav[i]
Unlinked(i) == "none"

DeleteAudio(i) ==
    /\ Free /\ records[i] # None /\ ~records[i].live
    /\ wav' = [wav EXCEPT ![i] = Unlinked(i)]
    /\ svc' = [op |-> "delete", id |-> i]
    /\ UNCHANGED <<s, records, active, manifest, past, faults>>

\* The manifest goes last; when that fails the record stays, without its audio.
DeleteManifest(i) ==
    /\ svc = [op |-> "delete", id |-> i] /\ svc' = None
    /\ \/ /\ manifest' = [manifest EXCEPT ![i] = "none"]
          /\ records' = [records EXCEPT ![i] = None]
          /\ gone' = gone \cup {i}
          /\ UNCHANGED faults
       \/ Fault /\ UNCHANGED <<manifest, records, gone>>
    /\ UNCHANGED <<s, active, wav, used>>

\* import_audio: the checked upload is linked to its name, then listed.
ImportLinks(i) ==
    /\ Free /\ i = Fresh /\ used' = used \cup {i}
    /\ wav' = [wav EXCEPT ![i] = "final"] /\ svc' = [op |-> "import", id |-> i]
    /\ UNCHANGED <<s, records, active, manifest, gone, faults>>

ImportSaves(i) ==
    /\ svc = [op |-> "import", id |-> i] /\ svc' = None
    /\ \/ /\ manifest' = [manifest EXCEPT ![i] = "completed"]
          /\ records' = [records EXCEPT ![i] = Record("completed", FALSE)]
          /\ UNCHANGED <<wav, faults>>
       \/ Fault /\ wav' = [wav EXCEPT ![i] = "none"] /\ UNCHANGED <<manifest, records>>
    /\ UNCHANGED <<s, active, past>>

\* _load_saved
Restored(i) == Terminal(manifest[i]) /\ wav[i] # "none"

\* The backend dies and starts again: only the files are left.
Restart ==
    /\ Fault
    /\ records' = [i \in Ids |-> IF Restored(i) THEN Record(manifest[i], FALSE) ELSE None]
    /\ active' = None /\ svc' = None
    /\ wav' = [i \in Ids |-> IF wav[i] = "open" THEN "torn" ELSE wav[i]]
    /\ s' = [i \in Ids |-> NoSession]
    /\ UNCHANGED <<manifest, past>>

StartStep(i) == StartDevice(i) \/ StartFails(i) \/ StartSaves(i) \/ StartUnsaved(i) \/ StartUndone(i)
CloseStep(i) ==
    \/ \E c \in Closers \cup {"writer"} : EnterStop(i, c)
    \/ LeaveStop(i)
    \/ \E c \in {"request", "watchdog"} : StopTimesOut(i, c)
WriterStep(i) == WriterTakes(i) \/ WriterFails(i) \/ WriterEnds(i)
ThreadStep(i) == CloseStep(i) \/ WatchdogFires(i) \/ WriterStep(i)
InSession(step) == step /\ UNCHANGED <<library, manifest, past>>
LibraryStep(i) == DeleteManifest(i) \/ ImportSaves(i)

Next ==
    \/ \E i \in Ids :
         \/ StartWriter(i) \/ StartStep(i)
         \/ InSession(Audio(i)) \/ InSession(SourceError(i)) \/ InSession(ThreadStep(i))
         \/ Refresh(i) \/ RequestStop(i)
         \/ DeleteAudio(i) \/ ImportLinks(i) \/ LibraryStep(i)
    \/ Restart

Spec == Init /\ [][Next]_vars

\* Some thread that has work keeps running: the request that holds the service lock, the
\* closers, the writer, the watchdog's timer; and a refresh, which competes with requests
\* for the service lock, is in the end made.
Progress == \E i \in Ids : StartStep(i) \/ LibraryStep(i) \/ InSession(ThreadStep(i))
FairSpec == Spec /\ WF_vars(Progress) /\ SF_vars(\E i \in Ids : Refresh(i))

(***************************************************************************)
(* What recordings promise.                                                *)
(***************************************************************************)
\* Every variable stays in its set; an active id is one whose record is in the library.
TypeOK ==
    /\ s \in [Ids -> Sessions]
    /\ records \in [Ids -> Entries \cup {None}] /\ svc \in Requests \cup {None}
    /\ active # None => active \in Ids /\ records[active] # None /\ records[active].live
    /\ wav \in [Ids -> {"none", "open", "torn", "final"}]
    /\ manifest \in [Ids -> {"none", "recording", "completed", "failed"}]
    /\ gone \subseteq used /\ used \subseteq Ids /\ faults \in 0 .. MaxFaults

\* An open device belongs to the active recording or to the request that is starting it,
\* or the writer is about to close it: no path of errors, stops and timeouts leaves the
\* microphone open behind a recording that is over.
CaptureOwned ==
    \A i \in Ids : s[i].device = "open" =>
      active = i \/ (svc # None /\ svc.id = i) \/ s[i].writer = "failing"

\* A recording reported completed, in memory or on disk, has all the audio that was accepted
\* in a finished file (or its deletion has begun), and its device is closed.
CompletedMeansWhole ==
    \A i \in Ids :
      s[i].status = "completed" \/ manifest[i] = "completed" =>
        wav[i] \in {"final", "none"} /\ s[i].device # "open" /\ s[i].queue = 0

\* A deletion that was answered leaves nothing behind, then or after a restart, although a
\* writer a stop gave up on may still be at work; and no restart lists an unfinished one.
DeletedStaysGone ==
    /\ \A i \in gone : records[i] = None /\ wav[i] = "none" /\ manifest[i] = "none"
    /\ \A i \in Ids : records[i] # None /\ ~records[i].live => Terminal(records[i].status)

\* Every recording ends and frees the microphone for the next, at the latest when its
\* watchdog fires.
RecordingEnds == active # None ~> active = None

\* "The backend records at most one capture at a time" (.scratch/model-tuning/spec.md:11).
OneCapture == \A i, j \in Ids : s[i].device = "open" /\ s[j].device = "open" => i = j
=============================================================================
