------------------------------ MODULE Forwarding ------------------------------
(***************************************************************************)
(* Delivery of a session's transcripts to its destination: SessionWorkflow *)
(* of workflows/transcribe_match_forward/api.py, which answers every       *)
(* transcript before it takes the next, the bounded retries of             *)
(* http_output.py and mqtt_output.py, and the clip's single delivery.      *)
(*                                                                         *)
(* The network may refuse a connection, lose a request or its answer, and  *)
(* hand over a request long after the sender gave up on it.                *)
(***************************************************************************)
EXTENDS Integers, Sequences, FiniteSets

CONSTANTS
    MaxChunks,      \* bound: transcripts of a session
    MaxAttempts,    \* config.max_attempts
    Addresses,      \* addresses the destination's name resolves to
    Vias            \* destinations: "http", "mqtt0" (QoS 0) or "mqtt" (QoS 1 and 2)

ASSUME ForwardingAssumption ==
    /\ MaxChunks \in Nat \ {0} /\ MaxAttempts \in Nat \ {0} /\ Addresses \in Nat \ {0}
    /\ Vias \subseteq {"http", "mqtt0", "mqtt"}

VARIABLES
    kind, via,      \* "live" or "clip", and its destination
    results,        \* session.result_queue, everything ever put in it
    at,             \* how many of them the consumer has taken
    stop,           \* a stop() call: "idle", "session", "waits", "returned" or "timed_out"
    pc,             \* the consumer: "take", "send", "wait", "finish" or "done"
    chunk, attempt, address,    \* chunk_ordinal, the attempt and the address it is trying
    reply,          \* what the receiver answered to the request that is waited for
    flying,         \* requests on the network: <<chunk, attempt, address>>
    received,       \* chunks the receiver accepted, in the order it first did
    out             \* output_queue: [type, chunk]

session == <<results, stop>>
sender == <<chunk, attempt, address, reply, flying>>
deliveryVars == <<kind, via, session, at, pc, sender, received, out>>

Chunks == 1 .. MaxChunks
Event(type, k) == [type |-> type, chunk |-> k]
Transcripts(queue) == Cardinality({i \in DOMAIN queue : queue[i] = "transcript"})
Ended(queue) == \E i \in DOMAIN queue : queue[i] = "completed"
\* One request of the record on the network.
Copy == <<chunk, attempt, address>>

\* A clip has its transcript, and no queue to take it from.
DeliveryInit ==
    /\ kind \in {"live", "clip"} /\ via \in Vias
    /\ results = IF kind = "live" THEN <<>> ELSE <<"transcript", "completed">>
    /\ at = 0 /\ stop = "idle" /\ pc = "take"
    /\ chunk = 0 /\ attempt = 0 /\ address = 0 /\ reply = "none"
    /\ flying = {} /\ received = <<>> /\ out = <<>>

(***************************************************************************)
(* The session, and stop().                                                *)
(***************************************************************************)
\* A session that stop() gave up on may still speak after its "completed" was put for it.
SessionEmits ==
    /\ kind = "live" /\ Transcripts(results) < MaxChunks
    /\ Ended(results) => \E i \in DOMAIN results : results[i] = "error"
    /\ results' = Append(results, "transcript")
    /\ UNCHANGED <<kind, via, stop, at, pc, sender, received, out>>

SessionEnds ==
    /\ kind = "live" /\ ~Ended(results)
    /\ results' = Append(results, "completed")
    /\ UNCHANGED <<kind, via, stop, at, pc, sender, received, out>>

StopCall ==
    /\ kind = "live" /\ stop = "idle"
    /\ stop' = "session"
    /\ UNCHANGED <<kind, via, results, at, pc, sender, received, out>>

\* session.stop() returned, or raised: then the end is put in the session's queue for it.
StopSession ==
    /\ stop = "session" /\ stop' = "waits"
    /\ \/ Ended(results) /\ UNCHANGED results
       \/ results' = results \o <<"error", "completed">>
    /\ UNCHANGED <<kind, via, at, pc, sender, received, out>>

\* _finished.wait(timeout): the deliveries left to make may take longer.
StopWaited ==
    /\ stop = "waits" /\ stop' = IF pc = "done" THEN "returned" ELSE "timed_out"
    /\ UNCHANGED <<kind, via, results, at, pc, sender, received, out>>

(***************************************************************************)
(* The consumer.                                                           *)
(***************************************************************************)
Taking == pc = "take" /\ at < Len(results)
Begin == attempt' = 1 /\ address' = 1 /\ pc' = "send"

\* A live transcript is put out before it is matched and its snapshot before it is sent;
\* one that cannot be matched is not sent.
TakeTranscript ==
    /\ Taking /\ kind = "live" /\ results[at + 1] = "transcript"
    /\ at' = at + 1 /\ chunk' = chunk + 1
    /\ \/ /\ out' = out \o <<Event("transcript", chunk'), Event("match_results", chunk')>>
          /\ Begin
       \/ /\ out' = out \o <<Event("transcript", chunk'), Event("matching_error", chunk')>>
          /\ UNCHANGED <<pc, attempt, address>>
    /\ UNCHANGED <<kind, via, session, reply, flying, received>>

\* A clip that cannot be matched fails; an MQTT destination is for microphones only.
TakeClip ==
    /\ Taking /\ kind = "clip"
    /\ at' = Len(results) /\ chunk' = 1
    /\ \/ via = "http" /\ Begin /\ UNCHANGED out
       \/ /\ pc' = "done" /\ UNCHANGED <<attempt, address>>
          /\ \/ out' = <<Event("workflow_error", 1), Event("completed", 1)>>
             \/ /\ via # "http"
                /\ out' = <<Event("transcript", 1), Event("match_results", 1), Event("completed", 1)>>
    /\ UNCHANGED <<kind, via, session, reply, flying, received>>

TakeError ==
    /\ Taking /\ results[at + 1] = "error"
    /\ at' = at + 1 /\ out' = Append(out, Event("workflow_error", chunk))
    /\ UNCHANGED <<kind, via, session, pc, sender, received>>

TakeCompleted ==
    /\ Taking /\ kind = "live" /\ results[at + 1] = "completed"
    /\ at' = at + 1 /\ pc' = "finish"
    /\ UNCHANGED <<kind, via, session, sender, received, out>>

\* The last snapshot, on_finished (which may raise), and only then the completed event.
Finish ==
    /\ pc = "finish" /\ pc' = "done"
    /\ \E raised \in {<<>>, <<Event("workflow_error", chunk)>>} :
         out' = out \o <<Event("match_results", chunk)>> \o raised \o <<Event("completed", chunk)>>
    /\ UNCHANGED <<kind, via, session, at, sender, received>>

(***************************************************************************)
(* forward(record).                                                        *)
(***************************************************************************)
\* The request leaves; at QoS 0 that is all the sender waits for.
Send ==
    /\ pc = "send" /\ pc' = "wait"
    /\ flying' = flying \cup {Copy}
    /\ reply' = IF via = "mqtt0" THEN "ok" ELSE "none"
    /\ UNCHANGED <<kind, via, session, at, chunk, attempt, address, received, out>>

\* The outcome of the record: a live session goes on, a clip is over.
Answered(type) ==
    /\ reply' = "none"
    /\ IF kind = "live"
       THEN out' = Append(out, Event(type, chunk)) /\ pc' = "take"
       ELSE /\ out' = <<Event("transcript", 1), Event("match_results", 1), Event(type, 1),
                        Event("completed", 1)>>
            /\ pc' = "done"

\* Mutant: attempts are not counted.
MayRetry_Forever(result) == result = "transient"
\* A receiver that asks for more patience than max_retry_after_seconds is not asked again.
MayRetry(result) == result = "transient" /\ attempt < MaxAttempts

\* Mutant: a retry does not count.
NextAttempt_Same == attempt
NextAttempt == attempt + 1

\* Mutant: a request that failed counts as delivered.
Delivered_Sent(result) == result \in {"ok", "transient"}
\* 2xx, CONNACK and PUBACK
Delivered(result) == result = "ok"

\* Mutant: the sender tells nobody that it gave up.
GivesUp_Silent == reply' = "none" /\ pc' = "take" /\ UNCHANGED out
\* ForwardingError: a permanent failure, the last attempt, or a deferred delivery.
GivesUp == Answered("forwarding_error")

\* What one attempt ends with; before the next the sender sleeps.
Concludes(result) ==
    /\ IF Delivered(result) THEN Answered("forwarded") /\ UNCHANGED attempt
       ELSE IF MayRetry(result)
       THEN pc' = "send" /\ attempt' = NextAttempt /\ reply' = "none" /\ UNCHANGED out
       ELSE GivesUp /\ UNCHANGED attempt
    /\ address' = 1
    /\ UNCHANGED <<kind, via, session, at, chunk, flying, received>>

NextAddress == via = "http" /\ address < Addresses

\* The request does not leave: no connection, a name that does not resolve (transient), a TLS
\* failure, a blocked address, a CONNACK that refuses (permanent).
Refused ==
    /\ pc = "send"
    /\ \/ Concludes("permanent")
       \/ ~NextAddress /\ Concludes("transient")

\* _safe_request tries the next address when one fails, before or after the request left.
OtherAddress ==
    /\ pc \in {"send", "wait"} /\ reply = "none" /\ NextAddress
    /\ address' = address + 1 /\ pc' = "send"
    /\ UNCHANGED <<kind, via, session, at, chunk, attempt, reply, flying, received, out>>

Replied == pc = "wait" /\ reply # "none" /\ Concludes(reply)
\* The attempt's timeout, or a broken connection; an answer on its way is lost.
TimesOut == pc = "wait" /\ via # "mqtt0" /\ ~NextAddress /\ Concludes("transient")

(***************************************************************************)
(* The receiver and the network.                                           *)
(***************************************************************************)
Answer(copy, result) ==
    reply' = IF pc = "wait" /\ copy = Copy /\ reply = "none" THEN result ELSE reply

Accept(copy) ==
    /\ copy \in flying /\ flying' = flying \ {copy}
    /\ received' = IF \E i \in DOMAIN received : received[i] = copy[1] THEN received
                    ELSE Append(received, copy[1])
    /\ Answer(copy, "ok")
    /\ UNCHANGED <<kind, via, session, at, pc, chunk, attempt, address, out>>

\* 3xx and 4xx, 429 and 5xx, or a Retry-After beyond the limit; a broker answers with silence.
Reject(copy) ==
    /\ copy \in flying /\ flying' = flying \ {copy}
    /\ \E result \in IF via = "http" THEN {"permanent", "transient", "deferred"} ELSE {"none"} :
         Answer(copy, result)
    /\ UNCHANGED <<kind, via, session, at, pc, chunk, attempt, address, received, out>>

ConsumerStep ==
    \/ TakeTranscript \/ TakeClip \/ TakeError \/ TakeCompleted \/ Finish
    \/ Send \/ Refused \/ OtherAddress \/ Replied \/ TimesOut

DeliveryNext ==
    \/ SessionEmits \/ SessionEnds \/ StopCall \/ StopSession \/ StopWaited
    \/ ConsumerStep
    \/ \E copy \in flying : Accept(copy) \/ Reject(copy)

DeliverySpec == DeliveryInit /\ [][DeliveryNext]_deliveryVars

\* The consumer's thread runs: connections and answers are waited for with a timeout, so no
\* fairness is asked of the network, the receiver or the session.
FairDelivery == DeliverySpec /\ WF_deliveryVars(ConsumerStep)

(***************************************************************************)
(* What the workflow promises.                                             *)
(***************************************************************************)
\* Every variable stays in its set; no attempt beyond max_attempts is made.
DeliveryTypeOK ==
    /\ kind \in {"live", "clip"} /\ via \in Vias
    /\ results \in Seq({"transcript", "error", "completed"}) /\ at \in 0 .. Len(results)
    /\ stop \in {"idle", "session", "waits", "returned", "timed_out"}
    /\ pc \in {"take", "send", "wait", "finish", "done"}
    /\ chunk \in 0 .. MaxChunks /\ attempt \in 0 .. MaxAttempts /\ address \in 0 .. Addresses
    /\ reply \in {"none", "ok", "permanent", "transient", "deferred"}
    /\ flying \subseteq Chunks \X (1 .. MaxAttempts) \X (1 .. Addresses)
    /\ received \in Seq(Chunks)
    /\ out \in Seq([type : {"transcript", "match_results", "matching_error", "forwarded",
                            "forwarding_error", "workflow_error", "completed"},
                    chunk : 0 .. MaxChunks])

Outcomes(k) ==
    {i \in DOMAIN out : out[i].chunk = k
                        /\ out[i].type \in {"forwarded", "forwarding_error", "matching_error"}}
Before(i) == SubSeq(results, 1, i)
Told == \* transcripts put before the session's end
    IF Ended(results)
    THEN Transcripts(Before(CHOOSE i \in DOMAIN results :
                              results[i] = "completed" /\ ~Ended(Before(i - 1))))
    ELSE Transcripts(results)

\* A live session's transcripts are answered in their order, each with exactly one outcome,
\* and the completed event is the last and only one, whatever the receiver does, although
\* stop() gives up waiting or ends the session itself while deliveries are under way.
EveryChunkAnswered ==
    /\ \A i, j \in DOMAIN out : i < j => out[i].chunk <= out[j].chunk /\ out[i].type # "completed"
    /\ \A k \in Chunks : Cardinality(Outcomes(k)) <= 1
    /\ kind = "live" /\ pc = "done" =>
         /\ out[Len(out)].type = "completed"
         /\ \A k \in 1 .. Told : Outcomes(k) # {}

Forwarded(k) == \E i \in DOMAIN out : out[i] = Event("forwarded", k)

\* What is reported delivered the receiver has (a QoS 0 publication only left), and got it
\* before any later chunk: late copies of a request can only be duplicates or follow a failure.
DeliveredInOrder ==
    via # "mqtt0" =>
      \A k \in Chunks : Forwarded(k) =>
        \E i \in DOMAIN received : received[i] = k /\ \A j \in 1 .. i : received[j] <= k

\* A session that ended is followed by the end of its workflow, after a bounded number of
\* attempts for each transcript that is left.
WorkflowEnds == Ended(results) ~> pc = "done"
=============================================================================
