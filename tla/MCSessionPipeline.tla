------------------------- MODULE MCSessionPipeline -------------------------
(* SessionPipeline with two sessions on queues of one or two places.         *)
EXTENDS SessionPipeline, TLC

CONSTANTS a, b

\* a speaks two chunks, so that their order shows, and b one.
TwoAndOne == a :> 1 @@ b :> 0

OneEach == [s \in Sessions |-> 0]
TwoEach == [s \in Sessions |-> 1]
=============================================================================
