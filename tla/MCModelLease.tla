---------------------------- MODULE MCModelLease ----------------------------
(* ModelLease with an operation of each kind, all of one configuration.     *)
EXTENDS ModelLease, TLC

CONSTANTS c1, m1, i1, p1, k1

MixedOps == {c1, m1, i1, p1}
MixedKey == [o \in MixedOps |-> k1]
MixedKind == c1 :> "clip" @@ m1 :> "mic" @@ i1 :> "isolated" @@ p1 :> "process"
=============================================================================
