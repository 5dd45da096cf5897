------------------------------ MODULE MCMicRun ------------------------------
(* MicRun on small instances: a run with one or two stop requests, up to     *)
(* one restart, and delays that reach their cap with the first failed        *)
(* reopening.                                                                *)
EXTENDS MicRun
=============================================================================
