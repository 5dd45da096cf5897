--------------------------- MODULE MCProfileStore ---------------------------
\* Model-checking instances of ProfileStore: two processes with one request thread
\* each, or one process with two.
EXTENDS ProfileStore, TLC

CONSTANTS p1, p2, t1, t2, a, b, n1, n2, d1

TwoProcesses == (t1 :> p1) @@ (t2 :> p2)
OneProcess == (t1 :> p1) @@ (t2 :> p1)
\* Names, profiles and the two processes, each with its thread, are interchangeable.
Exchange == {(p1 :> p1) @@ (p2 :> p2) @@ (t1 :> t1) @@ (t2 :> t2),
             (p1 :> p2) @@ (p2 :> p1) @@ (t1 :> t2) @@ (t2 :> t1)}
Symmetric == {f @@ g @@ h : f \in Permutations(Names), g \in Permutations(Profiles), h \in Exchange}
=============================================================================
