---------------------------- MODULE MCModelStore ----------------------------
\* Model-checking instances of ModelStore: two local keys, three repositories, and
\* optionally one of the keys built in for one of the repositories.
EXTENDS ModelStore

CONSTANTS k1, k2, r1, r2, r3

NoBuiltins == [k \in Keys |-> Absent]
OneBuiltin == [k \in Keys |-> IF k = k1 THEN r1 ELSE Absent]
\* k1 is converted and downloaded; k2 is converted from one repository, downloaded
\* from another, and asked for k1's.
FiveRequests ==
    {<<k1, r1, TRUE>>, <<k1, r1, FALSE>>, <<k2, r2, TRUE>>, <<k2, r3, FALSE>>, <<k2, r1, TRUE>>}
=============================================================================
