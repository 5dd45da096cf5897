--------------------------- MODULE MCRunRegistry ---------------------------
(* RunRegistry with a handful of requests on two models.                    *)
EXTENDS RunRegistry

CONSTANTS m1, m2, m3, c1, t1, p, x, y

\* Two starts of one profile and a direct one.
ProfileOfMics == m1 :> p @@ m2 :> p @@ m3 :> None
ModelOfMics == m1 :> x @@ m2 :> x @@ m3 :> y @@ c1 :> x @@ t1 :> x
=============================================================================
