----------------------------- MODULE MCOtaAgent -----------------------------
(* A small instance of OtaAgent: an update, an update back to the factory     *)
(* image and a trigger with a broken manifest, any two of them in any order,  *)
(* and two process deaths or power losses.                                    *)
EXTENDS OtaAgent, TLC

CONSTANTS f, a, t1, t2, t3

MCImages == {f, a}
MCTriggers == {t1, t2, t3}
MCImageOf == (t1 :> a) @@ (t2 :> f) @@ (t3 :> BadManifest)
=============================================================================
