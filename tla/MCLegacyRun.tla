---------------------------- MODULE MCLegacyRun -----------------------------
(* Plans for LegacyRun. *)
EXTENDS LegacyRun, TLC
CONSTANTS t1, t2
TwoDeps == (t1 :> {}) @@ (t2 :> {})
ChainDeps == (t1 :> {}) @@ (t2 :> {t1})
TwoPlans == {TwoDeps, ChainDeps}
ApartPlan == {TwoDeps}
OnePlan == {t1 :> {}}
OnePosition == t1 :> 1
TwoPosition == (t1 :> 1) @@ (t2 :> 2)
=============================================================================
