--------------------------- MODULE MCLegacyReview ---------------------------
(* The categories of LegacyReview, and what their reviewers report. *)
EXTENDS LegacyReview, TLC
CONSTANTS c, d
TwoCategories == <<c, d>>
TwoKinds == (c :> {"minor", "important"}) @@ (d :> {"minor", "outside"})
=============================================================================
