----------------------------- MODULE MCMatViews -----------------------------
(* Instances of MatViews for TLC: jobs of one subset, so of one lock and one plan. *)
EXTENDS MatViews, TLC

CONSTANTS a1, a2, a3, k1, k2, cold

Cold == [j \in Job |-> cold]
FirstOther == [a \in Audit |-> IF a = a1 THEN k1 ELSE k2]
CountingPlan == <<"topSearchTerms", "topUserVisitsAllTime">>
WindowPlan == <<"topUserVisitsLast14">>

Symmetry == Permutations(Job) \cup Permutations(Audit \ {a1})
=============================================================================
