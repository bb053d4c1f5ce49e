------------------------------- MODULE MCApp -------------------------------
(* Small instances of App, with its invariant and its refinement. *)
EXTENDS AppInv, AppGate, TLC

\* Handlers differ by nothing but their names, and so do deployments and apps.
MCSymmetry == Permutations(Handlers) \cup Permutations(Deployments)
                 \cup Permutations(Apps) \cup Permutations(ShortIds)

=============================================================================
