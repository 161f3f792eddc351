----------------------------- MODULE MCPtyCore -----------------------------
(* Instances of PtyCore for TLC; processes and Sessions are interchangeable. *)
EXTENDS PtyCoreHome, TLC

Symmetry == Permutations(Cores) \cup Permutations(Sessions)
=============================================================================
