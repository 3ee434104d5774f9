----------------------------- MODULE MCStampPath -----------------------------
(* Stamp queue and vetting together; one server is not configured.         *)
EXTENDS StampPath, TLC

\* The configured servers are a set of their own, so only ids are symmetric.
Symmetry == Permutations(Ids)
=============================================================================
