---------------------------- MODULE MCDigestRuns ----------------------------
(* Instances of DigestRuns for TLC. *)
EXTENDS DigestRuns, TLC

CONSTANTS r1, s1, d1, d2, x1, x2

Symmetry == Permutations(Digest) \cup Permutations(ResultId)
=============================================================================
