---------------------------- MODULE MCBlockList ----------------------------
(***************************************************************************)
(* Instances of BlockList for TLC: two hashes, so that a batch has a next  *)
(* one, and two requests under way at a time.                              *)
(***************************************************************************)
EXTENDS BlockList, TLC

CONSTANTS p1, p2, h1, h2

\* Requests are interchangeable, and so are hashes.
Symmetry == Permutations({p1, p2}) \cup Permutations({h1, h2})
=============================================================================
