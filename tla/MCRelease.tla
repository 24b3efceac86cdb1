------------------------------ MODULE MCRelease ------------------------------
(* An instance of Release for TLC: two files to apply, of which the first  *)
(* breaks the old release, and two posts.                                  *)
EXTENDS Release, TLC

CONSTANTS j1, j2, p1, p2

Symmetry == Permutations({j1, j2}) \cup Permutations({p1, p2})
=============================================================================
