------------------------------ MODULE MCLinks ------------------------------
(***************************************************************************)
(* Links for TLC: the request set bounds the run (each request is served   *)
(* once), so no state constraint is needed.                                *)
(***************************************************************************)
EXTENDS Links, TLC

\* Requests are interchangeable, and so are slugs and targets.
Symmetry == Permutations(Request) \cup Permutations(Slug) \cup Permutations(Target)
=============================================================================
