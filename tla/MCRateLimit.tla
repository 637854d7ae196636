---------------------------- MODULE MCRateLimit ----------------------------
(***************************************************************************)
(* RateLimit for TLC.                                                      *)
(***************************************************************************)
EXTENDS RateLimit, TLC

\* Requests are interchangeable, and so are clients.
Symmetry == Permutations(Request) \cup Permutations(Bucket)

\* What the limiter is stated under.
ASSUME StallAssumption == MaxStall + MaxSkew <= 2 * Window
=============================================================================
