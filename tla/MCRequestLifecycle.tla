------------------------- MODULE MCRequestLifecycle -------------------------
(* Instances of RequestLifecycle for TLC.                                  *)
EXTENDS RequestLifecycle, TLC

\* Requests, Context objects and header names are interchangeable.
Symmetry == Permutations(Req) \cup Permutations(Ctx) \cup Permutations(Hdr)
=============================================================================
