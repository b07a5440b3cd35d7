--------------------------- MODULE MCAuthSession ---------------------------
(***************************************************************************)
(* Values for TLC.  Requests and devices are interchangeable, so states    *)
(* that differ by a permutation of them are checked once.                  *)
(***************************************************************************)
EXTENDS AuthSession, TLC

Symmetry == Permutations(Reqs) \cup Permutations(Devices)
=============================================================================
