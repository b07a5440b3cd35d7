----------------------------- MODULE MCAccount -----------------------------
(***************************************************************************)
(* Values for TLC.  Requests and devices are interchangeable.              *)
(***************************************************************************)
EXTENDS Account, TLC

Symmetry == Permutations(Reqs) \cup Permutations(Devices)
=============================================================================
