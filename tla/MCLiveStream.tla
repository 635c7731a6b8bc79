---------------------------- MODULE MCLiveStream ----------------------------
(* LiveStream on small instances. *)
EXTENDS LiveStream, TLC

Symmetry == Permutations(Clients)
=============================================================================
