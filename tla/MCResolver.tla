----------------------------- MODULE MCResolver -----------------------------
(* Resolver for TLC. *)
EXTENDS Resolver, TLC

Symmetric ==
  Permutations(Requests) \cup Permutations(Hosts \ StaticHosts)
=============================================================================
