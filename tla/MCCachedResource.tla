-------------------------- MODULE MCCachedResource --------------------------
(* CachedResource for TLC. *)
EXTENDS CachedResource, TLC

Symmetric == Permutations(Clients)
=============================================================================
