----------------------------- MODULE MCUpstream -----------------------------
(* Upstream for TLC.  Temporal properties are checked, so no symmetry.     *)
EXTENDS Upstream, TLC
=============================================================================
