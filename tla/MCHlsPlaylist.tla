--------------------------- MODULE MCHlsPlaylist ---------------------------
(* HlsPlaylist for TLC. *)
EXTENDS HlsPlaylist, TLC

Symmetric == Permutations(Clients)
=============================================================================
