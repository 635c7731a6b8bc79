--------------------------- MODULE MCTrackExpiry ---------------------------
(* TrackExpiry for TLC. *)
EXTENDS TrackExpiry, TLC

Symmetric == Permutations(Clients) \cup Permutations(Tracks)
=============================================================================
