--------------------------- MODULE MCAstraPlayer ---------------------------
(* AstraPlayer for TLC. *)
EXTENDS AstraPlayer, TLC

Symmetric == Permutations(Clients)
=============================================================================
