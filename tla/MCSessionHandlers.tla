------------------------- MODULE MCSessionHandlers -------------------------
(***************************************************************************)
(* SessionHandlers with handlers and links that are alike.                 *)
(***************************************************************************)
EXTENDS SessionHandlers, TLC

Symmetry == Permutations(Handlers) \cup Permutations(Relays)
=============================================================================
