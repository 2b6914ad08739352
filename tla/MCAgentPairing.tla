--------------------------- MODULE MCAgentPairing ---------------------------
(***************************************************************************)
(* A small instance of AgentPairing.                                       *)
(***************************************************************************)
EXTENDS AgentPairing, TLC

\* Handlers are alike, and so are codes.
Symmetry == Permutations(Handlers) \union Permutations(Codes)
=============================================================================
