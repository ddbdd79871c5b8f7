--------------------------- MODULE MCEndpointRouting ---------------------------
(***************************************************************************)
(* Finite instances of EndpointRouting for TLC: the sets of model values   *)
(* are given in the .cfg files.                                            *)
(***************************************************************************)
EXTENDS EndpointRouting, TLC

\* The identities are interchangeable; only for runs without liveness.
Symmetry ==
    Permutations(Conns) \cup Permutations(Handles) \cup Permutations(Entities)
      \cup Permutations(Endpoints) \cup Permutations(Hosts)
=============================================================================
