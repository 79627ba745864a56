------------------------------ MODULE MCQueue ------------------------------
(***************************************************************************)
(* Instances of Queue for TLC. Nothing tells one item from another, and no *)
(* property checked here is a liveness property.                           *)
(***************************************************************************)
EXTENDS Queue, TLC

ItemSymmetry == Permutations(Items)

=============================================================================
