----------------------------- MODULE MCPipeline -----------------------------
(***************************************************************************)
(* Model-checking instances of Pipeline: signatures are interchangeable.   *)
(***************************************************************************)
EXTENDS Pipeline, TLC

Symmetry == Permutations(Sigs)
=============================================================================
