------------------------------ MODULE MCPipeline -----------------------------
(***************************************************************************)
(* Small instances of the chain-write pipeline for TLC.                    *)
(***************************************************************************)
EXTENDS Pipeline, TLC

\* Processes and operations are interchangeable.
ProcSymmetry == Permutations(Procs)
Symmetry == Permutations(Procs) \cup Permutations(Ops)
=============================================================================
