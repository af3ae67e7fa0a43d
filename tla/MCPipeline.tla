---------------------------- MODULE MCPipeline ----------------------------
(***************************************************************************)
(* Pipeline for TLC.  Tasks, messages, workers and operators are only      *)
(* compared for equality, so permuting them is a symmetry of every safety  *)
(* property.                                                               *)
(***************************************************************************)
EXTENDS Pipeline, TLC

Symmetry ==
  Permutations(Tasks) \cup Permutations(Messages)
    \cup Permutations(Workers) \cup Permutations(Operators)
==========================================================================
