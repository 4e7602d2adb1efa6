------------------------- MODULE MCExecutionEngine --------------------------
(***************************************************************************)
(* Instances of ExecutionEngine for TLC.                                   *)
(***************************************************************************)
EXTENDS ExecutionEngine, TLC

\* Every call is about the one proposal: ids share nothing.
OneId == [c \in Calls |-> CHOOSE i \in Ids : TRUE]

Symmetry == Permutations(Executes) \cup Permutations(Reconciles)
=============================================================================
