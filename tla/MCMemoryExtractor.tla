------------------------- MODULE MCMemoryExtractor -------------------------
(***************************************************************************)
(* Model-checking module of MemoryExtractor: short messages of the user and *)
(* the agent and one that exhausts the budget of a batch.                   *)
(***************************************************************************)
EXTENDS MemoryExtractor

MCKinds == {[role |-> "user", size |-> 1], [role |-> "assistant", size |-> 20]}

=============================================================================
