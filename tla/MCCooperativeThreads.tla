------------------------- MODULE MCCooperativeThreads -------------------------
(* The stacks are interchangeable: only which thread has which one matters. *)
EXTENDS CooperativeThreads, TLC

StackSymmetry == Permutations(Stacks)
=============================================================================
