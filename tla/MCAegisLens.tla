------------------------------ MODULE MCAegisLens ------------------------------
(* A host that makes a few calls; which call is which does not matter.         *)
EXTENDS AegisLens, TLC

HostCalls == Permutations(Call)
===============================================================================
