-------------------------------- MODULE MCPipe --------------------------------
(* Instances of Pipe for TLC.                                              *)
EXTENDS Pipe, TLC

SomeEnd == (SUBSET {"r", "w"}) \ {{}}
Symmetry == Permutations(Proc)
===============================================================================
