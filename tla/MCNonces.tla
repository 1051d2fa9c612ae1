------------------------------- MODULE MCNonces -------------------------------
(* Instances of Nonces for TLC.  Values and requests are interchangeable.  *)
EXTENDS Nonces, TLC

Symmetry == Permutations(Values) \union Permutations(Procs)
===============================================================================
