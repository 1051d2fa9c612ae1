----------------------------- MODULE MCRevocation -----------------------------
(* Instances of Revocation for TLC.  Orders, accounts, certificates and    *)
(* requests of a kind are interchangeable.                                 *)
EXTENDS Revocation, TLC

Symmetry == Permutations(OrderIds) \union Permutations(Accounts) \union Permutations(Certs)
                \union Permutations(Procs) \union Permutations(Revokers)
===============================================================================
