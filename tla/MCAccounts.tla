------------------------------ MODULE MCAccounts ------------------------------
(* Instances of Accounts for TLC.  Accounts, keys and requests are each    *)
(* interchangeable.                                                        *)
EXTENDS Accounts, TLC

Symmetry == Permutations(AccountIds) \union Permutations(Keys) \union Permutations(Procs)
===============================================================================
