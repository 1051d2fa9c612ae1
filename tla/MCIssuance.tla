------------------------------ MODULE MCIssuance ------------------------------
(* Issuance for TLC: flows, upstream orders and domains are               *)
(* interchangeable.                                                        *)
EXTENDS Issuance, TLC

Symmetry == Permutations(Flows) \union Permutations(UpOrders) \union Permutations(Domains)
===============================================================================
