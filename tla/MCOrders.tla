------------------------------- MODULE MCOrders -------------------------------
(* Instances of Orders for TLC.  Coroutine slots are interchangeable, and  *)
(* so are orders: no action or property tells two of them apart.           *)
EXTENDS Orders, TLC

Symmetry == Permutations(Procs) \union Permutations(OrderIds)
===============================================================================
