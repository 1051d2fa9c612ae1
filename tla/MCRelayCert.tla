------------------------------ MODULE MCRelayCert ------------------------------
(* Instances of RelayCert for TLC. *)
EXTENDS RelayCert
================================================================================
