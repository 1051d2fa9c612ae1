------------------------------- MODULE MCHttp01 -------------------------------
(* The instance of Http01 for TLC: an address of each family that may be   *)
(* contacted and one of each that may not (see Http01.cfg).                *)
EXTENDS Http01
===============================================================================
