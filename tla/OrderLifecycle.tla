---------------------------- MODULE OrderLifecycle ----------------------------
(***************************************************************************)
(* What the relay promises a client about one family of orders: the order  *)
(* walks forward through RFC 8555's states, it is issued at most once, and *)
(* its certificate appears in the step that makes it valid.  The relay's   *)
(* single status "processing" stands for two different promises, so the    *)
(* abstract order names them apart: "validating" (the challenge is being   *)
(* checked) and "issuing" (the upstream CA is being asked).                *)
(*                                                                         *)
(* A client that acknowledges an open challenge a second time forfeits the *)
(* promise for that order, and for that order only.                        *)
(*                                                                         *)
(* Orders (the model of the routes, the worker and the start-up sweep) is  *)
(* shown to implement this specification.                                  *)
(***************************************************************************)
EXTENDS Naturals

CONSTANTS OrderIds          \* the orders a client may create

VARIABLES phase,            \* the promised state of each order
          cert              \* the certificate number of each order, 0 if none

lifecycleVars == <<phase, cert>>

Phases == {"absent", "pending", "validating", "ready", "issuing", "valid", "invalid",
           "forfeited"}

LifecycleInit ==
    /\ phase = [o \in OrderIds |-> "absent"]
    /\ cert = [o \in OrderIds |-> 0]

(* Every step that leaves the certificate alone. *)
Forward == [ absent     |-> {"pending"},
             pending    |-> {"validating"},
             validating |-> {"ready", "invalid"},
             ready      |-> {"issuing"},
             issuing    |-> {"invalid"},
             valid      |-> {},
             invalid    |-> {},
             forfeited  |-> {} ]

Advance(o) ==
    /\ \E next \in Forward[phase[o]] : phase' = [phase EXCEPT ![o] = next]
    /\ UNCHANGED cert

(* Issuance publishes the certificate and completes the order at once. *)
Issue(o) ==
    /\ phase[o] = "issuing"
    /\ phase' = [phase EXCEPT ![o] = "valid"]
    /\ cert' = [cert EXCEPT ![o] = 1]

(* The challenge is acknowledged again while it is being checked, or       *)
(* before that begins; a settled order cannot be forfeited.                *)
Forfeit(o) ==
    /\ phase[o] \in {"pending", "validating"}
    /\ phase' = [phase EXCEPT ![o] = "forfeited"]
    /\ UNCHANGED cert

(* A restart gives up every order in flight, in one step. *)
Abandon ==
    /\ phase' = [o \in OrderIds |->
                    IF phase[o] \in {"validating", "issuing"} THEN "invalid" ELSE phase[o]]
    /\ UNCHANGED cert

LifecycleNext == (\E o \in OrderIds : Advance(o) \/ Issue(o) \/ Forfeit(o)) \/ Abandon

LifecycleSpec == LifecycleInit /\ [][LifecycleNext]_lifecycleVars
===============================================================================
