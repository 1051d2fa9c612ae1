------------------------------ MODULE CertService ------------------------------
(***************************************************************************)
(* What order_cert promises its callers (process_finalize and the renewal  *)
(* loop), with neither locks nor DNS records nor upstream orders in it.  A *)
(* request for a domain is served or fails, once.  It is served with one   *)
(* certificate, for its own domain, that nobody else is ever given; and    *)
(* that certificate was issued for another request's CSR only if that      *)
(* request has already failed, so that its key is not in use anywhere.     *)
(*                                                                         *)
(* Issuance (le_client, the ACME client and the DNS providers) is shown to *)
(* implement this specification.                                           *)
(***************************************************************************)

CONSTANTS Requests, Names, NoRequest, NoName

VARIABLES state,            \* of a request: new, asked, served or failed
          name,             \* the domain asked for
          csr               \* the request whose CSR the certificate given is for

serviceVars == <<state, name, csr>>

ServiceInit ==
    /\ state = [r \in Requests |-> "new"]
    /\ name = [r \in Requests |-> NoName]
    /\ csr = [r \in Requests |-> NoRequest]

Ask(r, n) ==
    /\ state[r] = "new"
    /\ state' = [state EXCEPT ![r] = "asked"]
    /\ name' = [name EXCEPT ![r] = n]
    /\ UNCHANGED csr

(* Request r is given the certificate that was issued for the CSR of q. *)
Serve(r, q) ==
    /\ state[r] = "asked"
    /\ name[q] = name[r]
    /\ q # r => state[q] = "failed"
    /\ \A s \in Requests : csr[s] # q
    /\ state' = [state EXCEPT ![r] = "served"]
    /\ csr' = [csr EXCEPT ![r] = q]
    /\ UNCHANGED name

Refuse(r) ==
    /\ state[r] = "asked"
    /\ state' = [state EXCEPT ![r] = "failed"]
    /\ UNCHANGED <<name, csr>>

(* A restart fails everything that is under way, in one step. *)
Abort ==
    /\ state' = [r \in Requests |-> IF state[r] = "asked" THEN "failed" ELSE state[r]]
    /\ UNCHANGED <<name, csr>>

ServiceNext ==
    \/ \E r \in Requests, n \in Names : Ask(r, n)
    \/ \E r, q \in Requests : Serve(r, q)
    \/ \E r \in Requests : Refuse(r)
    \/ Abort

ServiceSpec == ServiceInit /\ [][ServiceNext]_serviceVars
===============================================================================
