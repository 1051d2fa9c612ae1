------------------------------ MODULE Revocation ------------------------------
(***************************************************************************)
(* Certificates after issuance: store_cert, the look-up and the forwarding *)
(* of POST /acme/revoke-cert (routes/revoke.py, le_client.revoke_cert),    *)
(* composed with the admission of the orders they belong to (OrderQuota).  *)
(*                                                                         *)
(* All certificates were issued to the relay's own account at the CA, so   *)
(* the CA revokes whatever the relay forwards: only the look-up keeps one  *)
(* client from another's certificates.  The look-up takes two queries.     *)
(* The CA is external: it revokes a certificate it has issued, once, and   *)
(* refuses anything else; its answer may be lost, and a request the relay  *)
(* has given up on may still be carried out.                               *)
(***************************************************************************)
EXTENDS OrderQuota

CONSTANTS Certs,        \* certificates, named by their serial number
          NoCert,
          Revokers      \* revocation requests in progress at once

ASSUME RevocationAssumption == NoCert \notin Certs

VARIABLES
    row,            \* certificates: "absent"; "indexed" by serial; serial NULL
                    \* in a row older than the column ("legacy") or with a
                    \* chain that cannot be parsed ("opaque")
    certOrder,      \* certificates.order_id
    rev,            \* the revocation requests in progress
    revoked,        \* at the CA
    late,           \* requests on their way to the CA that nobody waits for
    \* History.
    asked,          \* who asked for which certificate to be revoked
    confirmed       \* how often a revocation was answered with 200

certVars == <<row, certOrder, rev, revoked, late, asked, confirmed>>
vars     == <<owner, created, now, req, row, certOrder, rev, revoked, late, asked, confirmed>>

(* genuine: the DER is the certificate itself, not another one with its    *)
(* serial; had: a readable row of the caller matched when the request came *)
(* in.                                                                     *)
Revoker == [pc      : {"idle", "serial", "legacy", "post", "wait", "refused"},
            account : Accounts \union {NoAccount},
            cert    : Certs \union {NoCert},
            genuine : BOOLEAN,
            had     : BOOLEAN]
NoRevoker == [pc |-> "idle", account |-> NoAccount, cert |-> NoCert, genuine |-> FALSE, had |-> FALSE]

(* The account's rows of a kind that match certificate c. *)
Owns(a, c, kinds) == row[c] \in kinds /\ owner[certOrder[c]] = a

Init ==
    /\ QuotaInit
    /\ row \in [Certs -> {"absent", "legacy"}]
    /\ certOrder \in [Certs -> OrderIds]
    /\ \A c \in Certs : row[c] = "legacy" => owner[certOrder[c]] # NoAccount
    /\ rev = [p \in Revokers |-> NoRevoker]
    /\ revoked = {} /\ late = {}
    /\ asked = {} /\ confirmed = [c \in Certs |-> 0]

-------------------------------------------------------------------------------
Become(p, t) == rev' = [rev EXCEPT ![p] = t]
Goto(p, pc)  == Become(p, [rev[p] EXCEPT !.pc = pc])

(* store_cert, at the end of an issuance. *)
StoreCert(c, o, parsed) ==
    /\ row[c] = "absent" /\ owner[o] # NoAccount
    /\ row' = [row EXCEPT ![c] = IF parsed THEN "indexed" ELSE "opaque"]
    /\ certOrder' = [certOrder EXCEPT ![c] = o]
    /\ UNCHANGED <<rev, revoked, late, asked, confirmed>>

(* POST /acme/revoke-cert with a certificate that can be parsed. *)
RevokeCert(p, a, c, genuine) ==
    /\ rev[p].pc = "idle"
    /\ Become(p, [pc |-> "serial", account |-> a, cert |-> c, genuine |-> genuine,
                  had |-> Owns(a, c, {"indexed", "legacy"})])
    /\ asked' = asked \union {<<a, c>>}
    /\ UNCHANGED <<row, certOrder, revoked, late, confirmed>>

(* Faulty variant of LookUpSerial: there is no fallback.                   *)
LookUpSerialOnly(p) ==
    /\ rev[p].pc = "serial"
    /\ Goto(p, IF Owns(rev[p].account, rev[p].cert, {"indexed"}) THEN "post" ELSE "refused")
    /\ UNCHANGED <<row, certOrder, revoked, late, asked, confirmed>>

(* Fast path: the caller's row with that serial. *)
LookUpSerial(p) ==
    /\ rev[p].pc = "serial"
    /\ Goto(p, IF Owns(rev[p].account, rev[p].cert, {"indexed"}) THEN "post" ELSE "legacy")
    /\ UNCHANGED <<row, certOrder, revoked, late, asked, confirmed>>

(* Faulty variant of LookUpLegacy: the fallback forgets the account.       *)
LookUpLegacyAnyone(p) ==
    /\ rev[p].pc = "legacy"
    /\ Goto(p, IF row[rev[p].cert] = "legacy" THEN "post" ELSE "refused")
    /\ UNCHANGED <<row, certOrder, revoked, late, asked, confirmed>>

(* Fallback: the caller's rows without a serial, parsed one by one; a      *)
(* chain that cannot be parsed is skipped.                                 *)
LookUpLegacy(p) ==
    /\ rev[p].pc = "legacy"
    /\ Goto(p, IF Owns(rev[p].account, rev[p].cert, {"legacy"}) THEN "post" ELSE "refused")
    /\ UNCHANGED <<row, certOrder, revoked, late, asked, confirmed>>

(* 403 *)
Refuse(p) ==
    /\ rev[p].pc = "refused"
    /\ Become(p, NoRevoker)
    /\ UNCHANGED <<row, certOrder, revoked, late, asked, confirmed>>

(* le.revoke_cert sends the client's DER on. *)
PostRevocation(p) ==
    /\ rev[p].pc = "post"
    /\ Goto(p, "wait")
    /\ UNCHANGED <<row, certOrder, revoked, late, asked, confirmed>>

(* The CA carries the request out, and the relay answers 200. *)
Revoked(p) ==
    /\ rev[p].pc = "wait"
    /\ rev[p].genuine /\ rev[p].cert \notin revoked
    /\ revoked' = revoked \union {rev[p].cert}
    /\ confirmed' = [confirmed EXCEPT ![rev[p].cert] = @ + 1]
    /\ Become(p, NoRevoker)
    /\ UNCHANGED <<row, certOrder, late, asked>>

(* Faulty variant of RevocationFails: the exception is only logged.        *)
RevocationFailsSilently(p) ==
    /\ rev[p].pc \in {"serial", "legacy", "post", "wait"}
    /\ Become(p, NoRevoker)
    /\ late' = IF rev[p].pc = "wait" /\ rev[p].genuine THEN late \union {rev[p].cert} ELSE late
    /\ confirmed' = [confirmed EXCEPT ![rev[p].cert] = @ + 1]
    /\ UNCHANGED <<row, certOrder, revoked, asked>>

(* A query fails, or the CA refuses, cannot be reached, or does not answer *)
(* in time: 500.  What was sent may still be on its way.                   *)
RevocationFails(p) ==
    /\ rev[p].pc \in {"serial", "legacy", "post", "wait"}
    /\ Become(p, NoRevoker)
    /\ late' = IF rev[p].pc = "wait" /\ rev[p].genuine THEN late \union {rev[p].cert} ELSE late
    /\ UNCHANGED <<row, certOrder, revoked, asked, confirmed>>

(* A request nobody waits for reaches the CA, or was lost. *)
LateRevocation(c, lost) ==
    /\ c \in late
    /\ late' = late \ {c}
    /\ revoked' = IF lost THEN revoked ELSE revoked \union {c}
    /\ UNCHANGED <<row, certOrder, rev, asked, confirmed>>

-------------------------------------------------------------------------------
CertNext ==
    \/ \E c \in Certs, o \in OrderIds, parsed \in BOOLEAN : StoreCert(c, o, parsed)
    \/ \E p \in Revokers :
          \/ \E a \in Accounts, c \in Certs, genuine \in BOOLEAN : RevokeCert(p, a, c, genuine)
          \/ LookUpSerial(p) \/ LookUpLegacy(p) \/ Refuse(p)
          \/ PostRevocation(p) \/ Revoked(p) \/ RevocationFails(p)
    \/ \E c \in Certs, lost \in BOOLEAN : LateRevocation(c, lost)

Next == (QuotaNext /\ UNCHANGED certVars) \/ (CertNext /\ UNCHANGED quotaVars)

Spec == Init /\ [][Next]_vars

-------------------------------------------------------------------------------
(* Every variable has its type. *)
TypeOK ==
    /\ owner \in [OrderIds -> Accounts \union {NoAccount}]
    /\ created \in [OrderIds -> Nat] /\ now \in Nat
    /\ req \in [Procs -> Request]
    /\ row \in [Certs -> {"absent", "indexed", "legacy", "opaque"}]
    /\ certOrder \in [Certs -> OrderIds]
    /\ rev \in [Revokers -> Revoker]
    /\ revoked \subseteq Certs /\ late \subseteq Certs
    /\ asked \subseteq Accounts \X Certs
    /\ confirmed \in [Certs -> Nat]

(* A certificate is revoked only if the account its order belongs to asked *)
(* for it, whoever else presented it, by whichever of the two look-ups it  *)
(* was found, and also when the CA acts after the relay gave up.           *)
OnlyOwnersRevoke == \A c \in revoked : <<owner[certOrder[c]], c>> \in asked

(* The look-up's verdict does not go stale before it is acted on: whatever *)
(* the relay has sent or is about to send to the CA, it does for the       *)
(* account that owns the certificate at that moment.                       *)
ForwardsForOwner ==
    \A p \in Revokers : rev[p].pc \in {"post", "wait"} =>
        row[rev[p].cert] # "absent" /\ owner[certOrder[rev[p].cert]] = rev[p].account

(* Who may revoke a certificate is settled when it is stored: neither its  *)
(* order nor the order's account changes afterwards.                       *)
OwnershipFixed ==
    [][\A c \in Certs : row[c] # "absent" =>
          row'[c] = row[c] /\ owner'[certOrder'[c]] = owner[certOrder[c]]]_vars

(* A client that is answered 200 can rely on it: the certificate is        *)
(* revoked.  At most one request is, since the CA refuses the second.      *)
ConfirmedOnce == \A c \in Certs : confirmed[c] <= IF c \in revoked THEN 1 ELSE 0

(* 403 is never the answer to an account that had a readable row for the   *)
(* certificate when it asked: rows move from none to one kind and stay, so *)
(* one that the first query cannot see is there for the second.            *)
NoFalseRefusal == \A p \in Revokers : rev[p].pc = "refused" => ~rev[p].had
===============================================================================
