------------------------------- MODULE Issuance -------------------------------
(***************************************************************************)
(* One certificate from the upstream CA: le_client.order_cert under its    *)
(* per-domain lock, gufo-acme's sign (new order, DNS-01 challenge,         *)
(* finalize, poll) with the overrides of JackdawAcmeClient, and the TXT    *)
(* records behind the DNS provider.  All domains lie in one zone, the case *)
(* in which flows can meet.                                                *)
(*                                                                         *)
(* One step is one HTTP call.  The CA and the DNS services are external    *)
(* and modelled from how the client uses them: any call may fail, and a    *)
(* failed call may have been applied.  The CA hands out an unfinished      *)
(* order of the same domain again, and it handles a finalize request that  *)
(* the client has given up on.                                             *)
(***************************************************************************)
EXTENDS Naturals, FiniteSets

CONSTANTS Domains,          \* domains to certify, all under one apex
          Flows,            \* calls of order_cert, each with its own CSR
          UpOrders,         \* upstream orders
          NoFlow, NoDomain, NoOrder,
          Providers,        \* DNS providers to choose from (porkbun writes like cloudflare)
          Interruptions     \* may a finalize be given up (timeout, restart)?

ASSUME ConstantsAssumption ==
    /\ NoFlow \notin Flows /\ NoDomain \notin Domains /\ NoOrder \notin UpOrders
    /\ Providers \subseteq {"cloudflare", "route53", "namecheap"}
    /\ Interruptions \in BOOLEAN

VARIABLES
    provider,       \* the provider loaded at start-up
    zone,           \* values of _acme-challenge.<domain>, by domain; the value
                    \* is that of the upstream order it was computed for
    domainLock,     \* holder of domain_lock(d)
    zoneLock,       \* holder of Namecheap's lock for the apex
    orderUrls,      \* upstream orders whose URL is in _order_urls
    flow,           \* the calls of order_cert and their local variables
    upstream,       \* the CA's orders
    inflight        \* finalize requests on their way to the CA

vars == <<provider, zone, domainLock, zoneLock, orderUrls, flow, upstream, inflight>>

Zone == [Domains -> SUBSET UpOrders]
Pcs  == {"idle", "lock", "order", "set_read", "set_write", "validate", "clear_read",
         "clear_write", "finalize", "finalizing", "poll", "done"}

(* got: the flow whose CSR the returned certificate was issued for. *)
Flow == [ pc : Pcs, domain : Domains \union {NoDomain}, order : UpOrders \union {NoOrder},
          read : Zone, got : Flows \union {NoFlow} ]

UpOrder == [ status : {"none", "pending", "ready", "processing", "valid", "invalid"},
             domain : Domains \union {NoDomain},
             csr    : Flows \union {NoFlow} ]

EmptyZone == [d \in Domains |-> {}]

Init ==
    /\ provider \in Providers
    /\ zone = EmptyZone
    /\ domainLock = [d \in Domains |-> NoFlow]
    /\ zoneLock = NoFlow
    /\ orderUrls = {}
    /\ flow = [f \in Flows |-> [pc |-> "idle", domain |-> NoDomain, order |-> NoOrder,
                                read |-> EmptyZone, got |-> NoFlow]]
    /\ upstream = [o \in UpOrders |-> [status |-> "none", domain |-> NoDomain, csr |-> NoFlow]]
    /\ inflight = {}

-------------------------------------------------------------------------------
Is(f, pc)    == flow[f].pc = pc
DomainOf(f)  == flow[f].domain
OrderOf(f)   == flow[f].order
Goto(f, pc)  == flow' = [flow EXCEPT ![f].pc = pc]
Status(o)    == upstream[o].status

(* The end of order_cert, with or without a certificate: the async with    *)
(* gives the lock back in either case.                                     *)
Return(f, got) ==
    /\ flow' = [flow EXCEPT ![f] = [@ EXCEPT !.pc = "done", !.got = got]]
    /\ domainLock' = [domainLock EXCEPT ![DomainOf(f)] = NoFlow]

Fail(f) == Return(f, NoFlow)

-------------------------------------------------------------------------------
(* process_finalize or the renewal loop calls order_cert. *)
OrderCert(f, d) ==
    /\ Is(f, "idle")
    /\ flow' = [flow EXCEPT ![f] = [@ EXCEPT !.pc = "lock", !.domain = d]]
    /\ UNCHANGED <<provider, zone, domainLock, zoneLock, orderUrls, upstream, inflight>>

(* Faulty variant of AcquireDomainLock: there is no lock.                  *)
AcquireNothing(f) ==
    /\ Is(f, "lock")
    /\ Goto(f, "order")
    /\ UNCHANGED <<provider, zone, domainLock, zoneLock, orderUrls, upstream, inflight>>

AcquireDomainLock(f) ==
    /\ Is(f, "lock")
    /\ domainLock[DomainOf(f)] = NoFlow
    /\ domainLock' = [domainLock EXCEPT ![DomainOf(f)] = f]
    /\ Goto(f, "order")
    /\ UNCHANGED <<provider, zone, zoneLock, orderUrls, upstream, inflight>>

(* new_order: the CA answers with an order of this domain that is not      *)
(* finished yet, or with a new one, which is ready at once if the CA       *)
(* remembers a valid authorization.  The order URL is remembered.  A ready *)
(* order needs no challenge.                                               *)
NewOrder(f, o, status) ==
    /\ Is(f, "order")
    /\ \/ /\ Status(o) = status /\ upstream[o].domain = DomainOf(f)
          /\ UNCHANGED upstream
       \/ /\ Status(o) = "none"
          /\ upstream' = [upstream EXCEPT ![o] = [@ EXCEPT !.status = status, !.domain = DomainOf(f)]]
    /\ orderUrls' = orderUrls \union {o}
    /\ flow' = [flow EXCEPT ![f] =
                   [@ EXCEPT !.order = o,
                             !.pc = IF status = "ready" THEN "finalize" ELSE "set_read"]]
    /\ UNCHANGED <<provider, zone, domainLock, zoneLock, inflight>>

NewOrderFails(f) ==
    /\ Is(f, "order")
    /\ Fail(f)
    /\ UNCHANGED <<provider, zone, zoneLock, orderUrls, upstream, inflight>>

-------------------------------------------------------------------------------
(* Faulty variant of ReadZone: the host list is read outside the lock.     *)
ReadZoneUnlocked(f, next) ==
    /\ flow' = [flow EXCEPT ![f] = [@ EXCEPT !.pc = next, !.read = zone]]
    /\ UNCHANGED zoneLock

(* What a provider looks up before it writes: a zone id, the records of    *)
(* one name, or, at Namecheap, the whole host list, under the lock of the  *)
(* apex.                                                                   *)
ReadZone(f, next) ==
    /\ flow' = [flow EXCEPT ![f] = [@ EXCEPT !.pc = next, !.read = zone]]
    /\ IF provider = "namecheap"
       THEN zoneLock = NoFlow /\ zoneLock' = f
       ELSE UNCHANGED zoneLock

ReadForSet(f) ==
    /\ Is(f, "set_read")
    /\ ReadZone(f, "set_write")
    /\ UNCHANGED <<provider, zone, domainLock, orderUrls, upstream, inflight>>

ReadForClear(f) ==
    /\ Is(f, "clear_read")
    /\ ReadZone(f, "clear_write")
    /\ UNCHANGED <<provider, zone, domainLock, orderUrls, upstream, inflight>>

Unlocked(f) == IF zoneLock = f THEN NoFlow ELSE zoneLock

(* Route 53's CREATE refuses a name that already has a TXT record set. *)
Refused(f) == provider = "route53" /\ zone[DomainOf(f)] # {}

(* Cloudflare, Porkbun and Route 53 add a value to a name; Namecheap's     *)
(* setHosts replaces all names by the list that was read and the value.    *)
AddRecord(f)  == [zone EXCEPT ![DomainOf(f)] = @ \union {OrderOf(f)}]
WriteHosts(f) == [flow[f].read EXCEPT ![DomainOf(f)] = @ \union {OrderOf(f)}]
WithTxt(f)    == IF provider = "namecheap" THEN WriteHosts(f) ELSE AddRecord(f)

(* fulfill_dns_01: set_txt, then the wait for propagation. *)
SetTxt(f) ==
    /\ Is(f, "set_write")
    /\ ~Refused(f)
    /\ zone' = WithTxt(f)
    /\ zoneLock' = Unlocked(f)
    /\ Goto(f, "validate")
    /\ UNCHANGED <<provider, domainLock, orderUrls, upstream, inflight>>

(* Faulty variant of SetTxtFails: the exception leaves the apex locked.    *)
SetTxtFailsLocked(f, applied) ==
    /\ Is(f, "set_write")
    /\ Refused(f) => ~applied
    /\ zone' = IF applied THEN WithTxt(f) ELSE zone
    /\ Fail(f)
    /\ UNCHANGED <<provider, zoneLock, orderUrls, upstream, inflight>>

(* set_txt raises, possibly after the service has applied the change;      *)
(* fulfill_dns_01 returns False and sign raises.                           *)
SetTxtFails(f, applied) ==
    /\ Is(f, "set_write")
    /\ Refused(f) => ~applied
    /\ zone' = IF applied THEN WithTxt(f) ELSE zone
    /\ zoneLock' = Unlocked(f)
    /\ Fail(f)
    /\ UNCHANGED <<provider, orderUrls, upstream, inflight>>

(* respond_challenge and wait_for_authorization: the CA looks the record   *)
(* up.                                                                     *)
Validate(f) ==
    /\ Is(f, "validate")
    /\ OrderOf(f) \in zone[DomainOf(f)]
    /\ upstream' = [upstream EXCEPT ![OrderOf(f)].status = "ready"]
    /\ Goto(f, "clear_read")
    /\ UNCHANGED <<provider, zone, domainLock, zoneLock, orderUrls, inflight>>

(* The CA does not find the record, or the client does not wait for the    *)
(* answer; sign raises before it clears the record.                        *)
ValidateFails(f, status) ==
    /\ Is(f, "validate")
    /\ upstream' = [upstream EXCEPT ![OrderOf(f)].status = status]
    /\ Fail(f)
    /\ UNCHANGED <<provider, zone, zoneLock, orderUrls, inflight>>

(* What is left once delete_txt has removed the values in gone, all of     *)
(* them listed a step ago.  Cloudflare and Porkbun delete record by        *)
(* record, so a failure may leave some; Route 53 deletes the set as it was *)
(* listed or not at all; Namecheap writes the filtered list back, if       *)
(* filtering removed anything.                                             *)
DeleteRecords(f, gone)   == [zone EXCEPT ![DomainOf(f)] = @ \ gone]
WriteFilteredHosts(f)    == [flow[f].read EXCEPT ![DomainOf(f)] = {}]
Cleared(f, gone) ==
    IF provider = "namecheap" /\ gone # {} THEN WriteFilteredHosts(f) ELSE DeleteRecords(f, gone)

(* clear_dns_01: whatever happens, the flow goes on. *)
ClearTxt(f, gone) ==
    /\ Is(f, "clear_write")
    /\ gone \subseteq flow[f].read[DomainOf(f)]
    /\ provider # "cloudflare" => gone \in {{}, flow[f].read[DomainOf(f)]}
    /\ provider = "route53" /\ gone # {} => zone[DomainOf(f)] = gone
    /\ zone' = Cleared(f, gone)
    /\ zoneLock' = Unlocked(f)
    /\ Goto(f, "finalize")
    /\ UNCHANGED <<provider, domainLock, orderUrls, upstream, inflight>>

-------------------------------------------------------------------------------
(* Faulty variant of PostFinalize: the client keeps one order URL, not one *)
(* per order.                                                              *)
PostFinalizeOneUrl(f) ==
    /\ Is(f, "finalize")
    /\ orderUrls' = {}
    /\ inflight' = inflight \union {[order |-> OrderOf(f), csr |-> f]}
    /\ Goto(f, "finalizing")
    /\ UNCHANGED <<provider, zone, domainLock, zoneLock, upstream>>

(* finalize_and_wait takes the order URL out of the map (it is there, see  *)
(* OrderUrlAtHand) and posts the CSR.                                      *)
PostFinalize(f) ==
    /\ Is(f, "finalize")
    /\ orderUrls' = orderUrls \ {OrderOf(f)}
    /\ inflight' = inflight \union {[order |-> OrderOf(f), csr |-> f]}
    /\ Goto(f, "finalizing")
    /\ UNCHANGED <<provider, zone, domainLock, zoneLock, upstream>>

(* The CA takes the CSR if the order is ready and answers orderNotReady    *)
(* otherwise.  The client polls in both cases.                             *)
CaFinalize(m) ==
    /\ m \in inflight
    /\ inflight' = inflight \ {m}
    /\ upstream' = [upstream EXCEPT ![m.order] =
                       IF @.status = "ready" THEN [@ EXCEPT !.status = "processing", !.csr = m.csr]
                                             ELSE @]
    /\ flow' = [flow EXCEPT ![m.csr].pc = IF @ = "finalizing" THEN "poll" ELSE @]
    /\ UNCHANGED <<provider, zone, domainLock, zoneLock, orderUrls>>

CaIssue(o, status) ==
    /\ Status(o) = "processing"
    /\ upstream' = [upstream EXCEPT ![o].status = status]
    /\ UNCHANGED <<provider, zone, domainLock, zoneLock, orderUrls, flow, inflight>>

(* The POST times out, or its connection breaks; the CA may still get it. *)
FinalizeTimeout(f) ==
    /\ Interruptions
    /\ Is(f, "finalizing")
    /\ Fail(f)
    /\ UNCHANGED <<provider, zone, zoneLock, orderUrls, upstream, inflight>>

(* _poll_order_for_cert: valid, download the certificate; invalid, or out  *)
(* of attempts, raise.                                                     *)
PollValid(f) ==
    /\ Is(f, "poll")
    /\ Status(OrderOf(f)) = "valid"
    /\ Return(f, upstream[OrderOf(f)].csr)
    /\ UNCHANGED <<provider, zone, zoneLock, orderUrls, upstream, inflight>>

PollFails(f) ==
    /\ Is(f, "poll")
    /\ Fail(f)
    /\ UNCHANGED <<provider, zone, zoneLock, orderUrls, upstream, inflight>>

(* The process restarts: the client and everything in it is new. *)
Restart ==
    /\ Interruptions
    /\ flow' = [f \in Flows |-> IF Is(f, "idle") THEN flow[f] ELSE [flow[f] EXCEPT !.pc = "done"]]
    /\ domainLock' = [d \in Domains |-> NoFlow]
    /\ zoneLock' = NoFlow
    /\ orderUrls' = {}
    /\ UNCHANGED <<provider, zone, upstream, inflight>>

-------------------------------------------------------------------------------
FlowStep(f) ==
    \/ AcquireDomainLock(f)
    \/ \E o \in UpOrders, status \in {"pending", "ready"} : NewOrder(f, o, status)
    \/ NewOrderFails(f)
    \/ ReadForSet(f) \/ SetTxt(f) \/ \E applied \in BOOLEAN : SetTxtFails(f, applied)
    \/ Validate(f) \/ \E status \in {"pending", "invalid"} : ValidateFails(f, status)
    \/ ReadForClear(f) \/ \E gone \in SUBSET UpOrders : ClearTxt(f, gone)
    \/ PostFinalize(f) \/ FinalizeTimeout(f) \/ PollValid(f) \/ PollFails(f)

CaStep ==
    \/ \E m \in inflight : CaFinalize(m)
    \/ \E o \in UpOrders, status \in {"valid", "invalid"} : CaIssue(o, status)

Next ==
    \/ \E f \in Flows, d \in Domains : OrderCert(f, d)
    \/ \E f \in Flows : FlowStep(f)
    \/ CaStep
    \/ Restart

Spec == Init /\ [][Next]_vars

(* Every call to a service returns or times out (httpx's default timeout,  *)
(* the bounded polling of _poll_order_for_cert), so a flow that is not     *)
(* waiting for a lock moves on, and the CA answers what it receives.       *)
FairSpec == Spec /\ WF_vars(CaStep) /\ \A f \in Flows : WF_vars(FlowStep(f))

-------------------------------------------------------------------------------
Running == Pcs \ {"idle", "lock", "done"}

(* A flow that has begun has a domain, one that is past new_order an order.*)
FlowsOK ==
    /\ flow \in [Flows -> Flow]
    /\ \A f \in Flows : ~Is(f, "idle") => DomainOf(f) \in Domains
    /\ \A f \in Flows : flow[f].pc \in Running \ {"order"} => OrderOf(f) \in UpOrders

(* Every variable has its type. *)
TypeOK ==
    /\ provider \in Providers
    /\ zone \in Zone
    /\ domainLock \in [Domains -> Flows \union {NoFlow}]
    /\ zoneLock \in Flows \union {NoFlow}
    /\ orderUrls \subseteq UpOrders
    /\ FlowsOK
    /\ upstream \in [UpOrders -> UpOrder]
    /\ inflight \subseteq [order : UpOrders, csr : Flows]

(* Between set_txt and the end of validation no other flow removes or      *)
(* overwrites the record: neither one for the same domain (domain_lock)    *)
(* nor one for another name of the zone (Namecheap's lock), whatever fails *)
(* half-way.                                                               *)
RecordPresentUntilValidated ==
    \A f \in Flows : Is(f, "validate") => OrderOf(f) \in zone[DomainOf(f)]

(* set_txt and delete_txt touch one name of the zone: at no step do the    *)
(* records of a domain change except by a flow that holds its lock, so     *)
(* Namecheap's read-modify-write loses no update.                          *)
OnlyOwnNameWritten ==
    [][\A d \in Domains : zone'[d] # zone[d] =>
          \E f \in Flows : domainLock[d] = f /\ flow[f].pc \in {"set_write", "clear_write"}]_vars

(* The order URL, without which orderNotReady is fatal and a CA that sends *)
(* no Location cannot be polled, is at hand whenever a flow finalizes:     *)
(* flows on the shared client never take each other's entry.               *)
OrderUrlAtHand == \A f \in Flows : Is(f, "finalize") => OrderOf(f) \in orderUrls

(* Whatever is given up half-way, and although an order may be handed out  *)
(* again, no certificate is returned to two callers of order_cert.         *)
CertDeliveredOnce ==
    \A f, g \in Flows : flow[f].got # NoFlow /\ flow[f].got = flow[g].got => f = g

(* clear_dns_01 lets a TXT record linger.  At Route 53 that costs a later  *)
(* flow its own record, but only then: what refuses a flow was left there  *)
(* by a flow of its domain that has ended, never put there by one running. *)
RefusedByLeftoverOnly ==
    \A f \in Flows : Is(f, "set_write") /\ Refused(f) =>
        \A o \in zone[DomainOf(f)] :
            \E g \in Flows : Is(g, "done") /\ OrderOf(g) = o /\ DomainOf(g) = DomainOf(f)

(* No path leaks a lock: whoever a lock names is at work behind it, on     *)
(* every exit, exception and restart.                                      *)
LocksOwned ==
    /\ \A d \in Domains : domainLock[d] # NoFlow =>
          flow[domainLock[d]].pc \in Running /\ DomainOf(domainLock[d]) = d
    /\ zoneLock # NoFlow =>
          provider = "namecheap" /\ flow[zoneLock].pc \in {"set_write", "clear_write"}

(* A flow that cannot move until another one gives back a lock.            *)
Waiting(f) ==
    \/ Is(f, "lock") /\ domainLock[DomainOf(f)] # NoFlow
    \/ flow[f].pc \in {"set_read", "clear_read"} /\ provider = "namecheap" /\ zoneLock # NoFlow

(* The flow that has the lock f waits for, and a flow that can move.       *)
Blocker(f) == IF Is(f, "lock") THEN domainLock[DomainOf(f)] ELSE zoneLock
Working(f) == f \in Flows /\ flow[f].pc \in Running /\ ~Waiting(f)

(* The two kinds of locks are never waited for in a circle: whoever waits  *)
(* waits for a flow that can move, directly or through one that itself     *)
(* waits for the lock of the apex.                                         *)
WaitsForWorker ==
    \A f \in Flows : Waiting(f) => Working(Blocker(f)) \/ Working(Blocker(Blocker(f)))

(* What a caller of order_cert sees of its flow. *)
RequestState(f) ==
    IF Is(f, "idle") THEN "new"
    ELSE IF ~Is(f, "done") THEN "asked"
    ELSE IF flow[f].got = NoFlow THEN "failed" ELSE "served"

Service == INSTANCE CertService
    WITH Requests <- Flows, Names <- Domains, NoRequest <- NoFlow, NoName <- NoDomain,
         state <- [f \in Flows |-> RequestState(f)],
         name  <- [f \in Flows |-> DomainOf(f)],
         csr   <- [f \in Flows |-> flow[f].got]

(* order_cert keeps the promise of CertService, whatever is given up half- *)
(* way and although the CA hands out an unfinished order again: the        *)
(* certificate returned is for the domain asked for, is returned to nobody *)
(* else, and if it is not for the caller's own CSR (see CertMatchesCsr) it *)
(* is for the CSR of a call that had already failed.                       *)
ImplementsCertService == Service!ServiceSpec

(* Every call of order_cert ends, whatever fails: both locks are given     *)
(* back on every path and are never waited for in a circle.                *)
EveryFlowEnds == \A f \in Flows : Is(f, "lock") ~> Is(f, "done")

-------------------------------------------------------------------------------
(* A statement of the repository that the code does not keep.              *)

(* order_cert: one issuance at a time per domain removes the hazard of     *)
(* "double-finalizing" an order, so a flow gets the certificate for its    *)
(* own CSR, although the CA hands out unfinished orders again and          *)
(* orderNotReady is answered by polling.  That needs ~Interruptions.       *)
CertMatchesCsr == \A f \in Flows : flow[f].got \in {f, NoFlow}
===============================================================================
