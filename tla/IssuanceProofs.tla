---------------------------- MODULE IssuanceProofs ----------------------------
(***************************************************************************)
(* Proofs about Issuance.  The argument is that of the two locks: a flow   *)
(* that runs holds the lock of its domain (LockHeld), and a flow between   *)
(* Namecheap's read and write holds the lock of the apex and has seen the  *)
(* zone as it still is (SnapshotFresh).  Two running flows therefore have  *)
(* different domains and, since an upstream order belongs to one domain    *)
(* (OrderInDomain), different orders.                                      *)
(***************************************************************************)
EXTENDS Issuance, TLAPS

(* A running flow holds the lock of its domain. *)
LockHeld ==
    \A f \in Flows : flow[f].pc \in Running => domainLock[DomainOf(f)] = f

(* At Namecheap, the list about to be written back is the list as it is.   *)
SnapshotFresh ==
    \A f \in Flows : provider = "namecheap" /\ flow[f].pc \in {"set_write", "clear_write"} =>
        zoneLock = f /\ flow[f].read = zone

(* A running flow works on an order of its own domain. *)
OrderInDomain ==
    \A f \in Flows : flow[f].pc \in Running \ {"order"} =>
        upstream[OrderOf(f)].status # "none" /\ upstream[OrderOf(f)].domain = DomainOf(f)

(* The URL captured by new_order is in the map until it is used.           *)
UrlKept ==
    \A f \in Flows :
        flow[f].pc \in Running \ {"order", "finalizing", "poll"} => OrderOf(f) \in orderUrls

(* A record in the zone was set for the order of a flow that is past       *)
(* set_txt, or has ended.                                                  *)
PastSet == {"validate", "clear_read", "clear_write", "finalize", "finalizing", "poll", "done"}

RecordHasOwner ==
    \A d \in Domains : \A o \in zone[d] :
        \E g \in Flows : flow[g].pc \in PastSet /\ OrderOf(g) = o /\ DomainOf(g) = d

-------------------------------------------------------------------------------
(* Updates of a flow stay within their types.                              *)
LEMMA FlowUpdate ==
    ASSUME NEW t \in Flow, NEW pc \in Pcs
    PROVE  /\ \A d \in Domains : [t EXCEPT !.pc = pc, !.domain = d] \in Flow
           /\ \A o \in UpOrders : [t EXCEPT !.order = o, !.pc = pc] \in Flow
           /\ \A z \in Zone : [t EXCEPT !.pc = pc, !.read = z] \in Flow
           /\ \A g \in Flows \union {NoFlow} : [t EXCEPT !.pc = pc, !.got = g] \in Flow
  BY DEF Flow

(* The same of an upstream order.                                          *)
LEMMA UpOrderUpdate ==
    ASSUME NEW u \in UpOrder, NEW s \in {"pending", "ready", "processing", "valid", "invalid"}
    PROVE  /\ \A d \in Domains : [u EXCEPT !.status = s, !.domain = d] \in UpOrder
           /\ \A d \in Domains : [u EXCEPT !.status = s, !.domain = d].domain = d
           /\ \A f \in Flows : [u EXCEPT !.status = s, !.csr = f] \in UpOrder
  BY DEF UpOrder

(* new_order leaves an order of the flow's own domain behind.              *)
LEMMA NewOrderUpstream ==
    ASSUME NEW f, NEW o \in UpOrders, NEW s \in {"pending", "ready"},
           upstream \in [UpOrders -> UpOrder], NewOrder(f, o, s)
    PROVE  upstream'[o].domain = flow[f].domain /\ upstream'[o].status = s
<1>1. CASE Status(o) = s /\ upstream[o].domain = DomainOf(f) /\ UNCHANGED upstream
  BY <1>1 DEF Status, DomainOf
<1>2. CASE upstream' = [upstream EXCEPT ![o] = [@ EXCEPT !.status = s, !.domain = DomainOf(f)]]
  BY <1>2 DEF DomainOf, UpOrder
<1> QED
  BY <1>1, <1>2 DEF NewOrder

(* Every step keeps the types. *)
LEMMA TypeStep ==
    ASSUME TypeOK, [Next]_vars
    PROVE  TypeOK'
<1> USE ConstantsAssumption DEF TypeOK, FlowsOK, Pcs, Running, Is, DomainOf, OrderOf, Status
<1>1. ASSUME NEW f \in Flows, NEW d \in Domains, OrderCert(f, d) PROVE TypeOK'
  <2>1. flow' \in [Flows -> Flow]
    BY <1>1, FlowUpdate DEF OrderCert
  <2>2. \A g \in Flows : (~Is(g, "idle"))' => DomainOf(g)' \in Domains
    BY <1>1 DEF OrderCert, Flow
  <2>3. \A g \in Flows : (flow[g].pc \in Running \ {"order"})' => OrderOf(g)' \in UpOrders
    BY <1>1 DEF OrderCert, Flow
  <2>4. zone' \in Zone /\ domainLock' \in [Domains -> Flows \union {NoFlow}]
    BY <1>1 DEF OrderCert, Flow, Zone
  <2>5. upstream' \in [UpOrders -> UpOrder]
    BY <1>1 DEF OrderCert, UpOrder, Flow
  <2>6. /\ provider' \in Providers
        /\ zoneLock' \in Flows \union {NoFlow}
        /\ orderUrls' \subseteq UpOrders
    BY <1>1 DEF OrderCert
  <2>7. inflight' \subseteq [order : UpOrders, csr : Flows]
    BY <1>1 DEF OrderCert
  <2> QED
    BY <2>1, <2>2, <2>3, <2>4, <2>5, <2>6, <2>7
<1>2. ASSUME NEW f \in Flows, AcquireDomainLock(f) PROVE TypeOK'
  <2>1. flow' \in [Flows -> Flow]
    BY <1>2 DEF AcquireDomainLock, Goto, Flow
  <2>2. \A g \in Flows : (~Is(g, "idle"))' => DomainOf(g)' \in Domains
    BY <1>2 DEF AcquireDomainLock, Goto, Flow
  <2>3. \A g \in Flows : (flow[g].pc \in Running \ {"order"})' => OrderOf(g)' \in UpOrders
    BY <1>2 DEF AcquireDomainLock, Goto, Flow
  <2>4. zone' \in Zone /\ domainLock' \in [Domains -> Flows \union {NoFlow}]
    BY <1>2 DEF AcquireDomainLock, Goto, Flow, Zone
  <2>5. upstream' \in [UpOrders -> UpOrder]
    BY <1>2 DEF AcquireDomainLock, Goto, UpOrder, Flow
  <2>6. /\ provider' \in Providers
        /\ zoneLock' \in Flows \union {NoFlow}
        /\ orderUrls' \subseteq UpOrders
    BY <1>2 DEF AcquireDomainLock, Goto
  <2>7. inflight' \subseteq [order : UpOrders, csr : Flows]
    BY <1>2 DEF AcquireDomainLock, Goto
  <2> QED
    BY <2>1, <2>2, <2>3, <2>4, <2>5, <2>6, <2>7
<1>3. ASSUME NEW f \in Flows, NEW o \in UpOrders, NEW s \in {"pending", "ready"}, NewOrder(f, o, s)
      PROVE  TypeOK'
  <2>1. flow' \in [Flows -> Flow]
    BY <1>3, FlowUpdate DEF NewOrder
  <2>2. \A g \in Flows : (~Is(g, "idle"))' => DomainOf(g)' \in Domains
    BY <1>3 DEF NewOrder, Flow
  <2>3. \A g \in Flows : (flow[g].pc \in Running \ {"order"})' => OrderOf(g)' \in UpOrders
    BY <1>3 DEF NewOrder, Flow
  <2>4. zone' \in Zone /\ domainLock' \in [Domains -> Flows \union {NoFlow}]
    BY <1>3 DEF NewOrder, Flow, Zone
  <2>5. upstream' \in [UpOrders -> UpOrder]
    <3>1. flow[f].domain \in Domains /\ upstream[o] \in UpOrder
      BY <1>3 DEF NewOrder
    <3>2. [upstream[o] EXCEPT !.status = s, !.domain = flow[f].domain] \in UpOrder
      BY <3>1, UpOrderUpdate
    <3> QED
      BY <1>3, <3>2 DEF NewOrder
  <2>6. /\ provider' \in Providers
        /\ zoneLock' \in Flows \union {NoFlow}
        /\ orderUrls' \subseteq UpOrders
    BY <1>3 DEF NewOrder
  <2>7. inflight' \subseteq [order : UpOrders, csr : Flows]
    BY <1>3 DEF NewOrder
  <2> QED
    BY <2>1, <2>2, <2>3, <2>4, <2>5, <2>6, <2>7
<1>4. ASSUME NEW f \in Flows, NewOrderFails(f) PROVE TypeOK'
  <2>1. flow' \in [Flows -> Flow]
    BY <1>4, FlowUpdate DEF NewOrderFails, Fail, Return
  <2>2. \A g \in Flows : (~Is(g, "idle"))' => DomainOf(g)' \in Domains
    BY <1>4 DEF NewOrderFails, Fail, Return, Flow
  <2>3. \A g \in Flows : (flow[g].pc \in Running \ {"order"})' => OrderOf(g)' \in UpOrders
    BY <1>4 DEF NewOrderFails, Fail, Return, Flow
  <2>4. zone' \in Zone /\ domainLock' \in [Domains -> Flows \union {NoFlow}]
    BY <1>4 DEF NewOrderFails, Fail, Return, Flow, Zone
  <2>5. upstream' \in [UpOrders -> UpOrder]
    BY <1>4 DEF NewOrderFails, Fail, Return, UpOrder, Flow
  <2>6. /\ provider' \in Providers
        /\ zoneLock' \in Flows \union {NoFlow}
        /\ orderUrls' \subseteq UpOrders
    BY <1>4 DEF NewOrderFails, Fail, Return
  <2>7. inflight' \subseteq [order : UpOrders, csr : Flows]
    BY <1>4 DEF NewOrderFails, Fail, Return
  <2> QED
    BY <2>1, <2>2, <2>3, <2>4, <2>5, <2>6, <2>7
<1>5. ASSUME NEW f \in Flows, ReadForSet(f) PROVE TypeOK'
  <2>1. flow' \in [Flows -> Flow]
    BY <1>5, FlowUpdate DEF ReadForSet, ReadZone
  <2>2. \A g \in Flows : (~Is(g, "idle"))' => DomainOf(g)' \in Domains
    BY <1>5 DEF ReadForSet, ReadZone, Flow
  <2>3. \A g \in Flows : (flow[g].pc \in Running \ {"order"})' => OrderOf(g)' \in UpOrders
    BY <1>5 DEF ReadForSet, ReadZone, Flow
  <2>4. zone' \in Zone /\ domainLock' \in [Domains -> Flows \union {NoFlow}]
    BY <1>5 DEF ReadForSet, ReadZone, Flow, Zone
  <2>5. upstream' \in [UpOrders -> UpOrder]
    BY <1>5 DEF ReadForSet, ReadZone, UpOrder, Flow
  <2>6. /\ provider' \in Providers
        /\ zoneLock' \in Flows \union {NoFlow}
        /\ orderUrls' \subseteq UpOrders
    BY <1>5 DEF ReadForSet, ReadZone
  <2>7. inflight' \subseteq [order : UpOrders, csr : Flows]
    BY <1>5 DEF ReadForSet, ReadZone
  <2> QED
    BY <2>1, <2>2, <2>3, <2>4, <2>5, <2>6, <2>7
<1>6. ASSUME NEW f \in Flows, SetTxt(f) PROVE TypeOK'
  <2>1. flow' \in [Flows -> Flow]
    BY <1>6 DEF SetTxt, WithTxt, AddRecord, WriteHosts, Unlocked, Goto, Refused, Flow
  <2>2. \A g \in Flows : (~Is(g, "idle"))' => DomainOf(g)' \in Domains
    BY <1>6 DEF SetTxt, WithTxt, AddRecord, WriteHosts, Unlocked, Goto, Refused, Flow
  <2>3. \A g \in Flows : (flow[g].pc \in Running \ {"order"})' => OrderOf(g)' \in UpOrders
    BY <1>6 DEF SetTxt, WithTxt, AddRecord, WriteHosts, Unlocked, Goto, Refused, Flow
  <2>4. zone' \in Zone /\ domainLock' \in [Domains -> Flows \union {NoFlow}]
    BY <1>6 DEF SetTxt, WithTxt, AddRecord, WriteHosts, Unlocked, Goto, Refused, Flow, Zone
  <2>5. upstream' \in [UpOrders -> UpOrder]
    BY <1>6 DEF SetTxt, WithTxt, AddRecord, WriteHosts, Unlocked, Goto, Refused, UpOrder, Flow
  <2>6. /\ provider' \in Providers
        /\ zoneLock' \in Flows \union {NoFlow}
        /\ orderUrls' \subseteq UpOrders
    BY <1>6 DEF SetTxt, WithTxt, AddRecord, WriteHosts, Unlocked, Goto, Refused
  <2>7. inflight' \subseteq [order : UpOrders, csr : Flows]
    BY <1>6 DEF SetTxt, WithTxt, AddRecord, WriteHosts, Unlocked, Goto, Refused
  <2> QED
    BY <2>1, <2>2, <2>3, <2>4, <2>5, <2>6, <2>7
<1>7. ASSUME NEW f \in Flows, NEW b \in BOOLEAN, SetTxtFails(f, b) PROVE TypeOK'
  <2>1. flow' \in [Flows -> Flow]
    BY <1>7, FlowUpdate DEF SetTxtFails, WithTxt, AddRecord, WriteHosts, Unlocked, Fail, Return,
       Refused
  <2>2. \A g \in Flows : (~Is(g, "idle"))' => DomainOf(g)' \in Domains
    BY <1>7 DEF SetTxtFails, WithTxt, AddRecord, WriteHosts, Unlocked, Fail, Return, Refused, Flow
  <2>3. \A g \in Flows : (flow[g].pc \in Running \ {"order"})' => OrderOf(g)' \in UpOrders
    BY <1>7 DEF SetTxtFails, WithTxt, AddRecord, WriteHosts, Unlocked, Fail, Return, Refused, Flow
  <2>4. zone' \in Zone /\ domainLock' \in [Domains -> Flows \union {NoFlow}]
    BY <1>7 DEF SetTxtFails, WithTxt, AddRecord, WriteHosts, Unlocked, Fail, Return, Refused,
       Flow, Zone
  <2>5. upstream' \in [UpOrders -> UpOrder]
    BY <1>7 DEF SetTxtFails, WithTxt, AddRecord, WriteHosts, Unlocked, Fail, Return, Refused,
       UpOrder, Flow
  <2>6. /\ provider' \in Providers
        /\ zoneLock' \in Flows \union {NoFlow}
        /\ orderUrls' \subseteq UpOrders
    BY <1>7 DEF SetTxtFails, WithTxt, AddRecord, WriteHosts, Unlocked, Fail, Return, Refused
  <2>7. inflight' \subseteq [order : UpOrders, csr : Flows]
    BY <1>7 DEF SetTxtFails, WithTxt, AddRecord, WriteHosts, Unlocked, Fail, Return, Refused
  <2> QED
    BY <2>1, <2>2, <2>3, <2>4, <2>5, <2>6, <2>7
<1>8. ASSUME NEW f \in Flows, Validate(f) PROVE TypeOK'
  <2>1. flow' \in [Flows -> Flow]
    BY <1>8 DEF Validate, Goto, Flow
  <2>2. \A g \in Flows : (~Is(g, "idle"))' => DomainOf(g)' \in Domains
    BY <1>8 DEF Validate, Goto, Flow
  <2>3. \A g \in Flows : (flow[g].pc \in Running \ {"order"})' => OrderOf(g)' \in UpOrders
    BY <1>8 DEF Validate, Goto, Flow
  <2>4. zone' \in Zone /\ domainLock' \in [Domains -> Flows \union {NoFlow}]
    BY <1>8 DEF Validate, Goto, Flow, Zone
  <2>5. upstream' \in [UpOrders -> UpOrder]
    BY <1>8 DEF Validate, Goto, UpOrder, Flow
  <2>6. /\ provider' \in Providers
        /\ zoneLock' \in Flows \union {NoFlow}
        /\ orderUrls' \subseteq UpOrders
    BY <1>8 DEF Validate, Goto
  <2>7. inflight' \subseteq [order : UpOrders, csr : Flows]
    BY <1>8 DEF Validate, Goto
  <2> QED
    BY <2>1, <2>2, <2>3, <2>4, <2>5, <2>6, <2>7
<1>9. ASSUME NEW f \in Flows, NEW s \in {"pending", "invalid"}, ValidateFails(f, s) PROVE TypeOK'
  <2>1. flow' \in [Flows -> Flow]
    BY <1>9, FlowUpdate DEF ValidateFails, Fail, Return
  <2>2. \A g \in Flows : (~Is(g, "idle"))' => DomainOf(g)' \in Domains
    BY <1>9 DEF ValidateFails, Fail, Return, Flow
  <2>3. \A g \in Flows : (flow[g].pc \in Running \ {"order"})' => OrderOf(g)' \in UpOrders
    BY <1>9 DEF ValidateFails, Fail, Return, Flow
  <2>4. zone' \in Zone /\ domainLock' \in [Domains -> Flows \union {NoFlow}]
    BY <1>9 DEF ValidateFails, Fail, Return, Flow, Zone
  <2>5. upstream' \in [UpOrders -> UpOrder]
    BY <1>9 DEF ValidateFails, Fail, Return, UpOrder, Flow
  <2>6. /\ provider' \in Providers
        /\ zoneLock' \in Flows \union {NoFlow}
        /\ orderUrls' \subseteq UpOrders
    BY <1>9 DEF ValidateFails, Fail, Return
  <2>7. inflight' \subseteq [order : UpOrders, csr : Flows]
    BY <1>9 DEF ValidateFails, Fail, Return
  <2> QED
    BY <2>1, <2>2, <2>3, <2>4, <2>5, <2>6, <2>7
<1>10. ASSUME NEW f \in Flows, ReadForClear(f) PROVE TypeOK'
  <2>1. flow' \in [Flows -> Flow]
    BY <1>10, FlowUpdate DEF ReadForClear, ReadZone
  <2>2. \A g \in Flows : (~Is(g, "idle"))' => DomainOf(g)' \in Domains
    BY <1>10 DEF ReadForClear, ReadZone, Flow
  <2>3. \A g \in Flows : (flow[g].pc \in Running \ {"order"})' => OrderOf(g)' \in UpOrders
    BY <1>10 DEF ReadForClear, ReadZone, Flow
  <2>4. zone' \in Zone /\ domainLock' \in [Domains -> Flows \union {NoFlow}]
    BY <1>10 DEF ReadForClear, ReadZone, Flow, Zone
  <2>5. upstream' \in [UpOrders -> UpOrder]
    BY <1>10 DEF ReadForClear, ReadZone, UpOrder, Flow
  <2>6. /\ provider' \in Providers
        /\ zoneLock' \in Flows \union {NoFlow}
        /\ orderUrls' \subseteq UpOrders
    BY <1>10 DEF ReadForClear, ReadZone
  <2>7. inflight' \subseteq [order : UpOrders, csr : Flows]
    BY <1>10 DEF ReadForClear, ReadZone
  <2> QED
    BY <2>1, <2>2, <2>3, <2>4, <2>5, <2>6, <2>7
<1>11. ASSUME NEW f \in Flows, NEW gone \in SUBSET UpOrders, ClearTxt(f, gone) PROVE TypeOK'
  <2>1. flow' \in [Flows -> Flow]
    BY <1>11 DEF ClearTxt, Cleared, DeleteRecords, WriteFilteredHosts, Unlocked, Goto, Flow
  <2>2. \A g \in Flows : (~Is(g, "idle"))' => DomainOf(g)' \in Domains
    BY <1>11 DEF ClearTxt, Cleared, DeleteRecords, WriteFilteredHosts, Unlocked, Goto, Flow
  <2>3. \A g \in Flows : (flow[g].pc \in Running \ {"order"})' => OrderOf(g)' \in UpOrders
    BY <1>11 DEF ClearTxt, Cleared, DeleteRecords, WriteFilteredHosts, Unlocked, Goto, Flow
  <2>4. zone' \in Zone /\ domainLock' \in [Domains -> Flows \union {NoFlow}]
    BY <1>11 DEF ClearTxt, Cleared, DeleteRecords, WriteFilteredHosts, Unlocked, Goto, Flow, Zone
  <2>5. upstream' \in [UpOrders -> UpOrder]
    BY <1>11 DEF ClearTxt, Cleared, DeleteRecords, WriteFilteredHosts, Unlocked, Goto, UpOrder, Flow
  <2>6. /\ provider' \in Providers
        /\ zoneLock' \in Flows \union {NoFlow}
        /\ orderUrls' \subseteq UpOrders
    BY <1>11 DEF ClearTxt, Cleared, DeleteRecords, WriteFilteredHosts, Unlocked, Goto
  <2>7. inflight' \subseteq [order : UpOrders, csr : Flows]
    BY <1>11 DEF ClearTxt, Cleared, DeleteRecords, WriteFilteredHosts, Unlocked, Goto
  <2> QED
    BY <2>1, <2>2, <2>3, <2>4, <2>5, <2>6, <2>7
<1>12. ASSUME NEW f \in Flows, PostFinalize(f) PROVE TypeOK'
  <2>1. flow' \in [Flows -> Flow]
    BY <1>12 DEF PostFinalize, Goto, Flow
  <2>2. \A g \in Flows : (~Is(g, "idle"))' => DomainOf(g)' \in Domains
    BY <1>12 DEF PostFinalize, Goto, Flow
  <2>3. \A g \in Flows : (flow[g].pc \in Running \ {"order"})' => OrderOf(g)' \in UpOrders
    BY <1>12 DEF PostFinalize, Goto, Flow
  <2>4. zone' \in Zone /\ domainLock' \in [Domains -> Flows \union {NoFlow}]
    BY <1>12 DEF PostFinalize, Goto, Flow, Zone
  <2>5. upstream' \in [UpOrders -> UpOrder]
    BY <1>12 DEF PostFinalize, Goto, UpOrder, Flow
  <2>6. /\ provider' \in Providers
        /\ zoneLock' \in Flows \union {NoFlow}
        /\ orderUrls' \subseteq UpOrders
    BY <1>12 DEF PostFinalize, Goto
  <2>7. inflight' \subseteq [order : UpOrders, csr : Flows]
    BY <1>12 DEF PostFinalize, Goto
  <2> QED
    BY <2>1, <2>2, <2>3, <2>4, <2>5, <2>6, <2>7
<1>13. ASSUME NEW f \in Flows, FinalizeTimeout(f) PROVE TypeOK'
  <2>1. flow' \in [Flows -> Flow]
    BY <1>13, FlowUpdate DEF FinalizeTimeout, Fail, Return
  <2>2. \A g \in Flows : (~Is(g, "idle"))' => DomainOf(g)' \in Domains
    BY <1>13 DEF FinalizeTimeout, Fail, Return, Flow
  <2>3. \A g \in Flows : (flow[g].pc \in Running \ {"order"})' => OrderOf(g)' \in UpOrders
    BY <1>13 DEF FinalizeTimeout, Fail, Return, Flow
  <2>4. zone' \in Zone /\ domainLock' \in [Domains -> Flows \union {NoFlow}]
    BY <1>13 DEF FinalizeTimeout, Fail, Return, Flow, Zone
  <2>5. upstream' \in [UpOrders -> UpOrder]
    BY <1>13 DEF FinalizeTimeout, Fail, Return, UpOrder, Flow
  <2>6. /\ provider' \in Providers
        /\ zoneLock' \in Flows \union {NoFlow}
        /\ orderUrls' \subseteq UpOrders
    BY <1>13 DEF FinalizeTimeout, Fail, Return
  <2>7. inflight' \subseteq [order : UpOrders, csr : Flows]
    BY <1>13 DEF FinalizeTimeout, Fail, Return
  <2> QED
    BY <2>1, <2>2, <2>3, <2>4, <2>5, <2>6, <2>7
<1>14. ASSUME NEW f \in Flows, PollValid(f) PROVE TypeOK'
  <2>1. flow' \in [Flows -> Flow]
    <3>1. upstream[flow[f].order].csr \in Flows \union {NoFlow}
      BY <1>14 DEF PollValid, UpOrder
    <3> QED
      BY <1>14, <3>1, FlowUpdate DEF PollValid, Return
  <2>2. \A g \in Flows : (~Is(g, "idle"))' => DomainOf(g)' \in Domains
    BY <1>14 DEF PollValid, Return, Flow
  <2>3. \A g \in Flows : (flow[g].pc \in Running \ {"order"})' => OrderOf(g)' \in UpOrders
    BY <1>14 DEF PollValid, Return, Flow
  <2>4. zone' \in Zone /\ domainLock' \in [Domains -> Flows \union {NoFlow}]
    BY <1>14 DEF PollValid, Return, Flow, Zone
  <2>5. upstream' \in [UpOrders -> UpOrder]
    BY <1>14 DEF PollValid, Return, UpOrder, Flow
  <2>6. /\ provider' \in Providers
        /\ zoneLock' \in Flows \union {NoFlow}
        /\ orderUrls' \subseteq UpOrders
    BY <1>14 DEF PollValid, Return
  <2>7. inflight' \subseteq [order : UpOrders, csr : Flows]
    BY <1>14 DEF PollValid, Return
  <2> QED
    BY <2>1, <2>2, <2>3, <2>4, <2>5, <2>6, <2>7
<1>15. ASSUME NEW f \in Flows, PollFails(f) PROVE TypeOK'
  <2>1. flow' \in [Flows -> Flow]
    BY <1>15, FlowUpdate DEF PollFails, Fail, Return
  <2>2. \A g \in Flows : (~Is(g, "idle"))' => DomainOf(g)' \in Domains
    BY <1>15 DEF PollFails, Fail, Return, Flow
  <2>3. \A g \in Flows : (flow[g].pc \in Running \ {"order"})' => OrderOf(g)' \in UpOrders
    BY <1>15 DEF PollFails, Fail, Return, Flow
  <2>4. zone' \in Zone /\ domainLock' \in [Domains -> Flows \union {NoFlow}]
    BY <1>15 DEF PollFails, Fail, Return, Flow, Zone
  <2>5. upstream' \in [UpOrders -> UpOrder]
    BY <1>15 DEF PollFails, Fail, Return, UpOrder, Flow
  <2>6. /\ provider' \in Providers
        /\ zoneLock' \in Flows \union {NoFlow}
        /\ orderUrls' \subseteq UpOrders
    BY <1>15 DEF PollFails, Fail, Return
  <2>7. inflight' \subseteq [order : UpOrders, csr : Flows]
    BY <1>15 DEF PollFails, Fail, Return
  <2> QED
    BY <2>1, <2>2, <2>3, <2>4, <2>5, <2>6, <2>7
<1>16. ASSUME NEW m \in inflight, CaFinalize(m) PROVE TypeOK'
  <2>1. flow' \in [Flows -> Flow]
    BY <1>16 DEF CaFinalize, Flow
  <2>2. \A g \in Flows : (~Is(g, "idle"))' => DomainOf(g)' \in Domains
    BY <1>16 DEF CaFinalize, Flow
  <2>3. \A g \in Flows : (flow[g].pc \in Running \ {"order"})' => OrderOf(g)' \in UpOrders
    BY <1>16 DEF CaFinalize, Flow
  <2>4. zone' \in Zone /\ domainLock' \in [Domains -> Flows \union {NoFlow}]
    BY <1>16 DEF CaFinalize, Flow, Zone
  <2>5. upstream' \in [UpOrders -> UpOrder]
    BY <1>16, UpOrderUpdate DEF CaFinalize
  <2>6. /\ provider' \in Providers
        /\ zoneLock' \in Flows \union {NoFlow}
        /\ orderUrls' \subseteq UpOrders
    BY <1>16 DEF CaFinalize
  <2>7. inflight' \subseteq [order : UpOrders, csr : Flows]
    BY <1>16 DEF CaFinalize
  <2> QED
    BY <2>1, <2>2, <2>3, <2>4, <2>5, <2>6, <2>7
<1>17. ASSUME NEW o \in UpOrders, NEW s \in {"valid", "invalid"}, CaIssue(o, s) PROVE TypeOK'
  <2>1. flow' \in [Flows -> Flow]
    BY <1>17 DEF CaIssue, Flow
  <2>2. \A g \in Flows : (~Is(g, "idle"))' => DomainOf(g)' \in Domains
    BY <1>17 DEF CaIssue, Flow
  <2>3. \A g \in Flows : (flow[g].pc \in Running \ {"order"})' => OrderOf(g)' \in UpOrders
    BY <1>17 DEF CaIssue, Flow
  <2>4. zone' \in Zone /\ domainLock' \in [Domains -> Flows \union {NoFlow}]
    BY <1>17 DEF CaIssue, Flow, Zone
  <2>5. upstream' \in [UpOrders -> UpOrder]
    BY <1>17 DEF CaIssue, UpOrder, Flow
  <2>6. /\ provider' \in Providers
        /\ zoneLock' \in Flows \union {NoFlow}
        /\ orderUrls' \subseteq UpOrders
    BY <1>17 DEF CaIssue
  <2>7. inflight' \subseteq [order : UpOrders, csr : Flows]
    BY <1>17 DEF CaIssue
  <2> QED
    BY <2>1, <2>2, <2>3, <2>4, <2>5, <2>6, <2>7
<1>18. CASE Restart
  <2>1. flow' \in [Flows -> Flow]
    BY <1>18 DEF Restart, Flow
  <2>2. \A g \in Flows : (~Is(g, "idle"))' => DomainOf(g)' \in Domains
    BY <1>18 DEF Restart, Flow
  <2>3. \A g \in Flows : (flow[g].pc \in Running \ {"order"})' => OrderOf(g)' \in UpOrders
    BY <1>18 DEF Restart, Flow
  <2>4. zone' \in Zone /\ domainLock' \in [Domains -> Flows \union {NoFlow}]
    BY <1>18 DEF Restart, Flow, Zone
  <2>5. upstream' \in [UpOrders -> UpOrder]
    BY <1>18 DEF Restart, UpOrder, Flow
  <2>6. /\ provider' \in Providers
        /\ zoneLock' \in Flows \union {NoFlow}
        /\ orderUrls' \subseteq UpOrders
    BY <1>18 DEF Restart
  <2>7. inflight' \subseteq [order : UpOrders, csr : Flows]
    BY <1>18 DEF Restart
  <2> QED
    BY <2>1, <2>2, <2>3, <2>4, <2>5, <2>6, <2>7
<1>19. CASE UNCHANGED vars
  BY <1>19 DEF vars
<1> QED
  BY <1>1, <1>2, <1>3, <1>4, <1>5, <1>6, <1>7, <1>8, <1>9, <1>10, <1>11, <1>12, <1>13, <1>14,
     <1>15, <1>16, <1>17, <1>18, <1>19 DEF Next, FlowStep, CaStep

(* Every variable of the issuance flow keeps its type, on every path       *)
(* through order_cert, for any number of flows, domains and orders.        *)
THEOREM TypeCorrect == Spec => []TypeOK
<1>1. Init => TypeOK
  BY ConstantsAssumption DEF Init, TypeOK, FlowsOK, Zone, Flow, UpOrder, Pcs, Running, Is, DomainOf,
     OrderOf, EmptyZone
<1> QED
  BY <1>1, TypeStep, PTL DEF Spec

-------------------------------------------------------------------------------
(* The lock of a domain changes hands only when its holder is done. *)
LEMMA LockStep ==
    ASSUME TypeOK, LockHeld, [Next]_vars
    PROVE  LockHeld'
<1> USE ConstantsAssumption DEF TypeOK, FlowsOK, Zone, Flow, Pcs, Running, Is, DomainOf, OrderOf, LockHeld
<1>1. ASSUME NEW f \in Flows, NEW d \in Domains, OrderCert(f, d) PROVE LockHeld'
  BY <1>1 DEF OrderCert
<1>2. ASSUME NEW f \in Flows, AcquireDomainLock(f) PROVE LockHeld'
  BY <1>2 DEF AcquireDomainLock, Goto
<1>3. ASSUME NEW f \in Flows, NEW o \in UpOrders, NEW s \in {"pending", "ready"}, NewOrder(f, o, s)
      PROVE  LockHeld'
  BY <1>3 DEF NewOrder, Status
<1>4. ASSUME NEW f \in Flows, NewOrderFails(f) PROVE LockHeld'
  BY <1>4 DEF NewOrderFails, Fail, Return
<1>5. ASSUME NEW f \in Flows, ReadForSet(f) PROVE LockHeld'
  BY <1>5 DEF ReadForSet, ReadZone
<1>6. ASSUME NEW f \in Flows, SetTxt(f) PROVE LockHeld'
  BY <1>6 DEF SetTxt, WithTxt, AddRecord, WriteHosts, Unlocked, Goto, Refused
<1>7. ASSUME NEW f \in Flows, NEW b \in BOOLEAN, SetTxtFails(f, b) PROVE LockHeld'
  BY <1>7 DEF SetTxtFails, WithTxt, AddRecord, WriteHosts, Unlocked, Fail, Return, Refused
<1>8. ASSUME NEW f \in Flows, Validate(f) PROVE LockHeld'
  BY <1>8 DEF Validate, Goto
<1>9. ASSUME NEW f \in Flows, NEW s \in {"pending", "invalid"}, ValidateFails(f, s) PROVE LockHeld'
  BY <1>9 DEF ValidateFails, Fail, Return
<1>10. ASSUME NEW f \in Flows, ReadForClear(f) PROVE LockHeld'
  BY <1>10 DEF ReadForClear, ReadZone
<1>11. ASSUME NEW f \in Flows, NEW gone \in SUBSET UpOrders, ClearTxt(f, gone) PROVE LockHeld'
  BY <1>11 DEF ClearTxt, Cleared, DeleteRecords, WriteFilteredHosts, Unlocked, Goto
<1>12. ASSUME NEW f \in Flows, PostFinalize(f) PROVE LockHeld'
  BY <1>12 DEF PostFinalize, Goto
<1>13. ASSUME NEW f \in Flows, FinalizeTimeout(f) PROVE LockHeld'
  BY <1>13 DEF FinalizeTimeout, Fail, Return
<1>14. ASSUME NEW f \in Flows, PollValid(f) PROVE LockHeld'
  BY <1>14 DEF PollValid, Status, Return
<1>15. ASSUME NEW f \in Flows, PollFails(f) PROVE LockHeld'
  BY <1>15 DEF PollFails, Fail, Return
<1>16. ASSUME NEW m \in inflight, CaFinalize(m) PROVE LockHeld'
  BY <1>16 DEF CaFinalize
<1>17. ASSUME NEW o \in UpOrders, NEW s \in {"valid", "invalid"}, CaIssue(o, s) PROVE LockHeld'
  BY <1>17 DEF CaIssue, Status
<1>18. CASE Restart
  BY <1>18 DEF Restart
<1>19. CASE UNCHANGED vars
  BY <1>19 DEF vars
<1> QED
  BY <1>1, <1>2, <1>3, <1>4, <1>5, <1>6, <1>7, <1>8, <1>9, <1>10, <1>11, <1>12, <1>13, <1>14,
     <1>15, <1>16, <1>17, <1>18, <1>19 DEF Next, FlowStep, CaStep

(* Nobody writes the zone between another flow's read and write. *)
LEMMA SnapshotStep ==
    ASSUME TypeOK, SnapshotFresh, [Next]_vars
    PROVE  SnapshotFresh'
<1> USE ConstantsAssumption DEF TypeOK, FlowsOK, Zone, Flow, Pcs, Running, Is, DomainOf, OrderOf, SnapshotFresh
<1>1. ASSUME NEW f \in Flows, NEW d \in Domains, OrderCert(f, d) PROVE SnapshotFresh'
  BY <1>1 DEF OrderCert
<1>2. ASSUME NEW f \in Flows, AcquireDomainLock(f) PROVE SnapshotFresh'
  BY <1>2 DEF AcquireDomainLock, Goto
<1>3. ASSUME NEW f \in Flows, NEW o \in UpOrders, NEW s \in {"pending", "ready"}, NewOrder(f, o, s)
      PROVE  SnapshotFresh'
  BY <1>3 DEF NewOrder, Status
<1>4. ASSUME NEW f \in Flows, NewOrderFails(f) PROVE SnapshotFresh'
  BY <1>4 DEF NewOrderFails, Fail, Return
<1>5. ASSUME NEW f \in Flows, ReadForSet(f) PROVE SnapshotFresh'
  BY <1>5 DEF ReadForSet, ReadZone
<1>6. ASSUME NEW f \in Flows, SetTxt(f) PROVE SnapshotFresh'
  BY <1>6 DEF SetTxt, WithTxt, AddRecord, WriteHosts, Unlocked, Goto, Refused
<1>7. ASSUME NEW f \in Flows, NEW b \in BOOLEAN, SetTxtFails(f, b) PROVE SnapshotFresh'
  BY <1>7 DEF SetTxtFails, WithTxt, AddRecord, WriteHosts, Unlocked, Fail, Return, Refused
<1>8. ASSUME NEW f \in Flows, Validate(f) PROVE SnapshotFresh'
  BY <1>8 DEF Validate, Goto
<1>9. ASSUME NEW f \in Flows, NEW s \in {"pending", "invalid"}, ValidateFails(f, s)
      PROVE  SnapshotFresh'
  BY <1>9 DEF ValidateFails, Fail, Return
<1>10. ASSUME NEW f \in Flows, ReadForClear(f) PROVE SnapshotFresh'
  BY <1>10 DEF ReadForClear, ReadZone
<1>11. ASSUME NEW f \in Flows, NEW gone \in SUBSET UpOrders, ClearTxt(f, gone) PROVE SnapshotFresh'
  BY <1>11 DEF ClearTxt, Cleared, DeleteRecords, WriteFilteredHosts, Unlocked, Goto
<1>12. ASSUME NEW f \in Flows, PostFinalize(f) PROVE SnapshotFresh'
  BY <1>12 DEF PostFinalize, Goto
<1>13. ASSUME NEW f \in Flows, FinalizeTimeout(f) PROVE SnapshotFresh'
  BY <1>13 DEF FinalizeTimeout, Fail, Return
<1>14. ASSUME NEW f \in Flows, PollValid(f) PROVE SnapshotFresh'
  BY <1>14 DEF PollValid, Status, Return
<1>15. ASSUME NEW f \in Flows, PollFails(f) PROVE SnapshotFresh'
  BY <1>15 DEF PollFails, Fail, Return
<1>16. ASSUME NEW m \in inflight, CaFinalize(m) PROVE SnapshotFresh'
  BY <1>16 DEF CaFinalize
<1>17. ASSUME NEW o \in UpOrders, NEW s \in {"valid", "invalid"}, CaIssue(o, s) PROVE SnapshotFresh'
  BY <1>17 DEF CaIssue, Status
<1>18. CASE Restart
  BY <1>18 DEF Restart
<1>19. CASE UNCHANGED vars
  BY <1>19 DEF vars
<1> QED
  BY <1>1, <1>2, <1>3, <1>4, <1>5, <1>6, <1>7, <1>8, <1>9, <1>10, <1>11, <1>12, <1>13, <1>14,
     <1>15, <1>16, <1>17, <1>18, <1>19 DEF Next, FlowStep, CaStep

(* An upstream order never changes its domain. *)
LEMMA OrderStep ==
    ASSUME TypeOK, OrderInDomain, [Next]_vars
    PROVE  OrderInDomain'
<1> USE ConstantsAssumption DEF TypeOK, FlowsOK, Zone, Flow, UpOrder, Pcs, Running, Is, DomainOf, OrderOf, OrderInDomain
<1>1. ASSUME NEW f \in Flows, NEW d \in Domains, OrderCert(f, d) PROVE OrderInDomain'
  BY <1>1 DEF OrderCert
<1>2. ASSUME NEW f \in Flows, AcquireDomainLock(f) PROVE OrderInDomain'
  BY <1>2 DEF AcquireDomainLock, Goto
<1>3. ASSUME NEW f \in Flows, NEW o \in UpOrders, NEW s \in {"pending", "ready"}, NewOrder(f, o, s)
      PROVE  OrderInDomain'
  <2>1. /\ flow[f].domain \in Domains
        /\ upstream[o] \in [status : {"none", "pending", "ready", "processing", "valid", "invalid"}, domain : Domains \union {NoDomain}, csr : Flows \union {NoFlow}]
    BY <1>3 DEF NewOrder
  <2>2. upstream'[o].domain = flow[f].domain /\ upstream'[o].status # "none"
    BY <1>3, <2>1, NewOrderUpstream DEF UpOrder
  <2>3. \A u \in UpOrders : u # o => upstream'[u] = upstream[u]
    BY <1>3 DEF NewOrder
  <2>4. upstream[o].domain = flow[f].domain \/ upstream[o].status = "none"
    BY <1>3 DEF NewOrder, Status
  <2>5. /\ flow'[f].domain = flow[f].domain
        /\ flow'[f].order = o
        /\ \A g \in Flows : g # f => flow'[g] = flow[g]
    BY <1>3 DEF NewOrder
  <2> QED
    BY <1>3, <2>1, <2>2, <2>3, <2>4, <2>5
<1>4. ASSUME NEW f \in Flows, NewOrderFails(f) PROVE OrderInDomain'
  BY <1>4 DEF NewOrderFails, Fail, Return
<1>5. ASSUME NEW f \in Flows, ReadForSet(f) PROVE OrderInDomain'
  BY <1>5 DEF ReadForSet, ReadZone
<1>6. ASSUME NEW f \in Flows, SetTxt(f) PROVE OrderInDomain'
  BY <1>6 DEF SetTxt, WithTxt, AddRecord, WriteHosts, Unlocked, Goto, Refused
<1>7. ASSUME NEW f \in Flows, NEW b \in BOOLEAN, SetTxtFails(f, b) PROVE OrderInDomain'
  BY <1>7 DEF SetTxtFails, WithTxt, AddRecord, WriteHosts, Unlocked, Fail, Return, Refused
<1>8. ASSUME NEW f \in Flows, Validate(f) PROVE OrderInDomain'
  BY <1>8 DEF Validate, Goto
<1>9. ASSUME NEW f \in Flows, NEW s \in {"pending", "invalid"}, ValidateFails(f, s)
      PROVE  OrderInDomain'
  BY <1>9 DEF ValidateFails, Fail, Return
<1>10. ASSUME NEW f \in Flows, ReadForClear(f) PROVE OrderInDomain'
  BY <1>10 DEF ReadForClear, ReadZone
<1>11. ASSUME NEW f \in Flows, NEW gone \in SUBSET UpOrders, ClearTxt(f, gone) PROVE OrderInDomain'
  BY <1>11 DEF ClearTxt, Cleared, DeleteRecords, WriteFilteredHosts, Unlocked, Goto
<1>12. ASSUME NEW f \in Flows, PostFinalize(f) PROVE OrderInDomain'
  BY <1>12 DEF PostFinalize, Goto
<1>13. ASSUME NEW f \in Flows, FinalizeTimeout(f) PROVE OrderInDomain'
  BY <1>13 DEF FinalizeTimeout, Fail, Return
<1>14. ASSUME NEW f \in Flows, PollValid(f) PROVE OrderInDomain'
  BY <1>14 DEF PollValid, Status, Return
<1>15. ASSUME NEW f \in Flows, PollFails(f) PROVE OrderInDomain'
  BY <1>15 DEF PollFails, Fail, Return
<1>16. ASSUME NEW m \in inflight, CaFinalize(m) PROVE OrderInDomain'
  BY <1>16 DEF CaFinalize
<1>17. ASSUME NEW o \in UpOrders, NEW s \in {"valid", "invalid"}, CaIssue(o, s) PROVE OrderInDomain'
  BY <1>17 DEF CaIssue, Status
<1>18. CASE Restart
  BY <1>18 DEF Restart
<1>19. CASE UNCHANGED vars
  BY <1>19 DEF vars
<1> QED
  BY <1>1, <1>2, <1>3, <1>4, <1>5, <1>6, <1>7, <1>8, <1>9, <1>10, <1>11, <1>12, <1>13, <1>14,
     <1>15, <1>16, <1>17, <1>18, <1>19 DEF Next, FlowStep, CaStep

(* No flow takes the URL of another. *)
LEMMA UrlStep ==
    ASSUME TypeOK, LockHeld, OrderInDomain, UrlKept, [Next]_vars
    PROVE  UrlKept'
<1> USE ConstantsAssumption DEF TypeOK, FlowsOK, Zone, Flow, Pcs, Running, Is, DomainOf, OrderOf, LockHeld, OrderInDomain, UrlKept
<1>1. ASSUME NEW f \in Flows, NEW d \in Domains, OrderCert(f, d) PROVE UrlKept'
  BY <1>1 DEF OrderCert
<1>2. ASSUME NEW f \in Flows, AcquireDomainLock(f) PROVE UrlKept'
  BY <1>2 DEF AcquireDomainLock, Goto
<1>3. ASSUME NEW f \in Flows, NEW o \in UpOrders, NEW s \in {"pending", "ready"}, NewOrder(f, o, s)
      PROVE  UrlKept'
  BY <1>3 DEF NewOrder, Status
<1>4. ASSUME NEW f \in Flows, NewOrderFails(f) PROVE UrlKept'
  BY <1>4 DEF NewOrderFails, Fail, Return
<1>5. ASSUME NEW f \in Flows, ReadForSet(f) PROVE UrlKept'
  BY <1>5 DEF ReadForSet, ReadZone
<1>6. ASSUME NEW f \in Flows, SetTxt(f) PROVE UrlKept'
  BY <1>6 DEF SetTxt, WithTxt, AddRecord, WriteHosts, Unlocked, Goto, Refused
<1>7. ASSUME NEW f \in Flows, NEW b \in BOOLEAN, SetTxtFails(f, b) PROVE UrlKept'
  BY <1>7 DEF SetTxtFails, WithTxt, AddRecord, WriteHosts, Unlocked, Fail, Return, Refused
<1>8. ASSUME NEW f \in Flows, Validate(f) PROVE UrlKept'
  BY <1>8 DEF Validate, Goto
<1>9. ASSUME NEW f \in Flows, NEW s \in {"pending", "invalid"}, ValidateFails(f, s) PROVE UrlKept'
  BY <1>9 DEF ValidateFails, Fail, Return
<1>10. ASSUME NEW f \in Flows, ReadForClear(f) PROVE UrlKept'
  BY <1>10 DEF ReadForClear, ReadZone
<1>11. ASSUME NEW f \in Flows, NEW gone \in SUBSET UpOrders, ClearTxt(f, gone) PROVE UrlKept'
  BY <1>11 DEF ClearTxt, Cleared, DeleteRecords, WriteFilteredHosts, Unlocked, Goto
<1>12. ASSUME NEW f \in Flows, PostFinalize(f) PROVE UrlKept'
  BY <1>12 DEF PostFinalize, Goto
<1>13. ASSUME NEW f \in Flows, FinalizeTimeout(f) PROVE UrlKept'
  BY <1>13 DEF FinalizeTimeout, Fail, Return
<1>14. ASSUME NEW f \in Flows, PollValid(f) PROVE UrlKept'
  BY <1>14 DEF PollValid, Status, Return
<1>15. ASSUME NEW f \in Flows, PollFails(f) PROVE UrlKept'
  BY <1>15 DEF PollFails, Fail, Return
<1>16. ASSUME NEW m \in inflight, CaFinalize(m) PROVE UrlKept'
  BY <1>16 DEF CaFinalize
<1>17. ASSUME NEW o \in UpOrders, NEW s \in {"valid", "invalid"}, CaIssue(o, s) PROVE UrlKept'
  BY <1>17 DEF CaIssue, Status
<1>18. CASE Restart
  BY <1>18 DEF Restart
<1>19. CASE UNCHANGED vars
  BY <1>19 DEF vars
<1> QED
  BY <1>1, <1>2, <1>3, <1>4, <1>5, <1>6, <1>7, <1>8, <1>9, <1>10, <1>11, <1>12, <1>13, <1>14,
     <1>15, <1>16, <1>17, <1>18, <1>19 DEF Next, FlowStep, CaStep

(* No flow removes the record of another. *)
LEMMA RecordStep ==
    ASSUME TypeOK, LockHeld, SnapshotFresh, RecordPresentUntilValidated, [Next]_vars
    PROVE  RecordPresentUntilValidated'
<1> USE ConstantsAssumption DEF TypeOK, FlowsOK, Zone, Flow, Pcs, Running, Is, DomainOf, OrderOf, LockHeld, SnapshotFresh, RecordPresentUntilValidated
<1>1. ASSUME NEW f \in Flows, NEW d \in Domains, OrderCert(f, d) PROVE RecordPresentUntilValidated'
  BY <1>1 DEF OrderCert
<1>2. ASSUME NEW f \in Flows, AcquireDomainLock(f) PROVE RecordPresentUntilValidated'
  BY <1>2 DEF AcquireDomainLock, Goto
<1>3. ASSUME NEW f \in Flows, NEW o \in UpOrders, NEW s \in {"pending", "ready"}, NewOrder(f, o, s)
      PROVE  RecordPresentUntilValidated'
  BY <1>3 DEF NewOrder, Status
<1>4. ASSUME NEW f \in Flows, NewOrderFails(f) PROVE RecordPresentUntilValidated'
  BY <1>4 DEF NewOrderFails, Fail, Return
<1>5. ASSUME NEW f \in Flows, ReadForSet(f) PROVE RecordPresentUntilValidated'
  BY <1>5 DEF ReadForSet, ReadZone
<1>6. ASSUME NEW f \in Flows, SetTxt(f) PROVE RecordPresentUntilValidated'
  BY <1>6 DEF SetTxt, WithTxt, AddRecord, WriteHosts, Unlocked, Goto, Refused
<1>7. ASSUME NEW f \in Flows, NEW b \in BOOLEAN, SetTxtFails(f, b)
      PROVE  RecordPresentUntilValidated'
  BY <1>7 DEF SetTxtFails, WithTxt, AddRecord, WriteHosts, Unlocked, Fail, Return, Refused
<1>8. ASSUME NEW f \in Flows, Validate(f) PROVE RecordPresentUntilValidated'
  BY <1>8 DEF Validate, Goto
<1>9. ASSUME NEW f \in Flows, NEW s \in {"pending", "invalid"}, ValidateFails(f, s)
      PROVE  RecordPresentUntilValidated'
  BY <1>9 DEF ValidateFails, Fail, Return
<1>10. ASSUME NEW f \in Flows, ReadForClear(f) PROVE RecordPresentUntilValidated'
  BY <1>10 DEF ReadForClear, ReadZone
<1>11. ASSUME NEW f \in Flows, NEW gone \in SUBSET UpOrders, ClearTxt(f, gone)
       PROVE  RecordPresentUntilValidated'
  BY <1>11 DEF ClearTxt, Cleared, DeleteRecords, WriteFilteredHosts, Unlocked, Goto
<1>12. ASSUME NEW f \in Flows, PostFinalize(f) PROVE RecordPresentUntilValidated'
  BY <1>12 DEF PostFinalize, Goto
<1>13. ASSUME NEW f \in Flows, FinalizeTimeout(f) PROVE RecordPresentUntilValidated'
  BY <1>13 DEF FinalizeTimeout, Fail, Return
<1>14. ASSUME NEW f \in Flows, PollValid(f) PROVE RecordPresentUntilValidated'
  BY <1>14 DEF PollValid, Status, Return
<1>15. ASSUME NEW f \in Flows, PollFails(f) PROVE RecordPresentUntilValidated'
  BY <1>15 DEF PollFails, Fail, Return
<1>16. ASSUME NEW m \in inflight, CaFinalize(m) PROVE RecordPresentUntilValidated'
  BY <1>16 DEF CaFinalize
<1>17. ASSUME NEW o \in UpOrders, NEW s \in {"valid", "invalid"}, CaIssue(o, s)
       PROVE  RecordPresentUntilValidated'
  BY <1>17 DEF CaIssue, Status
<1>18. CASE Restart
  BY <1>18 DEF Restart
<1>19. CASE UNCHANGED vars
  BY <1>19 DEF vars
<1> QED
  BY <1>1, <1>2, <1>3, <1>4, <1>5, <1>6, <1>7, <1>8, <1>9, <1>10, <1>11, <1>12, <1>13, <1>14,
     <1>15, <1>16, <1>17, <1>18, <1>19 DEF Next, FlowStep, CaStep

(* A record stays someone's until it is gone. *)
LEMMA OwnerStep ==
    ASSUME TypeOK, LockHeld, SnapshotFresh, RecordHasOwner, [Next]_vars
    PROVE  RecordHasOwner'
<1> USE ConstantsAssumption DEF PastSet, TypeOK, FlowsOK, Zone, Flow, Pcs, Running, Is, DomainOf, OrderOf, LockHeld, SnapshotFresh, RecordHasOwner
<1>1. ASSUME NEW f \in Flows, NEW d \in Domains, OrderCert(f, d) PROVE RecordHasOwner'
  BY <1>1 DEF OrderCert
<1>2. ASSUME NEW f \in Flows, AcquireDomainLock(f) PROVE RecordHasOwner'
  BY <1>2 DEF AcquireDomainLock, Goto
<1>3. ASSUME NEW f \in Flows, NEW o \in UpOrders, NEW s \in {"pending", "ready"}, NewOrder(f, o, s)
      PROVE  RecordHasOwner'
  BY <1>3 DEF NewOrder, Status
<1>4. ASSUME NEW f \in Flows, NewOrderFails(f) PROVE RecordHasOwner'
  BY <1>4 DEF NewOrderFails, Fail, Return
<1>5. ASSUME NEW f \in Flows, ReadForSet(f) PROVE RecordHasOwner'
  BY <1>5 DEF ReadForSet, ReadZone
<1>6. ASSUME NEW f \in Flows, SetTxt(f) PROVE RecordHasOwner'
  BY <1>6 DEF SetTxt, WithTxt, AddRecord, WriteHosts, Unlocked, Goto, Refused
<1>7. ASSUME NEW f \in Flows, NEW b \in BOOLEAN, SetTxtFails(f, b)
      PROVE  RecordHasOwner'
  BY <1>7 DEF SetTxtFails, WithTxt, AddRecord, WriteHosts, Unlocked, Fail, Return, Refused
<1>8. ASSUME NEW f \in Flows, Validate(f) PROVE RecordHasOwner'
  BY <1>8 DEF Validate, Goto
<1>9. ASSUME NEW f \in Flows, NEW s \in {"pending", "invalid"}, ValidateFails(f, s)
      PROVE  RecordHasOwner'
  BY <1>9 DEF ValidateFails, Fail, Return
<1>10. ASSUME NEW f \in Flows, ReadForClear(f) PROVE RecordHasOwner'
  BY <1>10 DEF ReadForClear, ReadZone
<1>11. ASSUME NEW f \in Flows, NEW gone \in SUBSET UpOrders, ClearTxt(f, gone)
       PROVE  RecordHasOwner'
  BY <1>11 DEF ClearTxt, Cleared, DeleteRecords, WriteFilteredHosts, Unlocked, Goto
<1>12. ASSUME NEW f \in Flows, PostFinalize(f) PROVE RecordHasOwner'
  BY <1>12 DEF PostFinalize, Goto
<1>13. ASSUME NEW f \in Flows, FinalizeTimeout(f) PROVE RecordHasOwner'
  BY <1>13 DEF FinalizeTimeout, Fail, Return
<1>14. ASSUME NEW f \in Flows, PollValid(f) PROVE RecordHasOwner'
  BY <1>14 DEF PollValid, Status, Return
<1>15. ASSUME NEW f \in Flows, PollFails(f) PROVE RecordHasOwner'
  BY <1>15 DEF PollFails, Fail, Return
<1>16. ASSUME NEW m \in inflight, CaFinalize(m) PROVE RecordHasOwner'
  BY <1>16 DEF CaFinalize
<1>17. ASSUME NEW o \in UpOrders, NEW s \in {"valid", "invalid"}, CaIssue(o, s)
       PROVE  RecordHasOwner'
  BY <1>17 DEF CaIssue, Status
<1>18. CASE Restart
  BY <1>18 DEF Restart
<1>19. CASE UNCHANGED vars
  BY <1>19 DEF vars
<1> QED
  BY <1>1, <1>2, <1>3, <1>4, <1>5, <1>6, <1>7, <1>8, <1>9, <1>10, <1>11, <1>12, <1>13, <1>14,
     <1>15, <1>16, <1>17, <1>18, <1>19 DEF Next, FlowStep, CaStep

-------------------------------------------------------------------------------
(* The inductive invariant of the two locks. *)
LocksInv ==
    TypeOK /\ LockHeld /\ SnapshotFresh /\ OrderInDomain /\ UrlKept /\ RecordPresentUntilValidated

(* It holds in every state. *)
LEMMA LocksInvariant == Spec => []LocksInv
<1>1. Init => LocksInv
  BY ConstantsAssumption DEF Init, LocksInv, TypeOK, FlowsOK, Zone, Flow, UpOrder, Pcs, Running, Is,
     DomainOf, OrderOf, EmptyZone, LockHeld, SnapshotFresh, OrderInDomain, UrlKept,
     RecordPresentUntilValidated
<1>2. LocksInv /\ [Next]_vars => LocksInv'
  BY TypeStep, LockStep, SnapshotStep, OrderStep, UrlStep, RecordStep DEF LocksInv
<1> QED
  BY <1>1, <1>2, PTL DEF Spec

(* The TXT record that fulfill_dns_01 set is in the zone for as long as    *)
(* the CA may look for it, with any provider and any number of flows.      *)
THEOREM RecordStaysUntilValidated == Spec => []RecordPresentUntilValidated
<1>1. LocksInv => RecordPresentUntilValidated
  BY DEF LocksInv
<1> QED
  BY <1>1, LocksInvariant, PTL

(* Flows on the shared client find their own order URL when they finalize. *)
THEOREM OrderUrlNeverTaken == Spec => []OrderUrlAtHand
<1>1. LocksInv => OrderUrlAtHand
  BY DEF LocksInv, UrlKept, OrderUrlAtHand, Running, Pcs, Is
<1> QED
  BY <1>1, LocksInvariant, PTL

(* What makes Route 53 refuse a record was left by a flow that has ended:  *)
(* the lock of the domain keeps running flows from refusing each other.    *)
THEOREM LeftoversOnlyRefuse == Spec => []RefusedByLeftoverOnly
<1>1. Init => RecordHasOwner
  BY DEF Init, RecordHasOwner, EmptyZone
<1>2. LocksInv /\ RecordHasOwner /\ [Next]_vars => RecordHasOwner'
  BY OwnerStep DEF LocksInv
<1>3. LocksInv /\ RecordHasOwner => RefusedByLeftoverOnly
  BY DEF LocksInv, TypeOK, FlowsOK, LockHeld, RecordHasOwner, PastSet, RefusedByLeftoverOnly, Running,
     Pcs, Is, DomainOf, OrderOf
<1> QED
  BY <1>1, <1>2, <1>3, LocksInvariant, PTL DEF Spec

(* No step of a flow changes the records of another name, so Namecheap's   *)
(* whole-list writes lose nothing.                                         *)
THEOREM NoLostUpdate == Spec => OnlyOwnNameWritten
<1>1. ASSUME LocksInv, [Next]_vars, NEW d \in Domains, zone'[d] # zone[d]
      PROVE  \E f \in Flows : domainLock[d] = f /\ flow[f].pc \in {"set_write", "clear_write"}
  <2> USE <1>1 DEF LocksInv, TypeOK, FlowsOK, Zone, Flow, Pcs, Running, Is, DomainOf, OrderOf,
          LockHeld, SnapshotFresh
  <2>1. ASSUME NEW f \in Flows, SetTxt(f) PROVE DomainOf(f) = d /\ flow[f].pc = "set_write"
    BY <2>1 DEF SetTxt, WithTxt, AddRecord, WriteHosts
  <2>2. ASSUME NEW f \in Flows, NEW b \in BOOLEAN, SetTxtFails(f, b)
        PROVE  DomainOf(f) = d /\ flow[f].pc = "set_write"
    BY <2>2 DEF SetTxtFails, WithTxt, AddRecord, WriteHosts
  <2>3. ASSUME NEW f \in Flows, NEW gone \in SUBSET UpOrders, ClearTxt(f, gone)
        PROVE  DomainOf(f) = d /\ flow[f].pc = "clear_write"
    BY <2>3 DEF ClearTxt, Cleared, DeleteRecords, WriteFilteredHosts
  <2>4. \E f \in Flows : \/ SetTxt(f) \/ \E b \in BOOLEAN : SetTxtFails(f, b)
                        \/ \E gone \in SUBSET UpOrders : ClearTxt(f, gone)
    BY DEF Next, FlowStep, CaStep, vars, OrderCert, AcquireDomainLock, NewOrder, NewOrderFails,
       ReadForSet, ReadForClear, Validate, ValidateFails, PostFinalize, FinalizeTimeout, PollValid,
       PollFails, CaFinalize, CaIssue, Restart
  <2> QED
    BY <2>1, <2>2, <2>3, <2>4
<1>2. LocksInv /\ [Next]_vars =>
        [\A d \in Domains : zone'[d] # zone[d] =>
            \E f \in Flows : domainLock[d] = f /\ flow[f].pc \in {"set_write", "clear_write"}]_vars
  BY <1>1
<1> QED
  BY <1>2, LocksInvariant, PTL DEF Spec, OnlyOwnNameWritten

-------------------------------------------------------------------------------
(* A lock is given back in the step in which its holder stops working      *)
(* behind it.                                                              *)
LEMMA OwnedStep ==
    ASSUME TypeOK, LockHeld, LocksOwned, [Next]_vars
    PROVE  LocksOwned'
<1> USE ConstantsAssumption DEF TypeOK, FlowsOK, Zone, Flow, Pcs, Running, Is, DomainOf, OrderOf, LockHeld, LocksOwned
<1>1. ASSUME NEW f \in Flows, NEW d \in Domains, OrderCert(f, d) PROVE LocksOwned'
  BY <1>1 DEF OrderCert
<1>2. ASSUME NEW f \in Flows, AcquireDomainLock(f) PROVE LocksOwned'
  BY <1>2 DEF AcquireDomainLock, Goto
<1>3. ASSUME NEW f \in Flows, NEW o \in UpOrders, NEW s \in {"pending", "ready"}, NewOrder(f, o, s)
      PROVE  LocksOwned'
  BY <1>3 DEF NewOrder, Status
<1>4. ASSUME NEW f \in Flows, NewOrderFails(f) PROVE LocksOwned'
  BY <1>4 DEF NewOrderFails, Fail, Return
<1>5. ASSUME NEW f \in Flows, ReadForSet(f) PROVE LocksOwned'
  BY <1>5 DEF ReadForSet, ReadZone
<1>6. ASSUME NEW f \in Flows, SetTxt(f) PROVE LocksOwned'
  BY <1>6 DEF SetTxt, WithTxt, AddRecord, WriteHosts, Unlocked, Goto, Refused
<1>7. ASSUME NEW f \in Flows, NEW b \in BOOLEAN, SetTxtFails(f, b) PROVE LocksOwned'
  BY <1>7 DEF SetTxtFails, WithTxt, AddRecord, WriteHosts, Unlocked, Fail, Return, Refused
<1>8. ASSUME NEW f \in Flows, Validate(f) PROVE LocksOwned'
  BY <1>8 DEF Validate, Goto
<1>9. ASSUME NEW f \in Flows, NEW s \in {"pending", "invalid"}, ValidateFails(f, s) PROVE LocksOwned'
  BY <1>9 DEF ValidateFails, Fail, Return
<1>10. ASSUME NEW f \in Flows, ReadForClear(f) PROVE LocksOwned'
  BY <1>10 DEF ReadForClear, ReadZone
<1>11. ASSUME NEW f \in Flows, NEW gone \in SUBSET UpOrders, ClearTxt(f, gone) PROVE LocksOwned'
  BY <1>11 DEF ClearTxt, Cleared, DeleteRecords, WriteFilteredHosts, Unlocked, Goto
<1>12. ASSUME NEW f \in Flows, PostFinalize(f) PROVE LocksOwned'
  BY <1>12 DEF PostFinalize, Goto
<1>13. ASSUME NEW f \in Flows, FinalizeTimeout(f) PROVE LocksOwned'
  BY <1>13 DEF FinalizeTimeout, Fail, Return
<1>14. ASSUME NEW f \in Flows, PollValid(f) PROVE LocksOwned'
  BY <1>14 DEF PollValid, Status, Return
<1>15. ASSUME NEW f \in Flows, PollFails(f) PROVE LocksOwned'
  BY <1>15 DEF PollFails, Fail, Return
<1>16. ASSUME NEW m \in inflight, CaFinalize(m) PROVE LocksOwned'
  BY <1>16 DEF CaFinalize
<1>17. ASSUME NEW o \in UpOrders, NEW s \in {"valid", "invalid"}, CaIssue(o, s) PROVE LocksOwned'
  BY <1>17 DEF CaIssue, Status
<1>18. CASE Restart
  BY <1>18 DEF Restart
<1>19. CASE UNCHANGED vars
  BY <1>19 DEF vars
<1> QED
  BY <1>1, <1>2, <1>3, <1>4, <1>5, <1>6, <1>7, <1>8, <1>9, <1>10, <1>11, <1>12, <1>13, <1>14,
     <1>15, <1>16, <1>17, <1>18, <1>19 DEF Next, FlowStep, CaStep

(* No exit of order_cert, set_txt or delete_txt leaves a lock behind.      *)
THEOREM NoLockLeaks == Spec => []LocksOwned
<1>1. Init => LocksOwned
  BY DEF Init, LocksOwned
<1>2. LocksInv /\ LocksOwned /\ [Next]_vars => LocksOwned'
  BY OwnedStep DEF LocksInv
<1> QED
  BY <1>1, <1>2, LocksInvariant, PTL DEF Spec

(* Whoever waits for a lock waits, at most by way of one other waiter, for *)
(* a flow that does not wait: there is no deadlock between the locks of    *)
(* the domains and the lock of the apex.                                   *)
THEOREM NoCircularWait == Spec => []WaitsForWorker
<1>1. ASSUME LocksInv, LocksOwned, NEW f \in Flows, Waiting(f)
      PROVE  Working(Blocker(f)) \/ Working(Blocker(Blocker(f)))
  <2> USE <1>1
  <2>1. ASSUME zoneLock # NoFlow PROVE Working(zoneLock)
    BY <2>1 DEF LocksInv, TypeOK, LocksOwned, Working, Waiting, Running, Pcs, Is
  <2>2. CASE ~Is(f, "lock")
    BY <2>1, <2>2 DEF Waiting, Blocker
  <2>3. CASE Is(f, "lock")
    <3> DEFINE g == domainLock[DomainOf(f)]
    <3>1. g \in Flows /\ flow[g].pc \in Running /\ Blocker(f) = g
      BY <2>3 DEF Waiting, Blocker, LocksInv, TypeOK, FlowsOK, LocksOwned, Is
    <3>2. CASE Waiting(g)
      BY <2>1, <3>1, <3>2 DEF Waiting, Blocker, Running, Pcs, Is
    <3>3. CASE ~Waiting(g)
      BY <3>1, <3>3 DEF Working
    <3> QED
      BY <3>2, <3>3
  <2> QED
    BY <2>2, <2>3
<1>2. LocksInv /\ LocksOwned => WaitsForWorker
  BY <1>1 DEF WaitsForWorker
<1> QED
  BY <1>2, LocksInvariant, NoLockLeaks, PTL

-------------------------------------------------------------------------------
(* Who works on which upstream order, when no finalize is given up: a      *)
(* request on its way belongs to the flow that waits for it and finds the  *)
(* order ready, and a flow that polls does so for its own CSR.             *)
AboutToFinalize ==
    \A f \in Flows : flow[f].pc \in {"clear_read", "clear_write", "finalize"} =>
        Status(OrderOf(f)) = "ready"

RequestOwned ==
    \A m \in inflight :
        Is(m.csr, "finalizing") /\ OrderOf(m.csr) = m.order /\ Status(m.order) = "ready"

PollsOwnCsr ==
    \A f \in Flows : Is(f, "poll") =>
        upstream[OrderOf(f)].csr = f /\ Status(OrderOf(f)) \in {"processing", "valid", "invalid"}

CsrInv == AboutToFinalize /\ RequestOwned /\ PollsOwnCsr /\ CertMatchesCsr

(* Two flows that are past new_order never work on the same order.         *)
LEMMA OrdersExclusive ==
    ASSUME LocksInv, NEW f \in Flows, NEW g \in Flows, OrderOf(f) = OrderOf(g),
           flow[f].pc \in Running \ {"order"}, flow[g].pc \in Running \ {"order"}
    PROVE  f = g
  BY DEF LocksInv, LockHeld, OrderInDomain, TypeOK, FlowsOK, Running, Pcs, Is, DomainOf, OrderOf

(* A step of flow f that neither sends nor answers a finalize request and  *)
(* leaves the CA's orders alone.                                           *)
OffPath(f) ==
    /\ \A g \in Flows : g # f => flow'[g] = flow[g]
    /\ flow[f].pc # "finalizing" /\ flow'[f].pc \notin {"finalizing", "poll"}
    /\ flow'[f].pc \in {"clear_read", "clear_write", "finalize"} =>
           flow[f].pc \in {"clear_read", "clear_write", "finalize"}
    /\ flow'[f].order = flow[f].order /\ flow'[f].got \in {flow[f].got, NoFlow}
    /\ UNCHANGED <<upstream, inflight>>

(* Most steps of a flow are of this kind. *)
LEMMA OffPathSteps ==
    ASSUME TypeOK, NEW f \in Flows,
           \/ \E d \in Domains : OrderCert(f, d)
           \/ AcquireDomainLock(f) \/ NewOrderFails(f) \/ ReadForSet(f) \/ SetTxt(f)
           \/ \E b \in BOOLEAN : SetTxtFails(f, b)
           \/ ReadForClear(f) \/ \E gone \in SUBSET UpOrders : ClearTxt(f, gone)
           \/ PollFails(f)
    PROVE  OffPath(f)
<1> USE DEF TypeOK, FlowsOK, Flow, Is, OffPath, Goto, Fail, Return
<1>1. ASSUME NEW d \in Domains, OrderCert(f, d) PROVE OffPath(f)
  BY <1>1 DEF OrderCert
<1>2. CASE AcquireDomainLock(f)
  BY <1>2 DEF AcquireDomainLock
<1>3. CASE NewOrderFails(f)
  BY <1>3 DEF NewOrderFails
<1>4. CASE ReadForSet(f)
  BY <1>4 DEF ReadForSet, ReadZone
<1>5. CASE SetTxt(f)
  BY <1>5 DEF SetTxt
<1>6. ASSUME NEW b \in BOOLEAN, SetTxtFails(f, b) PROVE OffPath(f)
  BY <1>6 DEF SetTxtFails
<1>7. CASE ReadForClear(f)
  BY <1>7 DEF ReadForClear, ReadZone
<1>8. ASSUME NEW gone \in SUBSET UpOrders, ClearTxt(f, gone) PROVE OffPath(f)
  BY <1>8 DEF ClearTxt
<1>9. CASE PollFails(f)
  BY <1>9 DEF PollFails
<1> QED
  BY <1>1, <1>2, <1>3, <1>4, <1>5, <1>6, <1>7, <1>8, <1>9

(* Every step keeps it. *)
LEMMA CsrStep ==
    ASSUME ~Interruptions, LocksInv, CsrInv, [Next]_vars
    PROVE  CsrInv'
<1> USE ConstantsAssumption DEF Is, OrderOf, Status
<1>0. TypeOK /\ AboutToFinalize /\ RequestOwned /\ PollsOwnCsr /\ CertMatchesCsr
  BY DEF LocksInv, CsrInv
<1>a. /\ \A g \in Flows : flow[g].pc \in Running \ {"order"} => flow[g].order \in UpOrders
      /\ \A m \in inflight : m.csr \in Flows /\ m.order \in UpOrders
      /\ \A g \in Flows : flow[g].pc \in Pcs
  BY <1>0 DEF TypeOK, FlowsOK, Flow
<1>b. \A f, g \in Flows : f # g /\ flow[f].pc \in Running \ {"order"} /\ flow[g].pc \in Running \ {"order"}
                          => flow[f].order # flow[g].order
  BY OrdersExclusive
<1>1. ASSUME NEW f \in Flows, OffPath(f) PROVE CsrInv'
  <2>1. AboutToFinalize' /\ PollsOwnCsr' /\ CertMatchesCsr'
    BY <1>0, <1>1 DEF OffPath, AboutToFinalize, PollsOwnCsr, CertMatchesCsr
  <2>2. RequestOwned'
    BY <1>0, <1>a, <1>1 DEF OffPath, RequestOwned
  <2> QED
    BY <2>1, <2>2 DEF CsrInv
<1>2. ASSUME NEW f \in Flows, NEW o \in UpOrders, NEW s \in {"pending", "ready"}, NewOrder(f, o, s)
      PROVE  CsrInv'
  <2>1. /\ \A g \in Flows : g # f => flow'[g] = flow[g]
        /\ flow[f].pc = "order" /\ flow'[f].order = o /\ flow'[f].got = flow[f].got
        /\ flow'[f].pc = (IF s = "ready" THEN "finalize" ELSE "set_read")
        /\ UNCHANGED inflight
    BY <1>0, <1>2 DEF NewOrder, TypeOK, FlowsOK, Flow
  <2>2. /\ upstream'[o].status = s
        /\ \A u \in UpOrders : upstream[u].status # "none" => upstream'[u] = upstream[u]
    <3>1. upstream'[o].status = s
      BY <1>0, <1>2, NewOrderUpstream DEF TypeOK
    <3>2. \A u \in UpOrders : upstream[u].status # "none" => upstream'[u] = upstream[u]
      BY <1>0, <1>2 DEF NewOrder, TypeOK
    <3> QED
      BY <3>1, <3>2
  <2>3. AboutToFinalize' /\ PollsOwnCsr' /\ CertMatchesCsr'
    BY <1>0, <1>a, <2>1, <2>2 DEF AboutToFinalize, PollsOwnCsr, CertMatchesCsr, Running, Pcs
  <2>4. RequestOwned'
    BY <1>0, <1>a, <2>1, <2>2 DEF RequestOwned
  <2> QED
    BY <2>3, <2>4 DEF CsrInv
<1>3. ASSUME NEW f \in Flows, NEW s \in {"pending", "ready", "invalid"}, flow[f].pc = "validate",
             \A g \in Flows : g # f => flow'[g] = flow[g],
             flow'[f].pc = (IF s = "ready" THEN "clear_read" ELSE "done"),
             flow'[f].order = flow[f].order, flow'[f].got \in {flow[f].got, NoFlow},
             upstream' = [upstream EXCEPT ![flow[f].order].status = s], UNCHANGED inflight
      PROVE  CsrInv'
  <2>1. /\ flow[f].order \in UpOrders /\ upstream'[flow[f].order].status = s
        /\ \A u \in UpOrders : u # flow[f].order => upstream'[u] = upstream[u]
    BY <1>0, <1>a, <1>3 DEF Running, Pcs, TypeOK, UpOrder
  <2>2. \A g \in Flows : g # f /\ flow[g].pc \in Running \ {"order"} =>
            flow[g].order \in UpOrders /\ upstream'[flow[g].order] = upstream[flow[g].order]
    BY <1>a, <1>b, <1>3, <2>1 DEF Running, Pcs
  <2>3. /\ \A g \in Flows : g # f => flow'[g] = flow[g]
        /\ flow[f].pc = "validate" /\ flow'[f].pc = (IF s = "ready" THEN "clear_read" ELSE "done")
        /\ flow'[f].order = flow[f].order /\ UNCHANGED inflight
    BY <1>3
  <2>4. AboutToFinalize'
    BY <1>0, <2>1, <2>2, <2>3 DEF AboutToFinalize, Running, Pcs
  <2>5. PollsOwnCsr'
    BY <1>0, <2>2, <2>3 DEF PollsOwnCsr, Running, Pcs
  <2>6. CertMatchesCsr'
    BY <1>0, <1>3 DEF CertMatchesCsr
  <2>7. RequestOwned'
    BY <1>0, <1>a, <2>2, <2>3 DEF RequestOwned, Running, Pcs
  <2> QED
    BY <2>4, <2>5, <2>6, <2>7 DEF CsrInv
<1>4. ASSUME NEW f \in Flows, Validate(f) PROVE CsrInv'
  <2>1. flow'[f].pc = "clear_read" /\ flow'[f].order = flow[f].order /\ flow'[f].got = flow[f].got
        /\ \A g \in Flows : g # f => flow'[g] = flow[g]
    BY <1>0, <1>4 DEF Validate, Goto, TypeOK, FlowsOK, Flow
  <2> QED
    BY <1>3, <1>4, <2>1 DEF Validate
<1>5. ASSUME NEW f \in Flows, NEW s \in {"pending", "invalid"}, ValidateFails(f, s) PROVE CsrInv'
  <2>1. flow'[f].pc = "done" /\ flow'[f].order = flow[f].order /\ flow'[f].got = NoFlow
        /\ \A g \in Flows : g # f => flow'[g] = flow[g]
    BY <1>0, <1>5 DEF ValidateFails, Fail, Return, TypeOK, FlowsOK, Flow
  <2> QED
    BY <1>3, <1>5, <2>1 DEF ValidateFails
<1>6. ASSUME NEW f \in Flows, PostFinalize(f) PROVE CsrInv'
  <2>1. /\ \A g \in Flows : g # f => flow'[g] = flow[g]
        /\ flow[f].pc = "finalize" /\ flow'[f].pc = "finalizing"
        /\ flow'[f].order = flow[f].order /\ flow'[f].got = flow[f].got
        /\ inflight' = inflight \union {[order |-> flow[f].order, csr |-> f]} /\ UNCHANGED upstream
    BY <1>0, <1>6 DEF PostFinalize, Goto, TypeOK, FlowsOK, Flow
  <2>2. AboutToFinalize' /\ PollsOwnCsr' /\ CertMatchesCsr'
    BY <1>0, <2>1 DEF AboutToFinalize, PollsOwnCsr, CertMatchesCsr
  <2>3. RequestOwned'
    BY <1>0, <1>a, <2>1 DEF RequestOwned, AboutToFinalize
  <2> QED
    BY <2>2, <2>3 DEF CsrInv
<1>7. ASSUME NEW f \in Flows, PollValid(f) PROVE CsrInv'
  <2>1. /\ \A g \in Flows : g # f => flow'[g] = flow[g]
        /\ flow[f].pc = "poll" /\ flow'[f].pc = "done" /\ flow'[f].order = flow[f].order
        /\ flow'[f].got = upstream[flow[f].order].csr /\ UNCHANGED <<upstream, inflight>>
    BY <1>0, <1>7 DEF PollValid, Return, TypeOK, FlowsOK, Flow
  <2>2. AboutToFinalize' /\ PollsOwnCsr' /\ CertMatchesCsr'
    BY <1>0, <2>1 DEF AboutToFinalize, PollsOwnCsr, CertMatchesCsr
  <2>3. RequestOwned'
    BY <1>0, <1>a, <2>1 DEF RequestOwned
  <2> QED
    BY <2>2, <2>3 DEF CsrInv
<1>8. ASSUME NEW m \in inflight, CaFinalize(m) PROVE CsrInv'
  <2> DEFINE f == m.csr
  <2>1. f \in Flows /\ flow[f].pc = "finalizing" /\ flow[f].order = m.order
        /\ m.order \in UpOrders /\ upstream[m.order].status = "ready"
    BY <1>0, <1>a DEF RequestOwned
  <2>2. /\ \A g \in Flows : g # f => flow'[g] = flow[g]
        /\ flow'[f].pc = "poll" /\ flow'[f].order = m.order /\ flow'[f].got = flow[f].got
    BY <1>0, <1>8, <2>1 DEF CaFinalize, TypeOK, FlowsOK, Flow
  <2>3. /\ \A u \in UpOrders : u # m.order => upstream'[u] = upstream[u]
        /\ upstream'[m.order].status = "processing" /\ upstream'[m.order].csr = f
        /\ inflight' = inflight \ {m}
    BY <1>0, <1>8, <2>1 DEF CaFinalize, TypeOK, UpOrder
  <2>4. \A g \in Flows : g # f /\ flow[g].pc \in Running \ {"order"} =>
            flow[g].order \in UpOrders /\ upstream'[flow[g].order] = upstream[flow[g].order]
    BY <1>a, <1>b, <2>1, <2>3 DEF Running, Pcs
  <2>5. AboutToFinalize' /\ PollsOwnCsr' /\ CertMatchesCsr'
    BY <1>0, <2>2, <2>3, <2>4 DEF AboutToFinalize, PollsOwnCsr, CertMatchesCsr, Running, Pcs
  <2>6. \A n \in inflight' : n.csr # f
    <3>1. SUFFICES ASSUME NEW n \in inflight, n # m, n.csr = f PROVE FALSE
      BY <2>3
    <3>2. n.order = m.order
      BY <1>0, <3>1 DEF RequestOwned
    <3> QED
      BY <1>0, <3>1, <3>2 DEF TypeOK
  <2>7. RequestOwned'
    BY <1>0, <1>a, <2>2, <2>3, <2>4, <2>6 DEF RequestOwned, Running, Pcs
  <2> QED
    BY <2>5, <2>7 DEF CsrInv
<1>9. ASSUME NEW o \in UpOrders, NEW s \in {"valid", "invalid"}, CaIssue(o, s) PROVE CsrInv'
  <2>1. /\ UNCHANGED <<flow, inflight>> /\ upstream[o].status = "processing"
        /\ \A u \in UpOrders : u # o => upstream'[u] = upstream[u]
        /\ upstream'[o].status = s /\ upstream'[o].csr = upstream[o].csr
    BY <1>0, <1>9 DEF CaIssue, TypeOK, UpOrder
  <2>2. AboutToFinalize' /\ PollsOwnCsr' /\ CertMatchesCsr'
    BY <1>0, <1>a, <2>1 DEF AboutToFinalize, PollsOwnCsr, CertMatchesCsr, Running, Pcs
  <2>3. RequestOwned'
    BY <1>0, <1>a, <2>1 DEF RequestOwned
  <2> QED
    BY <2>2, <2>3 DEF CsrInv
<1>10. CASE UNCHANGED vars
  BY <1>0, <1>10 DEF vars, CsrInv, AboutToFinalize, RequestOwned, PollsOwnCsr, CertMatchesCsr
<1>11. ASSUME NEW f \in Flows, FlowStep(f) PROVE CsrInv'
  BY <1>0, <1>1, <1>2, <1>4, <1>5, <1>6, <1>7, <1>11, OffPathSteps DEF FlowStep, FinalizeTimeout
<1> QED
  BY <1>0, <1>1, <1>8, <1>9, <1>10, <1>11, OffPathSteps DEF Next, CaStep, Restart

(* As long as no finalize request is given up (no timeout, no restart in   *)
(* between), order_cert returns the certificate for the CSR it was given.  *)
THEOREM OwnCsrCertified == ~Interruptions /\ Spec => []CertMatchesCsr
<1> SUFFICES ASSUME ~Interruptions PROVE Spec => []CertMatchesCsr
  OBVIOUS
<1>1. Init => CsrInv
  BY DEF Init, CsrInv, AboutToFinalize, RequestOwned, PollsOwnCsr, CertMatchesCsr, Is
<1>2. LocksInv /\ CsrInv /\ [Next]_vars => CsrInv'
  BY CsrStep
<1>3. CsrInv => CertMatchesCsr
  BY DEF CsrInv
<1> QED
  BY <1>1, <1>2, <1>3, LocksInvariant, PTL DEF Spec

-------------------------------------------------------------------------------
(* Who was handed which certificate, interruptions included.  A flow has   *)
(* no order before new_order and no certificate before it is done; a CSR   *)
(* is sent to the order of its flow only; an order whose certificate was   *)
(* returned is valid, and no other flow works or has worked on it to the   *)
(* end.                                                                    *)
NothingYet ==
    \A f \in Flows :
        /\ flow[f].pc \in {"idle", "lock", "order"} => flow[f].order = NoOrder
        /\ flow[f].pc # "done" => flow[f].got = NoFlow

CsrOfItsOrder ==
    /\ \A o \in UpOrders : upstream[o].csr # NoFlow => flow[upstream[o].csr].order = o
    /\ \A m \in inflight : flow[m.csr].order = m.order

Delivered(f) == flow[f].got # NoFlow

DeliveredValid ==
    \A f \in Flows : Delivered(f) =>
        /\ flow[f].order \in UpOrders
        /\ upstream[flow[f].order].status = "valid" /\ upstream[flow[f].order].csr = flow[f].got

DeliveredAlone ==
    \A f, g \in Flows : Delivered(f) /\ f # g /\ (flow[g].pc \in Running \/ Delivered(g)) =>
        flow[g].order # flow[f].order

DeliveryInv == NothingYet /\ CsrOfItsOrder /\ DeliveredValid /\ DeliveredAlone

(* A step after which the flows have the orders and certificates they had: *)
(* flows have only moved on.                                               *)
MovesOn ==
    \A g \in Flows :
        /\ flow'[g].order = flow[g].order /\ flow'[g].got = flow[g].got
        /\ flow[g].pc = "done" => flow'[g].pc = "done"
        /\ flow'[g].pc \in {"idle", "lock", "order"} => flow[g].pc \in {"idle", "lock", "order"}
        /\ flow'[g].pc \in Running => flow[g].pc \in Running \/ flow'[g].order = NoOrder

(* Most steps of a flow change nothing else that matters here. *)
LEMMA QuietSteps ==
    ASSUME TypeOK, NothingYet, NEW f \in Flows,
           \/ \E d \in Domains : OrderCert(f, d)
           \/ AcquireDomainLock(f) \/ NewOrderFails(f) \/ ReadForSet(f) \/ SetTxt(f)
           \/ \E b \in BOOLEAN : SetTxtFails(f, b)
           \/ ReadForClear(f) \/ \E gone \in SUBSET UpOrders : ClearTxt(f, gone)
           \/ FinalizeTimeout(f) \/ PollFails(f)
    PROVE  MovesOn /\ UNCHANGED <<upstream, inflight>>
<1> USE ConstantsAssumption DEF TypeOK, FlowsOK, Flow, Pcs, Running, Is, DomainOf, OrderOf, NothingYet,
        MovesOn, Goto, Fail, Return
<1>1. ASSUME NEW d \in Domains, OrderCert(f, d) PROVE MovesOn /\ UNCHANGED <<upstream, inflight>>
  <2>1. flow[f].pc = "idle" /\ flow[f].order = NoOrder /\ flow[f].got = NoFlow
    BY <1>1 DEF OrderCert
  <2>2. flow'[f].pc = "lock" /\ flow'[f].order = flow[f].order /\ flow'[f].got = flow[f].got
    BY <1>1 DEF OrderCert
  <2>3. \A g \in Flows : g # f => flow'[g] = flow[g]
    BY <1>1 DEF OrderCert
  <2> QED
    BY <1>1, <2>1, <2>2, <2>3 DEF OrderCert
<1>2. CASE AcquireDomainLock(f)
  BY <1>2 DEF AcquireDomainLock
<1>3. CASE NewOrderFails(f)
  BY <1>3 DEF NewOrderFails
<1>4. CASE ReadForSet(f)
  BY <1>4 DEF ReadForSet, ReadZone
<1>5. CASE SetTxt(f)
  BY <1>5 DEF SetTxt
<1>6. ASSUME NEW b \in BOOLEAN, SetTxtFails(f, b) PROVE MovesOn /\ UNCHANGED <<upstream, inflight>>
  BY <1>6 DEF SetTxtFails
<1>7. CASE ReadForClear(f)
  BY <1>7 DEF ReadForClear, ReadZone
<1>8. ASSUME NEW gone \in SUBSET UpOrders, ClearTxt(f, gone)
      PROVE  MovesOn /\ UNCHANGED <<upstream, inflight>>
  BY <1>8 DEF ClearTxt
<1>9. CASE FinalizeTimeout(f)
  BY <1>9 DEF FinalizeTimeout
<1>10. CASE PollFails(f)
  BY <1>10 DEF PollFails
<1> QED
  BY <1>1, <1>2, <1>3, <1>4, <1>5, <1>6, <1>7, <1>8, <1>9, <1>10

(* Moving on keeps the invariant, if the CA's side of it is kept. *)
LEMMA MovingOn ==
    ASSUME TypeOK, DeliveryInv, MovesOn, CsrOfItsOrder', DeliveredValid'
    PROVE  DeliveryInv'
<1>1. NothingYet'
  BY DEF DeliveryInv, NothingYet, MovesOn, TypeOK, FlowsOK, Flow
<1>2. DeliveredAlone'
  BY ConstantsAssumption DEF DeliveryInv, DeliveredAlone, DeliveredValid, Delivered, MovesOn
<1> QED
  BY <1>1, <1>2 DEF DeliveryInv

(* Every step. *)
LEMMA DeliveryStep ==
    ASSUME LocksInv, DeliveryInv, [Next]_vars
    PROVE  DeliveryInv'
<1> USE ConstantsAssumption
<1>0. TypeOK /\ NothingYet /\ CsrOfItsOrder /\ DeliveredValid /\ DeliveredAlone
  BY DEF LocksInv, DeliveryInv
<1>1. ASSUME MovesOn, UNCHANGED <<upstream, inflight>> PROVE DeliveryInv'
  <2>1. CsrOfItsOrder' /\ DeliveredValid'
    BY <1>0, <1>1 DEF CsrOfItsOrder, DeliveredValid, Delivered, MovesOn, TypeOK, UpOrder
  <2> QED
    BY <1>0, <1>1, <2>1, MovingOn
<1>2. ASSUME NEW f \in Flows, NEW o \in UpOrders, NEW s \in {"pending", "ready"}, NewOrder(f, o, s)
      PROVE  DeliveryInv'
  <2>1. /\ \A g \in Flows : g # f => flow'[g] = flow[g]
        /\ flow'[f].order = o /\ flow'[f].got = NoFlow
        /\ flow'[f].pc \in {"finalize", "set_read"} /\ flow[f].order = NoOrder
    BY <1>0, <1>2 DEF NewOrder, NothingYet, Is, TypeOK, FlowsOK, Flow
  <2>2. /\ \A u \in UpOrders : upstream'[u].csr = upstream[u].csr /\ (u # o => upstream'[u] = upstream[u])
        /\ upstream[o].status # "valid"
    <3>1. CASE Status(o) = s /\ UNCHANGED upstream
      BY <3>1 DEF Status
    <3>2. CASE /\ Status(o) = "none"
               /\ upstream' = [upstream EXCEPT ![o] = [@ EXCEPT !.status = s, !.domain = DomainOf(f)]]
      BY <1>0, <3>2 DEF Status, TypeOK, UpOrder
    <3> QED
      BY <1>2, <3>1, <3>2 DEF NewOrder
  <2>3. NothingYet' /\ UNCHANGED inflight
    BY <1>0, <1>2, <2>1 DEF NothingYet, NewOrder
  <2>4. CsrOfItsOrder'
    <3>1. /\ \A u \in UpOrders : upstream[u].csr \in Flows \union {NoFlow}
          /\ \A m \in inflight : m.csr \in Flows /\ m.order \in UpOrders
      BY <1>0 DEF TypeOK, UpOrder
    <3>2. (\A u \in UpOrders : upstream[u].csr # f) /\ (\A m \in inflight : m.csr # f)
      BY <1>0, <2>1, <3>1 DEF CsrOfItsOrder
    <3> QED
      BY <1>0, <2>1, <2>2, <2>3, <3>1, <3>2 DEF CsrOfItsOrder
  <2>5. DeliveredValid'
    BY <1>0, <2>1, <2>2 DEF DeliveredValid, Delivered
  <2>6. DeliveredAlone'
    BY <1>0, <2>1, <2>2 DEF DeliveredAlone, DeliveredValid, Delivered
  <2> QED
    BY <2>3, <2>4, <2>5, <2>6 DEF DeliveryInv
<1>3. ASSUME NEW f \in Flows, PollValid(f) PROVE DeliveryInv'
  <2> DEFINE o == flow[f].order
  <2>1. /\ \A g \in Flows : g # f => flow'[g] = flow[g]
        /\ flow'[f].order = o /\ flow'[f].got = upstream[o].csr /\ flow'[f].pc = "done"
        /\ flow[f].pc = "poll" /\ o \in UpOrders /\ upstream[o].status = "valid"
        /\ UNCHANGED <<upstream, inflight>>
    BY <1>0, <1>3 DEF PollValid, Return, Is, Status, OrderOf, TypeOK, FlowsOK, Flow, Running, Pcs
  <2>2. \A g \in Flows : g # f /\ flow[g].pc \in Running \ {"order"} => flow[g].order # o
    BY <2>1, OrdersExclusive DEF OrderOf, Running, Pcs
  <2>3. \A g \in Flows : g # f /\ Delivered(g) => flow[g].order # o
    BY <1>0, <2>1 DEF DeliveredAlone, Running, Pcs
  <2>4. \A g \in Flows : flow[g].pc = "order" => flow[g].order # o
    BY <1>0, <2>1 DEF NothingYet
  <2>5. NothingYet' /\ CsrOfItsOrder'
    BY <1>0, <2>1 DEF NothingYet, CsrOfItsOrder, TypeOK, UpOrder
  <2>6. DeliveredValid'
    BY <1>0, <2>1 DEF DeliveredValid, Delivered
  <2>7. DeliveredAlone'
    BY <1>0, <2>1, <2>2, <2>3, <2>4 DEF DeliveredAlone, Delivered, Running
  <2> QED
    BY <2>5, <2>6, <2>7 DEF DeliveryInv
<1>4. ASSUME NEW f \in Flows, NEW s, Is(f, "validate"),
             upstream' = [upstream EXCEPT ![OrderOf(f)].status = s], UNCHANGED inflight, MovesOn
      PROVE  DeliveryInv'
  <2>1. OrderOf(f) \in UpOrders /\ \A g \in Flows : Delivered(g) => flow[g].order # OrderOf(f)
    BY <1>0, <1>4 DEF TypeOK, FlowsOK, Is, Running, Pcs, DeliveredAlone, NothingYet, Delivered, OrderOf
  <2>2. CsrOfItsOrder' /\ DeliveredValid'
    BY <1>0, <1>4, <2>1 DEF CsrOfItsOrder, DeliveredValid, Delivered, MovesOn, TypeOK, UpOrder
  <2> QED
    BY <1>0, <1>4, <2>2, MovingOn
<1>5. ASSUME NEW f \in Flows, PostFinalize(f) PROVE DeliveryInv'
  <2>1. MovesOn
    BY <1>0, <1>5 DEF PostFinalize, Goto, MovesOn, Is, TypeOK, FlowsOK, Flow, Running, Pcs
  <2>2. CsrOfItsOrder' /\ DeliveredValid'
    BY <1>0, <1>5, <2>1 DEF PostFinalize, OrderOf, CsrOfItsOrder, DeliveredValid, Delivered, MovesOn, TypeOK, UpOrder
  <2> QED
    BY <1>0, <2>1, <2>2, MovingOn
<1>6. ASSUME NEW m \in inflight, CaFinalize(m) PROVE DeliveryInv'
  <2>1. m.csr \in Flows /\ m.order \in UpOrders /\ flow[m.csr].order = m.order
    BY <1>0 DEF CsrOfItsOrder, TypeOK
  <2>2. MovesOn
    BY <1>0, <1>6, <2>1 DEF CaFinalize, MovesOn, TypeOK, FlowsOK, Flow, Running, Pcs
  <2>3. /\ \A u \in UpOrders : u # m.order => upstream'[u] = upstream[u]
        /\ upstream'[m.order].csr \in {upstream[m.order].csr, m.csr}
        /\ upstream[m.order].status # "ready" => upstream'[m.order] = upstream[m.order]
    BY <1>0, <1>6, <2>1 DEF CaFinalize, TypeOK, UpOrder
  <2>4. CsrOfItsOrder'
    BY <1>0, <1>6, <2>1, <2>2, <2>3 DEF CaFinalize, CsrOfItsOrder, MovesOn, TypeOK, UpOrder
  <2>5. DeliveredValid'
    BY <1>0, <2>1, <2>2, <2>3 DEF DeliveredValid, Delivered, MovesOn
  <2> QED
    BY <1>0, <2>2, <2>4, <2>5, MovingOn
<1>7. ASSUME NEW o \in UpOrders, NEW s \in {"valid", "invalid"}, CaIssue(o, s) PROVE DeliveryInv'
  <2>1. MovesOn
    BY <1>7 DEF CaIssue, MovesOn
  <2>2. CsrOfItsOrder' /\ DeliveredValid'
    BY <1>0, <1>7 DEF CaIssue, Status, CsrOfItsOrder, DeliveredValid, Delivered, TypeOK, UpOrder
  <2> QED
    BY <1>0, <2>1, <2>2, MovingOn
<1>8. CASE Restart
  <2>1. MovesOn
    BY <1>0, <1>8 DEF Restart, Is, MovesOn, TypeOK, FlowsOK, Flow, Running, Pcs
  <2> QED
    BY <1>1, <1>8, <2>1 DEF Restart
<1>9. CASE UNCHANGED vars
  <2>1. MovesOn
    BY <1>9 DEF vars, MovesOn
  <2> QED
    BY <1>1, <1>9, <2>1 DEF vars
<1>10. ASSUME NEW f \in Flows, FlowStep(f) PROVE DeliveryInv'
  <2>1. ASSUME Validate(f) PROVE DeliveryInv'
    <3>1. MovesOn
      BY <1>0, <2>1 DEF Validate, Goto, Is, MovesOn, TypeOK, FlowsOK, Flow, Running, Pcs
    <3> QED
      BY <1>4, <2>1, <3>1 DEF Validate
  <2>2. ASSUME NEW s \in {"pending", "invalid"}, ValidateFails(f, s) PROVE DeliveryInv'
    <3>1. MovesOn
      BY <1>0, <2>2 DEF ValidateFails, Fail, Return, Is, MovesOn, NothingYet, TypeOK, FlowsOK, Flow, Running, Pcs
    <3> QED
      BY <1>4, <2>2, <3>1 DEF ValidateFails
  <2> QED
    BY <1>0, <1>1, <1>2, <1>3, <1>5, <1>10, <2>1, <2>2, QuietSteps DEF FlowStep
<1> QED
  BY <1>0, <1>1, <1>6, <1>7, <1>8, <1>9, <1>10, QuietSteps DEF Next, CaStep

(* It holds in every state. *)
LEMMA DeliveryInvariant == Spec => []DeliveryInv
<1>1. Init => DeliveryInv
  BY DEF Init, DeliveryInv, NothingYet, CsrOfItsOrder, DeliveredValid, DeliveredAlone, Delivered
<1>2. LocksInv /\ DeliveryInv /\ [Next]_vars => DeliveryInv'
  BY DeliveryStep
<1> QED
  BY <1>1, <1>2, LocksInvariant, PTL DEF Spec

(* No certificate is returned to two callers of order_cert, whatever times *)
(* out, fails or restarts, for any number of flows, domains and orders.    *)
THEOREM NoCertTwice == Spec => []CertDeliveredOnce
<1>1. LocksInv /\ DeliveryInv => CertDeliveredOnce
  BY DEF LocksInv, TypeOK, FlowsOK, Flow, DeliveryInv, CsrOfItsOrder, DeliveredValid, DeliveredAlone, Delivered,
     CertDeliveredOnce
<1> QED
  BY <1>1, LocksInvariant, DeliveryInvariant, PTL

-------------------------------------------------------------------------------
(* The CSR an order was finalized with, and every CSR still on its way, is *)
(* one for the domain of that order.                                       *)
CsrOfDomain ==
    /\ \A o \in UpOrders :
          /\ upstream[o].csr # NoFlow =>
                upstream[o].status # "none" /\ flow[upstream[o].csr].domain = upstream[o].domain
          /\ upstream[o].status \in {"processing", "valid"} => upstream[o].csr # NoFlow
    /\ \A m \in inflight :
          upstream[m.order].status # "none" /\ flow[m.csr].domain = upstream[m.order].domain

(* A flow keeps the domain it was called with. *)
DomainsKept == \A g \in Flows : flow[g].pc # "idle" => flow'[g].domain = flow[g].domain

(* Every step does that. *)
LEMMA DomainsKeptStep ==
    ASSUME TypeOK, [Next]_vars
    PROVE  DomainsKept
<1> USE DEF TypeOK, FlowsOK, Flow, Is, DomainsKept, Goto, Fail, Return
<1>1. ASSUME NEW f \in Flows, NEW d \in Domains, OrderCert(f, d) PROVE DomainsKept
  BY <1>1 DEF OrderCert
<1>2. ASSUME NEW f \in Flows, AcquireDomainLock(f) PROVE DomainsKept
  BY <1>2 DEF AcquireDomainLock
<1>3. ASSUME NEW f \in Flows, NEW o \in UpOrders, NEW s \in {"pending", "ready"}, NewOrder(f, o, s)
      PROVE  DomainsKept
  BY <1>3 DEF NewOrder
<1>4. ASSUME NEW f \in Flows, NEW next, ReadZone(f, next) PROVE DomainsKept
  BY <1>4 DEF ReadZone
<1>5. ASSUME NEW f \in Flows, SetTxt(f) \/ Validate(f) \/ PostFinalize(f) PROVE DomainsKept
  BY <1>5 DEF SetTxt, Validate, PostFinalize
<1>6. ASSUME NEW f \in Flows, NEW got, Return(f, got) PROVE DomainsKept
  BY <1>6
<1>7. ASSUME NEW f \in Flows, NEW gone \in SUBSET UpOrders, ClearTxt(f, gone) PROVE DomainsKept
  BY <1>7 DEF ClearTxt
<1>8. ASSUME NEW f \in Flows, FlowStep(f) PROVE DomainsKept
  <2> HIDE DEF DomainsKept, Return
  <2> QED
    BY <1>2, <1>3, <1>4, <1>5, <1>6, <1>7, <1>8 DEF FlowStep, ReadForSet, ReadForClear, NewOrderFails,
       FinalizeTimeout, PollFails, PollValid, SetTxtFails, ValidateFails
<1>9. ASSUME NEW m \in inflight, CaFinalize(m) PROVE DomainsKept
  BY <1>9 DEF CaFinalize
<1>10. ASSUME NEW o \in UpOrders, NEW s \in {"valid", "invalid"}, CaIssue(o, s) PROVE DomainsKept
  BY <1>10 DEF CaIssue
<1>11. CASE Restart
  BY <1>11 DEF Restart
<1>12. CASE UNCHANGED vars
  BY <1>12 DEF vars
<1> QED
  BY <1>1, <1>8, <1>9, <1>10, <1>11, <1>12 DEF Next, CaStep

(* A CSR, taken or on its way, is that of a flow that has begun. *)
LEMMA CsrHasBegun ==
    ASSUME TypeOK, NothingYet, CsrOfItsOrder
    PROVE  /\ \A o \in UpOrders : upstream[o].csr # NoFlow =>
                 upstream[o].csr \in Flows /\ flow[upstream[o].csr].pc # "idle"
           /\ \A m \in inflight : m.csr \in Flows /\ m.order \in UpOrders /\ flow[m.csr].pc # "idle"
  BY ConstantsAssumption DEF TypeOK, UpOrder, NothingYet, CsrOfItsOrder

(* Every step keeps CSRs with their domains. *)
LEMMA CsrOfDomainStep ==
    ASSUME LocksInv, DeliveryInv, CsrOfDomain, [Next]_vars
    PROVE  CsrOfDomain'
<1> USE ConstantsAssumption
<1>0. /\ TypeOK /\ NothingYet /\ CsrOfItsOrder /\ OrderInDomain /\ DomainsKept
      /\ \A o \in UpOrders : upstream[o].csr # NoFlow =>
            upstream[o].csr \in Flows /\ flow[upstream[o].csr].pc # "idle"
      /\ \A m \in inflight : m.csr \in Flows /\ m.order \in UpOrders /\ flow[m.csr].pc # "idle"
  BY DomainsKeptStep, CsrHasBegun DEF LocksInv, DeliveryInv
<1>1. ASSUME UNCHANGED <<upstream, inflight>> PROVE CsrOfDomain'
  BY <1>0, <1>1 DEF CsrOfDomain, DomainsKept
<1>2. ASSUME NEW f \in Flows, NEW o \in UpOrders, NEW s \in {"pending", "ready"}, NewOrder(f, o, s)
      PROVE  CsrOfDomain'
  <2>1. CASE UNCHANGED upstream
    BY <1>1, <1>2, <2>1 DEF NewOrder
  <2>2. CASE /\ Status(o) = "none"
             /\ upstream' = [upstream EXCEPT ![o] = [@ EXCEPT !.status = s, !.domain = DomainOf(f)]]
    <3>1. /\ \A u \in UpOrders : u # o => upstream'[u] = upstream[u]
          /\ upstream'[o].csr = NoFlow /\ upstream'[o].status = s
          /\ \A m \in inflight : m.order # o
          /\ UNCHANGED inflight
      BY <1>0, <1>2, <2>2 DEF NewOrder, Status, CsrOfDomain, TypeOK, UpOrder
    <3> QED
      BY <1>0, <3>1 DEF CsrOfDomain, DomainsKept
  <2> QED
    BY <1>2, <2>1, <2>2 DEF NewOrder
<1>3. ASSUME NEW f \in Flows, NEW s \in {"ready", "pending", "invalid"}, Is(f, "validate"),
             upstream' = [upstream EXCEPT ![OrderOf(f)].status = s], UNCHANGED inflight
      PROVE  CsrOfDomain'
  <2>1. /\ \A u \in UpOrders : upstream'[u].csr = upstream[u].csr /\ upstream'[u].domain = upstream[u].domain
        /\ \A u \in UpOrders : upstream'[u].status \in {upstream[u].status, s}
    BY <1>0, <1>3 DEF TypeOK, UpOrder
  <2> QED
    BY <1>0, <1>3, <2>1 DEF CsrOfDomain, DomainsKept
<1>4. ASSUME NEW f \in Flows, PostFinalize(f) PROVE CsrOfDomain'
  <2>1. /\ UNCHANGED upstream
        /\ \A m \in inflight' : m \in inflight \/ (m.order = OrderOf(f) /\ m.csr = f)
        /\ flow'[f].domain = upstream[OrderOf(f)].domain /\ upstream[OrderOf(f)].status # "none"
    BY <1>0, <1>4 DEF PostFinalize, Is, DomainsKept, OrderInDomain, Running, Pcs, DomainOf
  <2> QED
    BY <1>0, <2>1 DEF CsrOfDomain, DomainsKept
<1>5. ASSUME NEW m \in inflight, CaFinalize(m) PROVE CsrOfDomain'
  <2>1. /\ \A u \in UpOrders : u # m.order => upstream'[u] = upstream[u]
        /\ upstream'[m.order].domain = upstream[m.order].domain
        /\ \/ upstream'[m.order] = upstream[m.order]
           \/ upstream'[m.order].csr = m.csr /\ upstream'[m.order].status = "processing"
        /\ inflight' \subseteq inflight
    BY <1>0, <1>5 DEF CaFinalize, TypeOK, UpOrder
  <2>2. flow'[m.csr].domain = upstream[m.order].domain /\ m.csr # NoFlow
    BY <1>0, <1>5 DEF DomainsKept, CsrOfDomain
  <2> QED
    BY <1>0, <2>1, <2>2 DEF CsrOfDomain, DomainsKept
<1>6. ASSUME NEW o \in UpOrders, NEW s \in {"valid", "invalid"}, CaIssue(o, s) PROVE CsrOfDomain'
  <2>1. /\ \A u \in UpOrders : u # o => upstream'[u] = upstream[u]
        /\ upstream'[o].csr = upstream[o].csr /\ upstream'[o].domain = upstream[o].domain
        /\ upstream[o].status = "processing" /\ upstream'[o].status = s
        /\ UNCHANGED inflight
    BY <1>0, <1>6 DEF CaIssue, Status, TypeOK, UpOrder
  <2> QED
    BY <1>0, <2>1 DEF CsrOfDomain, DomainsKept
<1>7. ASSUME NEW f \in Flows, FlowStep(f) PROVE CsrOfDomain'
  <2>1. CASE Validate(f)
    BY <1>3, <2>1 DEF Validate
  <2>2. ASSUME NEW s \in {"pending", "invalid"}, ValidateFails(f, s) PROVE CsrOfDomain'
    BY <1>3, <2>2 DEF ValidateFails
  <2> QED
    BY <1>0, <1>1, <1>2, <1>4, <1>7, <2>1, <2>2, QuietSteps DEF FlowStep, PollValid
<1> QED
  BY <1>0, <1>1, <1>5, <1>6, <1>7 DEF Next, CaStep, OrderCert, Restart, vars

(* It holds in every state. *)
LEMMA CsrOfDomainInvariant == Spec => []CsrOfDomain
<1>1. Init => CsrOfDomain
  BY DEF Init, CsrOfDomain
<1>2. LocksInv /\ DeliveryInv /\ CsrOfDomain /\ [Next]_vars => CsrOfDomain'
  BY CsrOfDomainStep
<1> QED
  BY <1>1, <1>2, LocksInvariant, DeliveryInvariant, PTL DEF Spec

(* A step that callers of order_cert do not see. *)
LEMMA Unseen ==
    ASSUME \A g \in Flows : /\ flow'[g].domain = flow[g].domain /\ flow'[g].got = flow[g].got
                            /\ flow'[g].pc = "idle" <=> flow[g].pc = "idle"
                            /\ flow'[g].pc = "done" <=> flow[g].pc = "done"
    PROVE  UNCHANGED Service!serviceVars
<1>1. \A g \in Flows : RequestState(g)' = RequestState(g)
  BY DEF RequestState, Is
<1> QED
  BY <1>1 DEF Service!serviceVars, DomainOf

(* A flow that gives up refuses its request.                               *)
LEMMA GivingUp ==
    ASSUME TypeOK, NothingYet, NEW f \in Flows, Fail(f), flow[f].pc \notin {"idle", "done"}
    PROVE  Service!Refuse(f)
<1>1. /\ \A g \in Flows : g # f => flow'[g] = flow[g]
      /\ flow'[f].pc = "done" /\ flow'[f].got = NoFlow /\ flow'[f].domain = flow[f].domain
      /\ flow[f].got = NoFlow
  BY DEF Fail, Return, TypeOK, FlowsOK, Flow, NothingYet
<1>2. \A g \in Flows : RequestState(g)' = IF g = f THEN "failed" ELSE RequestState(g)
  BY <1>1 DEF RequestState, Is
<1>3. RequestState(f) = "asked"
  BY DEF RequestState, Is
<1> QED
  BY <1>1, <1>2, <1>3 DEF Service!Refuse, DomainOf

(* A flow that returns a certificate serves its request: the order it      *)
(* polled was finalized with its own CSR or with that of a flow that is    *)
(* done, without a certificate, and asked for the same domain.             *)
LEMMA Delivering ==
    ASSUME LocksInv, DeliveryInv, CsrOfDomain, NEW f \in Flows, PollValid(f)
    PROVE  \E g \in Flows : Service!Serve(f, g)
<1> USE ConstantsAssumption
<1> DEFINE o == flow[f].order
           q == upstream[o].csr
<1>0. TypeOK /\ NothingYet /\ CsrOfItsOrder /\ DeliveredValid /\ DeliveredAlone /\ OrderInDomain
  BY DEF LocksInv, DeliveryInv
<1>1. /\ \A g \in Flows : g # f => flow'[g] = flow[g]
      /\ flow'[f].pc = "done" /\ flow'[f].got = q /\ flow'[f].domain = flow[f].domain
      /\ flow[f].pc = "poll" /\ o \in UpOrders /\ upstream[o].status = "valid"
  BY <1>0 DEF PollValid, Return, Is, Status, OrderOf, TypeOK, FlowsOK, Flow, Running, Pcs
<1>2. q \in Flows /\ flow[q].order = o /\ flow[q].domain = flow[f].domain
  <2>1. q # NoFlow /\ flow[q].order = o /\ flow[q].domain = upstream[o].domain
    BY <1>0, <1>1 DEF CsrOfDomain, CsrOfItsOrder
  <2>2. upstream[o].domain = flow[f].domain
    BY <1>0, <1>1 DEF OrderInDomain, Running, Pcs, OrderOf, DomainOf
  <2> QED
    BY <1>0, <1>1, <2>1, <2>2 DEF TypeOK, UpOrder
<1>3. q # f => flow[q].pc = "done" /\ flow[q].got = NoFlow
  <2>1. SUFFICES ASSUME q # f PROVE flow[q].pc = "done" /\ flow[q].got = NoFlow
    OBVIOUS
  <2>2. flow[q].pc \notin {"idle", "lock", "order"} /\ flow[q].pc \in Pcs
    BY <1>0, <1>1, <1>2 DEF NothingYet, TypeOK, FlowsOK, Flow
  <2>3. flow[q].pc \notin Running \ {"order"}
    BY <1>1, <1>2, <2>1, OrdersExclusive DEF OrderOf, Running, Pcs
  <2>4. ~Delivered(q)
    BY <1>0, <1>1, <1>2, <2>1 DEF DeliveredAlone, Running, Pcs
  <2> QED
    BY <2>2, <2>3, <2>4 DEF Running, Pcs, Delivered
<1>4. \A g \in Flows : flow[g].got # q
  <2>1. SUFFICES ASSUME NEW g \in Flows, flow[g].got = q PROVE FALSE
    OBVIOUS
  <2>2. Delivered(g) /\ flow[g].order = o
    BY <1>0, <1>2, <2>1 DEF Delivered, DeliveredValid, CsrOfItsOrder
  <2> QED
    BY <1>0, <1>1, <2>2 DEF DeliveredAlone, NothingYet, Delivered, Running, Pcs
<1>5. /\ \A g \in Flows : RequestState(g)' = IF g = f THEN "served" ELSE RequestState(g)
      /\ RequestState(f) = "asked" /\ (q # f => RequestState(q) = "failed")
  BY <1>1, <1>2, <1>3 DEF RequestState, Is
<1>6. Service!Serve(f, q)
  BY <1>1, <1>2, <1>4, <1>5 DEF Service!Serve, DomainOf
<1> HIDE DEF q
<1> QED
  BY <1>2, <1>6 DEF Service!Serve

(* Every step of Issuance is a step of CertService, or none.               *)
Simulated == [Service!ServiceNext]_(Service!serviceVars)

LEMMA ServiceStep ==
    ASSUME LocksInv, DeliveryInv, CsrOfDomain, [Next]_vars
    PROVE  Simulated
<1> USE ConstantsAssumption
<1>0. TypeOK /\ NothingYet
  BY DEF LocksInv, DeliveryInv
<1>1. ASSUME NEW f \in Flows, NEW d \in Domains, OrderCert(f, d) PROVE Simulated
  <2>1. /\ \A g \in Flows : g # f => flow'[g] = flow[g]
        /\ flow[f].pc = "idle" /\ flow'[f].pc = "lock" /\ flow'[f].domain = d
        /\ flow'[f].got = flow[f].got
    BY <1>0, <1>1 DEF OrderCert, Is, TypeOK, FlowsOK, Flow
  <2>2. /\ \A g \in Flows : RequestState(g)' = IF g = f THEN "asked" ELSE RequestState(g)
        /\ RequestState(f) = "new"
    BY <2>1 DEF RequestState, Is
  <2>3. Service!Ask(f, d)
    BY <2>1, <2>2 DEF Service!Ask, DomainOf
  <2> QED
    BY <2>3 DEF Service!ServiceNext, Simulated
<1>2. ASSUME NEW f \in Flows, Fail(f), flow[f].pc \notin {"idle", "done"} PROVE Simulated
  BY <1>0, <1>2, GivingUp DEF Service!ServiceNext, Simulated
<1>3. ASSUME NEW f \in Flows, NEW pc \in Pcs \ {"idle", "done"}, flow[f].pc \notin {"idle", "done"},
             \/ Goto(f, pc)
             \/ flow' = [flow EXCEPT ![f] = [@ EXCEPT !.pc = pc, !.read = zone]]
             \/ \E o \in UpOrders : flow' = [flow EXCEPT ![f] = [@ EXCEPT !.order = o, !.pc = pc]]
      PROVE  Simulated
  <2> DEFINE OnlyMoves ==
                /\ \A g \in Flows : g # f => flow'[g] = flow[g]
                /\ flow'[f].pc = pc /\ flow'[f].domain = flow[f].domain /\ flow'[f].got = flow[f].got
  <2>1. OnlyMoves
    <3>1. CASE Goto(f, pc)
      BY <1>0, <3>1 DEF Goto, TypeOK, FlowsOK, Flow
    <3>2. CASE flow' = [flow EXCEPT ![f] = [@ EXCEPT !.pc = pc, !.read = zone]]
      BY <1>0, <3>2 DEF TypeOK, FlowsOK, Flow
    <3>3. ASSUME NEW o \in UpOrders, flow' = [flow EXCEPT ![f] = [@ EXCEPT !.order = o, !.pc = pc]]
          PROVE  OnlyMoves
      BY <1>0, <3>3 DEF TypeOK, FlowsOK, Flow
    <3> QED
      BY <1>3, <3>1, <3>2, <3>3
  <2> QED
    BY <1>3, <2>1, Unseen DEF Simulated
<1>4. ASSUME NEW f \in Flows, NEW o \in UpOrders, NEW s \in {"pending", "ready"}, NewOrder(f, o, s)
      PROVE  Simulated
  <2>1. (IF s = "ready" THEN "finalize" ELSE "set_read") \in Pcs \ {"idle", "done"}
    BY DEF Pcs
  <2> QED
    BY <1>3, <1>4, <2>1 DEF NewOrder, Is
<1>5. ASSUME NEW m \in inflight, CaFinalize(m) PROVE Simulated
  <2>1. \A g \in Flows : /\ flow'[g].domain = flow[g].domain /\ flow'[g].got = flow[g].got
                         /\ flow'[g].pc = "idle" <=> flow[g].pc = "idle"
                         /\ flow'[g].pc = "done" <=> flow[g].pc = "done"
    BY <1>0, <1>5 DEF CaFinalize, TypeOK, FlowsOK, Flow
  <2> QED
    BY <2>1, Unseen DEF Simulated
<1>6. CASE UNCHANGED flow
  BY <1>6, Unseen DEF Simulated
<1>7. CASE Restart
  <2>1. \A g \in Flows : /\ flow'[g].domain = flow[g].domain /\ flow'[g].got = flow[g].got
                         /\ flow'[g].pc = IF flow[g].pc = "idle" THEN "idle" ELSE "done"
    BY <1>0, <1>7 DEF Restart, Is, TypeOK, FlowsOK, Flow
  <2>2. \A g \in Flows :
           RequestState(g)' = IF RequestState(g) = "asked" THEN "failed" ELSE RequestState(g)
    BY <1>0, <2>1 DEF RequestState, Is, NothingYet
  <2>3. Service!Abort
    BY <2>1, <2>2 DEF Service!Abort, DomainOf
  <2> QED
    BY <2>3 DEF Service!ServiceNext, Simulated
<1>8. ASSUME NEW f \in Flows, FlowStep(f) PROVE Simulated
  <2>1. CASE PollValid(f)
    BY <2>1, Delivering DEF Service!ServiceNext, Simulated
  <2>2. CASE AcquireDomainLock(f)
    BY <1>3, <2>2 DEF AcquireDomainLock, Is, Pcs
  <2>3. CASE ReadForSet(f) \/ ReadForClear(f)
    BY <1>3, <2>3 DEF ReadForSet, ReadForClear, ReadZone, Is, Pcs
  <2>4. CASE SetTxt(f) \/ Validate(f) \/ PostFinalize(f)
    BY <1>3, <2>4 DEF SetTxt, Validate, PostFinalize, Is, Pcs
  <2>5. ASSUME NEW gone \in SUBSET UpOrders, ClearTxt(f, gone) PROVE Simulated
    BY <1>3, <2>5 DEF ClearTxt, Is, Pcs
  <2>6. CASE NewOrderFails(f) \/ FinalizeTimeout(f) \/ PollFails(f)
    BY <1>2, <2>6 DEF NewOrderFails, FinalizeTimeout, PollFails, Is
  <2>7. ASSUME NEW b \in BOOLEAN, SetTxtFails(f, b) PROVE Simulated
    BY <1>2, <2>7 DEF SetTxtFails, Is
  <2>8. ASSUME NEW s \in {"pending", "invalid"}, ValidateFails(f, s) PROVE Simulated
    BY <1>2, <2>8 DEF ValidateFails, Is
  <2> QED
    BY <1>4, <1>8, <2>1, <2>2, <2>3, <2>4, <2>5, <2>6, <2>7, <2>8 DEF FlowStep
<1>9. ASSUME NEW o \in UpOrders, NEW s \in {"valid", "invalid"}, CaIssue(o, s) PROVE Simulated
  <2>1. UNCHANGED flow
    BY <1>9 DEF CaIssue
  <2> QED
    BY <1>6, <2>1
<1>10. CASE UNCHANGED vars
  BY <1>6, <1>10 DEF vars
<1>11. CASE CaStep
  BY <1>5, <1>9, <1>11 DEF CaStep
<1>12. CASE Next
  BY <1>1, <1>7, <1>8, <1>11, <1>12 DEF Next
<1> QED
  BY <1>10, <1>12

(* order_cert, with its locks, DNS records, retried finalize and restarts, *)
(* keeps the promise of CertService to every caller, for any number of     *)
(* flows, domains and upstream orders and with every provider.             *)
THEOREM OrderCertKeepsPromise == Spec => ImplementsCertService
<1>1. Init => Service!ServiceInit
  BY DEF Init, Service!ServiceInit, RequestState, Is, DomainOf
<1> QED
  BY <1>1, ServiceStep, LocksInvariant, DeliveryInvariant, CsrOfDomainInvariant, PTL
     DEF Spec, Simulated, ImplementsCertService, Service!ServiceSpec
===============================================================================
