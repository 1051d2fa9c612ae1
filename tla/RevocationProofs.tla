--------------------------- MODULE RevocationProofs ---------------------------
(***************************************************************************)
(* Proofs about Revocation and the OrderQuota it is composed with, for     *)
(* every set of orders, accounts, certificates and concurrent requests,    *)
(* every limit and every window.                                           *)
(***************************************************************************)
EXTENDS Revocation, FiniteSetTheorems, TLAPS

(* A request in progress was made by an account, for a certificate, and no *)
(* later than now.                                                         *)
RequestsOK == \A p \in Procs : req[p].pc # "idle" => req[p].account \in Accounts /\ req[p].asOf <= now
RevokersOK == \A p \in Revokers : rev[p].pc # "idle" => rev[p].account \in Accounts /\ rev[p].cert \in Certs

Typed == TypeOK /\ RequestsOK /\ RevokersOK

LEMMA RequestTypes ==
    /\ NoRequest \in Request /\ NoRequest.pc = "idle"
    /\ \A t \in Request, n \in Nat :
           LET u == [t EXCEPT !.pc = "insert", !.asOf = n] IN
           u \in Request /\ u.account = t.account /\ u.asOf = n /\ u.pc = "insert"
    /\ \A t \in Request : t.account \in Accounts \union {NoAccount} /\ t.asOf \in Nat
BY DEF Request, NoRequest

LEMMA RevokerTypes ==
    /\ NoRevoker \in Revoker /\ NoRevoker.pc = "idle"
    /\ \A t \in Revoker, pc \in {"legacy", "post", "wait", "refused"} :
           LET u == [t EXCEPT !.pc = pc] IN
           /\ u \in Revoker /\ u.pc = pc /\ u.account = t.account
           /\ u.cert = t.cert /\ u.genuine = t.genuine /\ u.had = t.had
BY DEF Revoker, NoRevoker

(* The order half of a step. *)
LEMMA QuotaTyping == Typed /\ QuotaNext /\ UNCHANGED certVars => Typed'
<1> SUFFICES ASSUME Typed, QuotaNext, UNCHANGED certVars PROVE Typed'
  OBVIOUS
<1> USE QuotaAssumption DEF Typed, TypeOK, RequestsOK, RevokersOK, certVars
<1>1. ASSUME NEW p \in Procs, NEW a \in Accounts, NewOrder(p, a) PROVE Typed'
  <2>1. LET u == [pc |-> "count", account |-> a, asOf |-> now] IN
        u \in Request /\ u.account = a /\ u.asOf = now
    BY DEF Request
  <2>. QED BY <1>1, <2>1 DEF NewOrder
<1>2. ASSUME NEW p \in Procs, CheckOrderRateLimit(p) PROVE Typed'
  <2> DEFINE u == [req[p] EXCEPT !.pc = "insert", !.asOf = now]
  <2>1. u \in Request /\ u.account = req[p].account /\ u.asOf = now
    BY RequestTypes
  <2>2. PICK v \in {u, NoRequest} : req' = [req EXCEPT ![p] = v]
    BY <1>2 DEF CheckOrderRateLimit
  <2>3. v \in Request /\ (v.pc # "idle" => v.account \in Accounts /\ v.asOf <= now)
    <3>1. req[p].account \in Accounts
      BY <1>2 DEF CheckOrderRateLimit
    <3>2. CASE v = u
      BY <2>1, <3>1, <3>2
    <3>3. CASE v = NoRequest
      BY <3>3, RequestTypes
    <3>. QED BY <2>2, <3>2, <3>3
  <2>. QED BY <1>2, <2>2, <2>3 DEF CheckOrderRateLimit
<1>3. ASSUME NEW p \in Procs, NEW o \in OrderIds, InsertOrder(p, o) PROVE Typed'
  <2>1. PICK t \in req[p].asOf..now : created' = [created EXCEPT ![o] = t]
    BY <1>3 DEF InsertOrder
  <2>2. req[p].asOf \in Nat
    BY RequestTypes
  <2>3. t \in Nat
    BY <2>1, <2>2
  <2>. QED BY <1>3, <2>1, <2>3, RequestTypes DEF InsertOrder
<1>4. ASSUME NEW p \in Procs, AbandonOrder(p) PROVE Typed'
  BY <1>4, RequestTypes DEF AbandonOrder
<1>5. CASE Tick
  <2>1. \A p \in Procs : req[p].asOf \in Nat
    BY RequestTypes
  <2>. QED BY <1>5, <2>1 DEF Tick
<1>. QED BY <1>1, <1>2, <1>3, <1>4, <1>5 DEF QuotaNext

(* The certificate half. *)
LEMMA CertTyping == Typed /\ CertNext /\ UNCHANGED quotaVars => Typed'
<1> SUFFICES ASSUME Typed, CertNext, UNCHANGED quotaVars PROVE Typed'
  OBVIOUS
<1> USE DEF Typed, TypeOK, RequestsOK, RevokersOK, quotaVars
<1>1. ASSUME NEW c \in Certs, NEW o \in OrderIds, NEW parsed \in BOOLEAN, StoreCert(c, o, parsed)
      PROVE  Typed'
  BY <1>1 DEF StoreCert
<1>2. ASSUME NEW p \in Revokers, NEW a \in Accounts, NEW c \in Certs, NEW genuine \in BOOLEAN,
             RevokeCert(p, a, c, genuine)
      PROVE  Typed'
  <2> DEFINE u == [pc |-> "serial", account |-> a, cert |-> c, genuine |-> genuine,
                   had |-> Owns(a, c, {"indexed", "legacy"})]
  <2>1. u \in Revoker /\ u.account = a /\ u.cert = c
    BY DEF Revoker, Owns
  <2>2. rev' = [rev EXCEPT ![p] = u] /\ asked' \subseteq Accounts \X Certs
    BY <1>2 DEF RevokeCert, Become
  <2>. QED BY <1>2, <2>1, <2>2 DEF RevokeCert
<1>3. ASSUME NEW p \in Revokers,
             LookUpSerial(p) \/ LookUpLegacy(p) \/ Refuse(p) \/ PostRevocation(p)
      PROVE  Typed'
  <2>1. PICK v : /\ rev' = [rev EXCEPT ![p] = v] /\ rev[p].pc # "idle"
                 /\ \/ v = NoRevoker
                    \/ \E pc \in {"legacy", "post", "wait", "refused"} : v = [rev[p] EXCEPT !.pc = pc]
    BY <1>3 DEF LookUpSerial, LookUpLegacy, Refuse, PostRevocation, Goto, Become
  <2>2. v \in Revoker /\ (v.pc # "idle" => v.account \in Accounts /\ v.cert \in Certs)
    <3>1. rev[p] \in Revoker /\ rev[p].account \in Accounts /\ rev[p].cert \in Certs
      BY <2>1
    <3>2. CASE v = NoRevoker
      BY <3>2, RevokerTypes
    <3>3. ASSUME NEW pc \in {"legacy", "post", "wait", "refused"}, v = [rev[p] EXCEPT !.pc = pc]
          PROVE  v \in Revoker /\ v.account = rev[p].account /\ v.cert = rev[p].cert
      BY <3>1, <3>3 DEF Revoker
    <3>. QED BY <2>1, <3>1, <3>2, <3>3
  <2>3. UNCHANGED <<row, certOrder, revoked, late, asked, confirmed>>
    BY <1>3 DEF LookUpSerial, LookUpLegacy, Refuse, PostRevocation
  <2>. QED BY <2>1, <2>2, <2>3
<1>4. ASSUME NEW p \in Revokers, Revoked(p) PROVE Typed'
  <2>1. rev[p].cert \in Certs
    BY <1>4 DEF Revoked
  <2>2. revoked' \subseteq Certs /\ confirmed' \in [Certs -> Nat]
    BY <1>4, <2>1 DEF Revoked
  <2>3. rev' = [rev EXCEPT ![p] = NoRevoker] /\ UNCHANGED <<row, certOrder, late, asked>>
    BY <1>4 DEF Revoked, Become
  <2>4. rev' \in [Revokers -> Revoker] /\ RevokersOK'
    BY <2>3, RevokerTypes
  <2>. QED BY <2>2, <2>3, <2>4
<1>5. ASSUME NEW p \in Revokers, RevocationFails(p) PROVE Typed'
  <2>1. rev[p].cert \in Certs
    BY <1>5 DEF RevocationFails
  <2>2. late' \subseteq Certs
    BY <1>5, <2>1 DEF RevocationFails
  <2>3. rev' = [rev EXCEPT ![p] = NoRevoker] /\ UNCHANGED <<row, certOrder, revoked, asked, confirmed>>
    BY <1>5 DEF RevocationFails, Become
  <2>4. rev' \in [Revokers -> Revoker] /\ RevokersOK'
    BY <2>3, RevokerTypes
  <2>. QED BY <2>2, <2>3, <2>4
<1>6. ASSUME NEW c \in Certs, NEW lost \in BOOLEAN, LateRevocation(c, lost) PROVE Typed'
  BY <1>6 DEF LateRevocation
<1>. QED BY <1>1, <1>2, <1>3, <1>4, <1>5, <1>6 DEF CertNext

LEMMA Typing == Typed /\ [Next]_vars => Typed'
<1>1. Typed /\ UNCHANGED vars => Typed'
  BY DEF vars, Typed, TypeOK, RequestsOK, RevokersOK
<1>. QED BY <1>1, QuotaTyping, CertTyping DEF Next

LEMMA InitTyped == Init => Typed
<1> SUFFICES ASSUME Init PROVE Typed
  OBVIOUS
<1>1. TypeOK
  <2>1. /\ owner \in [OrderIds -> Accounts \union {NoAccount}]
        /\ created \in [OrderIds -> Nat] /\ now \in Nat
    BY QuotaAssumption DEF Init, QuotaInit
  <2>2. req \in [Procs -> Request] /\ rev \in [Revokers -> Revoker]
    BY RequestTypes, RevokerTypes DEF Init, QuotaInit
  <2>3. /\ row \in [Certs -> {"absent", "indexed", "legacy", "opaque"}]
        /\ certOrder \in [Certs -> OrderIds] /\ confirmed \in [Certs -> Nat]
        /\ revoked \subseteq Certs /\ late \subseteq Certs /\ asked \subseteq Accounts \X Certs
    BY DEF Init
  <2>. QED BY <2>1, <2>2, <2>3 DEF TypeOK
<1>2. RequestsOK /\ RevokersOK
  BY RequestTypes, RevokerTypes DEF Init, QuotaInit, RequestsOK, RevokersOK
<1>. QED BY <1>1, <1>2 DEF Typed

(* Every variable of the composition keeps its type.                       *)
THEOREM TypeCorrect == Spec => []TypeOK
<1>1. Typed => TypeOK
  BY DEF Typed
<1>. QED BY <1>1, InitTyped, Typing, PTL DEF Spec

-------------------------------------------------------------------------------
(* Why the limit is overshot by less than the number of requests.  A       *)
(* request that has counted and not yet inserted owns a row in advance;    *)
(* the last of them to count saw fewer than ORDER_RATE_LIMIT rows in a     *)
(* window that reached back at least as far as the present one.            *)
Inserting(a) == {q \in Procs : req[q].pc = "insert" /\ req[q].account = a}

QuotaInv ==
    RateLimit > 0 => \A a \in Accounts :
        Cardinality(InWindow(a, now)) + Cardinality(Inserting(a)) < RateLimit + Cardinality(Procs)

LEMMA Finite ==
    ASSUME NEW a, NEW t
    PROVE  /\ IsFiniteSet(InWindow(a, t)) /\ Cardinality(InWindow(a, t)) \in Nat
           /\ IsFiniteSet(Inserting(a)) /\ Cardinality(Inserting(a)) \in Nat
           /\ Cardinality(Procs) \in Nat
<1>1. InWindow(a, t) \subseteq OrderIds /\ Inserting(a) \subseteq Procs
  BY DEF InWindow, Inserting
<1>. QED BY <1>1, QuotaAssumption, FS_Subset, FS_CardinalityType

LEMMA FinitePrime ==
    ASSUME NEW a
    PROVE  /\ IsFiniteSet(InWindow(a, now)') /\ Cardinality(InWindow(a, now)') \in Nat
           /\ IsFiniteSet(Inserting(a)') /\ Cardinality(Inserting(a)') \in Nat
           /\ Cardinality(Inserting(a)') <= Cardinality(Procs)
<1>1. InWindow(a, now)' \subseteq OrderIds /\ Inserting(a)' \subseteq Procs
  BY DEF InWindow, Inserting
<1>. QED BY <1>1, QuotaAssumption, FS_Subset, FS_CardinalityType

(* A step that stores nothing and lets no request pass the count, as far   *)
(* as account a is concerned.                                              *)
LEMMA QuotaKept ==
    ASSUME NEW a, InWindow(a, now)' \subseteq InWindow(a, now), Inserting(a)' \subseteq Inserting(a),
           Cardinality(InWindow(a, now)) + Cardinality(Inserting(a)) < RateLimit + Cardinality(Procs)
    PROVE  Cardinality(InWindow(a, now)') + Cardinality(Inserting(a)') < RateLimit + Cardinality(Procs)
<1>1. /\ Cardinality(InWindow(a, now)') <= Cardinality(InWindow(a, now))
      /\ Cardinality(Inserting(a)') <= Cardinality(Inserting(a))
  BY Finite, FS_Subset
<1>. QED BY <1>1, Finite, FinitePrime, QuotaAssumption

LEMMA QuotaStep == Typed /\ QuotaInv /\ [Next]_vars => QuotaInv'
<1> SUFFICES ASSUME Typed, QuotaInv, [Next]_vars, RateLimit > 0, NEW a \in Accounts
             PROVE  Cardinality(InWindow(a, now)') + Cardinality(Inserting(a)') < RateLimit + Cardinality(Procs)
  BY QuotaAssumption DEF QuotaInv
<1>0. Cardinality(InWindow(a, now)) + Cardinality(Inserting(a)) < RateLimit + Cardinality(Procs)
  BY DEF QuotaInv
<1> USE DEF Typed, TypeOK
<1>1. ASSUME NEW p \in Procs, NEW b \in Accounts, NewOrder(p, b)
      PROVE  InWindow(a, now)' \subseteq InWindow(a, now) /\ Inserting(a)' \subseteq Inserting(a)
  BY <1>1 DEF NewOrder, InWindow, Inserting
<1>2. ASSUME NEW p \in Procs, CheckOrderRateLimit(p)
      PROVE  Cardinality(InWindow(a, now)') + Cardinality(Inserting(a)') < RateLimit + Cardinality(Procs)
  <2>1. CASE req[p].account = a /\ Cardinality(InWindow(a, req[p].asOf)) < RateLimit
    <3>1. InWindow(a, now)' = InWindow(a, now)
      BY <1>2 DEF CheckOrderRateLimit, InWindow
    <3>2. req[p].asOf <= now /\ req[p].asOf \in Nat
      BY <1>2, RequestTypes DEF CheckOrderRateLimit, RequestsOK
    <3>3. InWindow(a, now) \subseteq InWindow(a, req[p].asOf)
      BY <3>2, QuotaAssumption DEF InWindow
    <3>4. Cardinality(InWindow(a, now)) <= Cardinality(InWindow(a, req[p].asOf))
      BY <3>3, Finite, FS_Subset
    <3>. QED BY <2>1, <3>1, <3>4, Finite, FinitePrime, QuotaAssumption
  <2>2. CASE ~(req[p].account = a /\ Cardinality(InWindow(a, req[p].asOf)) < RateLimit)
    <3>1. InWindow(a, now)' \subseteq InWindow(a, now)
      BY <1>2 DEF CheckOrderRateLimit, InWindow
    <3>2. Inserting(a)' \subseteq Inserting(a)
      <4> DEFINE u == [req[p] EXCEPT !.pc = "insert", !.asOf = now]
      <4>1. u.account = req[p].account
        BY RequestTypes
      <4>2. \A q \in Procs : q # p => req'[q] = req[q]
        BY <1>2 DEF CheckOrderRateLimit
      <4>3. req'[p] = u \/ req'[p] = NoRequest
        BY <1>2 DEF CheckOrderRateLimit
      <4>4. req'[p] = u => req[p].account # a
        <5>1. CASE Cardinality(InWindow(req[p].account, req[p].asOf)) < RateLimit
          BY <2>2, <5>1
        <5>2. CASE ~(Cardinality(InWindow(req[p].account, req[p].asOf)) < RateLimit)
          <6>1. req'[p] = NoRequest
            BY <1>2, <5>2, QuotaAssumption DEF CheckOrderRateLimit
          <6>2. u.pc = "insert"
            BY RequestTypes
          <6>. QED BY <6>1, <6>2, RequestTypes
        <5>. QED BY <5>1, <5>2
      <4>5. ASSUME NEW q \in Inserting(a)' PROVE q \in Inserting(a)
        <5>1. q \in Procs /\ req'[q].pc = "insert" /\ req'[q].account = a
          BY <4>5 DEF Inserting
        <5>2. q # p
          BY <4>1, <4>3, <4>4, <5>1, RequestTypes
        <5>. QED BY <4>2, <5>1, <5>2 DEF Inserting
      <4>. QED BY <4>5
    <3>. QED BY <1>0, <3>1, <3>2, QuotaKept
  <2>. QED BY <2>1, <2>2
<1>3. ASSUME NEW p \in Procs, NEW o \in OrderIds, InsertOrder(p, o)
      PROVE  Cardinality(InWindow(a, now)') + Cardinality(Inserting(a)') < RateLimit + Cardinality(Procs)
  <2>1. CASE req[p].account = a
    <3>1. InWindow(a, now)' \subseteq InWindow(a, now) \union {o}
      BY <1>3 DEF InsertOrder, InWindow
    <3>2. Inserting(a)' = Inserting(a) \ {p} /\ p \in Inserting(a)
      BY <1>3, <2>1, RequestTypes DEF InsertOrder, Inserting
    <3>3. Cardinality(InWindow(a, now) \union {o}) <= Cardinality(InWindow(a, now)) + 1
      <4>1. Cardinality(InWindow(a, now) \union {o}) \in
              {Cardinality(InWindow(a, now)), Cardinality(InWindow(a, now)) + 1}
        BY Finite, FS_AddElement
      <4>. QED BY <4>1, Finite
    <3>4. IsFiniteSet(InWindow(a, now) \union {o}) /\ Cardinality(InWindow(a, now) \union {o}) \in Nat
      BY Finite, FS_AddElement, FS_CardinalityType
    <3>5. Cardinality(InWindow(a, now)') <= Cardinality(InWindow(a, now) \union {o})
      BY <3>1, <3>4, FS_Subset
    <3>6. Cardinality(Inserting(a)') = Cardinality(Inserting(a)) - 1
      BY <3>2, Finite, FS_RemoveElement
    <3>. QED BY <1>0, <3>3, <3>4, <3>5, <3>6, Finite, FinitePrime, QuotaAssumption
  <2>2. CASE req[p].account # a
    <3>1. InWindow(a, now)' \subseteq InWindow(a, now)
      BY <1>3, <2>2 DEF InsertOrder, InWindow
    <3>2. Inserting(a)' \subseteq Inserting(a)
      BY <1>3, RequestTypes DEF InsertOrder, Inserting
    <3>. QED BY <1>0, <3>1, <3>2, QuotaKept
  <2>. QED BY <2>1, <2>2
<1>4. ASSUME NEW p \in Procs, AbandonOrder(p)
      PROVE  InWindow(a, now)' \subseteq InWindow(a, now) /\ Inserting(a)' \subseteq Inserting(a)
  BY <1>4, RequestTypes DEF AbandonOrder, InWindow, Inserting
<1>5. ASSUME Tick
      PROVE  InWindow(a, now)' \subseteq InWindow(a, now) /\ Inserting(a)' \subseteq Inserting(a)
  BY <1>5, QuotaAssumption DEF Tick, InWindow, Inserting
<1>6. ASSUME UNCHANGED quotaVars
      PROVE  InWindow(a, now)' \subseteq InWindow(a, now) /\ Inserting(a)' \subseteq Inserting(a)
  BY <1>6 DEF quotaVars, InWindow, Inserting
<1>7. CASE QuotaNext
  BY <1>0, <1>1, <1>2, <1>3, <1>4, <1>5, <1>7, QuotaKept DEF QuotaNext
<1>8. CASE UNCHANGED quotaVars
  BY <1>0, <1>6, <1>8, QuotaKept
<1>. QED BY <1>7, <1>8 DEF Next, vars, quotaVars

(* The orders an account has in the window exceed ORDER_RATE_LIMIT by less *)
(* than the number of requests that run at once.                           *)
THEOREM QuotaOvershootBounded == Spec => []QuotaOvershoot
<1>1. Init => QuotaInv
  <2> SUFFICES ASSUME Init, RateLimit > 0, NEW a \in Accounts
               PROVE  Cardinality(InWindow(a, now)) + Cardinality(Inserting(a)) < RateLimit + Cardinality(Procs)
    BY DEF QuotaInv
  <2>1. InWindow(a, now) = {} /\ Inserting(a) = {}
    <3>1. InWindow(a, now) = {}
      BY QuotaAssumption DEF Init, QuotaInit, InWindow
    <3>2. Inserting(a) = {}
      BY RequestTypes DEF Init, QuotaInit, Inserting
    <3>. QED BY <3>1, <3>2
  <2>2. Cardinality(InWindow(a, now)) = 0 /\ Cardinality(Inserting(a)) = 0
    BY <2>1, FS_EmptySet
  <2>. QED BY <2>2, Finite, QuotaAssumption
<1>2. QuotaInv => QuotaOvershoot
  BY Finite, QuotaAssumption DEF QuotaInv, QuotaOvershoot
<1>. QED BY <1>1, <1>2, InitTyped, Typing, QuotaStep, PTL DEF Spec

-------------------------------------------------------------------------------
(* Why only owners revoke: from the look-up on, a request is for a stored  *)
(* certificate of its own account, and neither the row's order nor the     *)
(* order's account ever changes again.                                     *)
Asked(c) == row[c] # "absent" /\ <<owner[certOrder[c]], c>> \in asked

RowsOwned   == \A c \in Certs : row[c] # "absent" => owner[certOrder[c]] # NoAccount
PassedOwned == \A p \in Revokers :
                   /\ rev[p].pc # "idle" => <<rev[p].account, rev[p].cert>> \in asked
                   /\ rev[p].pc \in {"post", "wait"} => Asked(rev[p].cert)
SentOwned   == \A c \in late \union revoked : Asked(c)

OwnInv == RowsOwned /\ PassedOwned /\ SentOwned

(* A stored row keeps its kind, its order and the order's account.         *)
LEMMA RowsStay ==
    ASSUME Typed, RowsOwned, [Next]_vars, NEW c \in Certs, row[c] # "absent"
    PROVE  row'[c] = row[c] /\ certOrder'[c] = certOrder[c] /\ owner'[certOrder[c]] = owner[certOrder[c]]
<1>1. owner[certOrder[c]] # NoAccount /\ certOrder[c] \in OrderIds
  BY DEF RowsOwned, Typed, TypeOK
<1>2. UNCHANGED <<row, certOrder>> \/ \E d \in Certs : row[d] = "absent" /\ d # c
                   /\ row'[c] = row[c] /\ certOrder'[c] = certOrder[c]
  BY DEF Next, QuotaNext, CertNext, certVars, vars, StoreCert, RevokeCert, LookUpSerial, LookUpLegacy,
         Refuse, PostRevocation, Revoked, RevocationFails, LateRevocation, Typed, TypeOK
<1>3. UNCHANGED owner \/ \E p \in Procs, o \in OrderIds : InsertOrder(p, o)
  BY DEF Next, QuotaNext, quotaVars, vars, NewOrder, CheckOrderRateLimit, AbandonOrder, Tick
<1>4. owner'[certOrder[c]] = owner[certOrder[c]]
  BY <1>1, <1>3 DEF InsertOrder, Typed, TypeOK
<1>. QED BY <1>2, <1>4

LEMMA AskedStays ==
    ASSUME Typed, RowsOwned, [Next]_vars, NEW c \in Certs, Asked(c)
    PROVE  Asked(c)'
<1>1. asked \subseteq asked'
  BY DEF Next, CertNext, certVars, vars, StoreCert, RevokeCert, LookUpSerial, LookUpLegacy, Refuse,
         PostRevocation, Revoked, RevocationFails, LateRevocation
<1>. QED BY <1>1, RowsStay DEF Asked

LEMMA RowsStep == Typed /\ RowsOwned /\ [Next]_vars => RowsOwned'
<1> SUFFICES ASSUME Typed, RowsOwned, [Next]_vars, NEW c \in Certs, row'[c] # "absent"
             PROVE  owner'[certOrder'[c]] # NoAccount
  BY DEF RowsOwned
<1>1. CASE row[c] # "absent"
  BY <1>1, RowsStay DEF RowsOwned
<1>2. CASE row[c] = "absent"
  <2>1. PICK d \in Certs, o \in OrderIds, parsed \in BOOLEAN : StoreCert(d, o, parsed) /\ UNCHANGED owner
    BY <1>2 DEF Next, CertNext, certVars, quotaVars, vars, RevokeCert, LookUpSerial, LookUpLegacy,
                Refuse, PostRevocation, Revoked, RevocationFails, LateRevocation
  <2>. QED BY <1>2, <2>1 DEF StoreCert, Typed, TypeOK
<1>. QED BY <1>1, <1>2

LEMMA OwnStep == Typed /\ OwnInv /\ [Next]_vars => OwnInv'
<1> SUFFICES ASSUME Typed, OwnInv, [Next]_vars PROVE PassedOwned' /\ SentOwned'
  BY RowsStep DEF OwnInv
<1>0. \A c \in Certs : Asked(c) => Asked(c)'
  BY AskedStays DEF OwnInv
<1> USE DEF OwnInv, PassedOwned, SentOwned, Typed, TypeOK
<1>1. ASSUME UNCHANGED <<rev, revoked, late, asked>> PROVE PassedOwned' /\ SentOwned'
  BY <1>0, <1>1 DEF RevokersOK
<1>2. ASSUME NEW p \in Revokers, NEW a \in Accounts, NEW c \in Certs, NEW genuine \in BOOLEAN,
             RevokeCert(p, a, c, genuine)
      PROVE  PassedOwned' /\ SentOwned'
  <2>1. /\ rev'[p].pc = "serial" /\ rev'[p].account = a /\ rev'[p].cert = c
        /\ \A q \in Revokers : q # p => rev'[q] = rev[q]
        /\ <<a, c>> \in asked' /\ asked \subseteq asked'
    BY <1>2 DEF RevokeCert, Become
  <2>. QED BY <1>0, <1>2, <2>1 DEF RevokeCert, RevokersOK
<1>3. ASSUME NEW p \in Revokers, LookUpSerial(p) \/ LookUpLegacy(p) \/ PostRevocation(p)
      PROVE  PassedOwned' /\ SentOwned'
  <2>1. PICK pc \in {"legacy", "post", "wait", "refused"} : Goto(p, pc)
    BY <1>3 DEF LookUpSerial, LookUpLegacy, PostRevocation
  <2>2. /\ rev'[p].pc = pc /\ rev'[p].account = rev[p].account /\ rev'[p].cert = rev[p].cert
        /\ \A q \in Revokers : q # p => rev'[q] = rev[q]
    BY <2>1, RevokerTypes DEF Goto, Become
  <2>3. rev[p].pc # "idle" /\ UNCHANGED <<row, certOrder, revoked, late, asked>>
    BY <1>3 DEF LookUpSerial, LookUpLegacy, PostRevocation
  <2>4. rev[p].cert \in Certs /\ <<rev[p].account, rev[p].cert>> \in asked
    BY <2>3 DEF RevokersOK
  <2>5. pc \in {"post", "wait"} => Asked(rev[p].cert)
    <3>1. CASE LookUpSerial(p)
      BY <2>2, <2>4, <3>1, RevokerTypes DEF LookUpSerial, Goto, Become, Owns, Asked
    <3>2. CASE LookUpLegacy(p)
      BY <2>2, <2>4, <3>2, RevokerTypes DEF LookUpLegacy, Goto, Become, Owns, Asked
    <3>3. CASE PostRevocation(p)
      BY <3>3 DEF PostRevocation
    <3>. QED BY <1>3, <3>1, <3>2, <3>3
  <2>. QED BY <1>0, <2>2, <2>3, <2>4, <2>5 DEF RevokersOK
<1>4. ASSUME NEW p \in Revokers, Refuse(p) \/ Revoked(p) \/ RevocationFails(p)
      PROVE  PassedOwned' /\ SentOwned'
  <2>1. rev' = [rev EXCEPT ![p] = NoRevoker] /\ UNCHANGED asked
    BY <1>4 DEF Refuse, Revoked, RevocationFails, Become
  <2>2. late' \union revoked' \subseteq
            late \union revoked \union (IF rev[p].pc = "wait" THEN {rev[p].cert} ELSE {})
    BY <1>4 DEF Refuse, Revoked, RevocationFails
  <2>3. PassedOwned'
    BY <1>0, <2>1, RevokerTypes DEF RevokersOK
  <2>4. SentOwned'
    BY <1>0, <2>2 DEF RevokersOK
  <2>. QED BY <2>3, <2>4
<1>5. ASSUME NEW c \in Certs, NEW lost \in BOOLEAN, LateRevocation(c, lost)
      PROVE  PassedOwned' /\ SentOwned'
  <2>1. late' \union revoked' \subseteq late \union revoked /\ UNCHANGED <<rev, asked>>
    BY <1>5 DEF LateRevocation
  <2>. QED BY <1>0, <2>1 DEF RevokersOK
<1>6. UNCHANGED <<rev, revoked, late, asked>> \/ CertNext
  BY DEF Next, vars, certVars
<1>7. CASE CertNext
  BY <1>1, <1>2, <1>3, <1>4, <1>5, <1>7 DEF CertNext, StoreCert
<1>. QED BY <1>1, <1>6, <1>7

LEMMA InitOwn == Init => OwnInv
<1> SUFFICES ASSUME Init PROVE OwnInv
  OBVIOUS
<1>1. RowsOwned
  BY DEF Init, RowsOwned
<1>2. PassedOwned /\ SentOwned
  BY RevokerTypes DEF Init, PassedOwned, SentOwned
<1>. QED BY <1>1, <1>2 DEF OwnInv

(* A certificate is revoked only if the account of its order asked for it. *)
THEOREM OnlyOwnersCanRevoke == Spec => []OnlyOwnersRevoke
<1>1. OwnInv => OnlyOwnersRevoke
  BY DEF OwnInv, SentOwned, Asked, OnlyOwnersRevoke
<1>. QED BY <1>1, InitTyped, Typing, InitOwn, OwnStep, PTL DEF Spec

-------------------------------------------------------------------------------
LEMMA ConfirmedStep == Typed /\ ConfirmedOnce /\ [Next]_vars => ConfirmedOnce'
<1> SUFFICES ASSUME Typed, ConfirmedOnce, [Next]_vars PROVE ConfirmedOnce'
  OBVIOUS
<1> USE DEF ConfirmedOnce, Typed, TypeOK
<1>1. ASSUME NEW p \in Revokers, Revoked(p) PROVE ConfirmedOnce'
  <2>1. rev[p].cert \in Certs /\ confirmed[rev[p].cert] = 0
    BY <1>1 DEF Revoked, RevokersOK
  <2>. QED BY <1>1, <2>1 DEF Revoked
<1>2. ASSUME confirmed' = confirmed, revoked \subseteq revoked' PROVE ConfirmedOnce'
  BY <1>2
<1>. QED BY <1>1, <1>2
         DEF Next, CertNext, certVars, vars, StoreCert, RevokeCert, LookUpSerial, LookUpLegacy, Refuse,
             PostRevocation, RevocationFails, LateRevocation

(* An answer 200 is given once at most, and only for a certificate that is *)
(* revoked.                                                                *)
THEOREM ConfirmedAtMostOnce == Spec => []ConfirmedOnce
<1>1. Init => ConfirmedOnce
  BY DEF Init, ConfirmedOnce
<1>. QED BY <1>1, InitTyped, Typing, ConfirmedStep, PTL DEF Spec

-------------------------------------------------------------------------------
(* Why nobody is refused wrongly: the row a request had when it came in is *)
(* still there, of the kind the query that is due looks for.               *)
HadInv == \A p \in Revokers :
    /\ rev[p].pc = "serial" /\ rev[p].had => Owns(rev[p].account, rev[p].cert, {"indexed", "legacy"})
    /\ rev[p].pc = "legacy" /\ rev[p].had => Owns(rev[p].account, rev[p].cert, {"legacy"})
    /\ rev[p].pc = "refused" => ~rev[p].had

LEMMA HadStep == Typed /\ RowsOwned /\ HadInv /\ [Next]_vars => HadInv'
<1> SUFFICES ASSUME Typed, RowsOwned, HadInv, [Next]_vars PROVE HadInv'
  OBVIOUS
<1>0. ASSUME NEW a, NEW c \in Certs, NEW kinds \in {{"indexed", "legacy"}, {"legacy"}}, Owns(a, c, kinds)
      PROVE  Owns(a, c, kinds)'
  <2>1. row[c] # "absent"
    BY <1>0 DEF Owns
  <2>. QED BY <1>0, <2>1, RowsStay DEF Owns
<1> USE DEF HadInv, Typed, TypeOK
<1>1. ASSUME UNCHANGED rev PROVE HadInv'
  BY <1>0, <1>1 DEF RevokersOK
<1>2. ASSUME NEW p \in Revokers, NEW a \in Accounts, NEW c \in Certs, NEW genuine \in BOOLEAN,
             RevokeCert(p, a, c, genuine)
      PROVE  HadInv'
  <2>1. /\ rev'[p].pc = "serial" /\ rev'[p].account = a /\ rev'[p].cert = c
        /\ rev'[p].had = Owns(a, c, {"indexed", "legacy"})
        /\ \A q \in Revokers : q # p => rev'[q] = rev[q]
    BY <1>2 DEF RevokeCert, Become
  <2>. QED BY <1>0, <2>1 DEF RevokersOK
<1>3. ASSUME NEW p \in Revokers, LookUpSerial(p) \/ LookUpLegacy(p) \/ PostRevocation(p)
      PROVE  HadInv'
  <2>1. PICK pc \in {"legacy", "post", "wait", "refused"} : Goto(p, pc)
    BY <1>3 DEF LookUpSerial, LookUpLegacy, PostRevocation
  <2>2. /\ rev'[p].pc = pc /\ rev'[p].account = rev[p].account /\ rev'[p].cert = rev[p].cert
        /\ rev'[p].had = rev[p].had
        /\ \A q \in Revokers : q # p => rev'[q] = rev[q]
    BY <2>1, RevokerTypes DEF Goto, Become
  <2>3. rev[p].cert \in Certs
    BY <1>3 DEF LookUpSerial, LookUpLegacy, PostRevocation, RevokersOK
  <2>4. /\ pc = "legacy" /\ rev[p].had => Owns(rev[p].account, rev[p].cert, {"legacy"})
        /\ pc = "refused" => ~rev[p].had
    <3>1. CASE LookUpSerial(p)
      BY <2>2, <3>1, RevokerTypes DEF LookUpSerial, Goto, Become, Owns
    <3>2. CASE LookUpLegacy(p)
      BY <2>2, <3>2, RevokerTypes DEF LookUpLegacy, Goto, Become
    <3>3. CASE PostRevocation(p)
      BY <2>2, <3>3, RevokerTypes DEF PostRevocation, Goto, Become
    <3>. QED BY <1>3, <3>1, <3>2, <3>3
  <2>. QED BY <1>0, <2>2, <2>3, <2>4 DEF RevokersOK
<1>4. ASSUME NEW p \in Revokers, Refuse(p) \/ Revoked(p) \/ RevocationFails(p)
      PROVE  HadInv'
  <2>1. rev' = [rev EXCEPT ![p] = NoRevoker]
    BY <1>4 DEF Refuse, Revoked, RevocationFails, Become
  <2>. QED BY <1>0, <2>1, RevokerTypes DEF RevokersOK
<1>5. UNCHANGED rev \/ CertNext
  BY DEF Next, vars, certVars
<1>6. CASE CertNext
  BY <1>1, <1>2, <1>3, <1>4, <1>6 DEF CertNext, StoreCert, LateRevocation
<1>. QED BY <1>1, <1>5, <1>6

(* 403 is never the answer to an account that had a readable row for the   *)
(* certificate when it asked.                                              *)
THEOREM NeverFalselyRefused == Spec => []NoFalseRefusal
<1>1. Init => HadInv
  BY RevokerTypes DEF Init, HadInv
<1>2. HadInv => NoFalseRefusal
  BY DEF HadInv, NoFalseRefusal
<1>3. OwnInv => RowsOwned
  BY DEF OwnInv
<1>. QED BY <1>1, <1>2, <1>3, InitTyped, Typing, InitOwn, OwnStep, HadStep, PTL DEF Spec

-------------------------------------------------------------------------------
LEMMA RowsInvariant == Spec => [](Typed /\ RowsOwned)
<1>1. Init => RowsOwned
  BY InitOwn DEF OwnInv
<1>. QED BY <1>1, InitTyped, Typing, RowsStep, PTL DEF Spec

LEMMA ForwardStep == Typed /\ RowsOwned /\ ForwardsForOwner /\ [Next]_vars => ForwardsForOwner'
<1> SUFFICES ASSUME Typed, RowsOwned, ForwardsForOwner, [Next]_vars,
                    NEW p \in Revokers, rev'[p].pc \in {"post", "wait"}
             PROVE  row'[rev'[p].cert] # "absent" /\ owner'[certOrder'[rev'[p].cert]] = rev'[p].account
  BY DEF ForwardsForOwner
<1> DEFINE c == rev[p].cert
<1>1. /\ rev[p].pc # "idle" => c \in Certs
      /\ rev \in [Revokers -> Revoker]
  BY DEF Typed, TypeOK, RevokersOK
<1>2. CASE /\ rev'[p].cert = c /\ rev'[p].account = rev[p].account /\ rev[p].pc # "idle"
           /\ row[c] # "absent" /\ owner[certOrder[c]] = rev[p].account
  BY <1>1, <1>2, RowsStay
<1>3. CASE rev'[p] = rev[p]
  <2>1. row[c] # "absent" /\ owner[certOrder[c]] = rev[p].account
    BY <1>3 DEF ForwardsForOwner
  <2>. QED BY <1>2, <1>3, <2>1
<1>4. ASSUME NEW q \in Revokers, NEW d \in {"legacy", "post", "wait", "refused"}, Goto(q, d), p = q
      PROVE  /\ rev'[p].cert = c /\ rev'[p].account = rev[p].account /\ rev'[p].pc = d
  BY <1>1, <1>4, RevokerTypes DEF Goto, Become
<1>5. ASSUME NEW q \in Revokers, NEW t, Become(q, t), p # q
      PROVE  rev'[p] = rev[p]
  BY <1>1, <1>5 DEF Become
<1>6. ASSUME NEW q \in Revokers, LookUpSerial(q) \/ LookUpLegacy(q) \/ PostRevocation(q), p = q
      PROVE  /\ rev'[p].cert = c /\ rev'[p].account = rev[p].account /\ rev[p].pc # "idle"
             /\ row[c] # "absent" /\ owner[certOrder[c]] = rev[p].account
  <2>1. CASE LookUpSerial(q)
    BY <1>4, <1>6, <2>1 DEF LookUpSerial, Owns
  <2>2. CASE LookUpLegacy(q)
    BY <1>4, <1>6, <2>2 DEF LookUpLegacy, Owns
  <2>3. CASE PostRevocation(q)
    BY <1>4, <1>6, <2>3 DEF PostRevocation, ForwardsForOwner
  <2>. QED BY <1>6, <2>1, <2>2, <2>3
<1>7. ASSUME NEW q \in Revokers,
             \/ \E a \in Accounts, x \in Certs, genuine \in BOOLEAN : RevokeCert(q, a, x, genuine)
             \/ Refuse(q) \/ Revoked(q) \/ RevocationFails(q),
             p = q
      PROVE  FALSE
  <2>1. rev'[p].pc \in {"serial", "idle"}
    BY <1>1, <1>7, RevokerTypes DEF RevokeCert, Refuse, Revoked, RevocationFails, Become
  <2>. QED BY <2>1
<1>8. CASE UNCHANGED rev
  BY <1>3, <1>8
<1>9. CASE \E q \in Revokers : \E t : Become(q, t) /\ p # q
  BY <1>3, <1>5, <1>9
<1>10. CASE UNCHANGED rev \/ CertNext
  <2>1. CASE CertNext
    <3>1. \/ UNCHANGED rev
          \/ \E q \in Revokers :
                \/ \E a \in Accounts, x \in Certs, genuine \in BOOLEAN : RevokeCert(q, a, x, genuine)
                \/ LookUpSerial(q) \/ LookUpLegacy(q) \/ Refuse(q)
                \/ PostRevocation(q) \/ Revoked(q) \/ RevocationFails(q)
      BY <2>1 DEF CertNext, StoreCert, LateRevocation
    <3>2. \A q \in Revokers :
              ( \/ \E a \in Accounts, x \in Certs, genuine \in BOOLEAN : RevokeCert(q, a, x, genuine)
                \/ LookUpSerial(q) \/ LookUpLegacy(q) \/ Refuse(q)
                \/ PostRevocation(q) \/ Revoked(q) \/ RevocationFails(q) ) => \E t : Become(q, t)
      BY DEF RevokeCert, LookUpSerial, LookUpLegacy, Refuse, PostRevocation, Revoked, RevocationFails, Goto
    <3>. QED BY <1>2, <1>6, <1>7, <1>8, <1>9, <3>1, <3>2
  <2>. QED BY <1>8, <1>10, <2>1
<1>. QED BY <1>10 DEF Next, vars, certVars

(* What the relay forwards to the CA it forwards for the certificate's     *)
(* owner, however long ago the two look-ups were.                          *)
THEOREM ForwardsOnlyForOwners == Spec => []ForwardsForOwner
<1>1. Init => ForwardsForOwner
  BY RevokerTypes DEF Init, ForwardsForOwner
<1>. QED BY <1>1, RowsInvariant, ForwardStep, PTL DEF Spec

(* A stored certificate never changes hands.                               *)
THEOREM OwnershipNeverChanges == Spec => OwnershipFixed
<1> DEFINE Keeps == \A c \in Certs : row[c] # "absent" =>
                        row'[c] = row[c] /\ owner'[certOrder'[c]] = owner[certOrder[c]]
<1>1. Typed /\ RowsOwned /\ [Next]_vars => [Keeps]_vars
  BY RowsStay
<1>. QED BY <1>1, RowsInvariant, PTL DEF Spec, OwnershipFixed

(* A relay that serves one order request at a time keeps ORDER_RATE_LIMIT  *)
(* exactly: overlapping requests are the only way past it, and neither the *)
(* moving window nor a request that is cut off is another.                 *)
THEOREM QuotaExactOneAtATime ==
    ASSUME Cardinality(Procs) = 1
    PROVE  Spec => []QuotaExact
<1>1. QuotaOvershoot => QuotaExact
  BY Finite, QuotaAssumption DEF QuotaOvershoot, QuotaExact
<1>. QED BY <1>1, QuotaOvershootBounded, PTL

===============================================================================
