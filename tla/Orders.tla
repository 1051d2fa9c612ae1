-------------------------------- MODULE Orders --------------------------------
(***************************************************************************)
(* The life of an order inside the relay: the routes that create it,       *)
(* acknowledge its challenge and finalize it (routes/order.py,             *)
(* routes/challenge.py), the two background tasks that move it on          *)
(* (worker.py), the certificate store, and the sweep at start-up           *)
(* (main.py).  All of them are coroutines of one event loop that meet only *)
(* in the database.                                                        *)
(*                                                                         *)
(* One step of the model is one database round trip or one await on the    *)
(* outside world.  The atomicity is that of the code's sessions on a       *)
(* file-backed SQLite database:                                            *)
(*   - a SELECT sees the last committed state and holds nothing;           *)
(*   - the first UPDATE or INSERT of a session takes the write lock, which *)
(*     COMMIT releases, so everything in between is one step;              *)
(*   - an ORM object keeps the values it was loaded with, and a commit     *)
(*     writes only the attributes whose new value differs from the loaded  *)
(*     one (hence seenAuthz and seenOrder).                                *)
(* An order has exactly one authorization (new_order refuses any other     *)
(* number), so authorizations are indexed by their order.                  *)
(***************************************************************************)
EXTENDS Naturals, FiniteSets

CONSTANTS OrderIds,     \* orders that may be created
          Accounts,     \* registered accounts
          NoAccount,    \* account_id "" of a request signed by a bare jwk
          NoOrder,      \* the order of an idle coroutine
          Procs,        \* coroutines running at once: a handler, then its task
          MaxPosts,     \* bound: challenge POSTs per order
          DbErrors      \* may a database statement fail ("database is locked")?

ASSUME ConstantsAssumption ==
    /\ NoAccount \notin Accounts
    /\ NoOrder \notin OrderIds
    /\ IsFiniteSet(Procs)
    /\ MaxPosts \in Nat
    /\ DbErrors \in BOOLEAN

VARIABLES
    owner,          \* orders.account_id
    orderStatus,    \* orders.status; "absent" while there is no row
    orderCert,      \* orders.cert_id; 0 is NULL
    orderError,     \* orders.error IS NOT NULL
    authzStatus,    \* authorizations.status
    authzError,     \* authorizations.error IS NOT NULL
    certs,          \* rows of certificates, by order
    task,           \* the coroutines and their local variables
    \* History of each order, read only by the bound and by the properties.
    posts,          \* challenge POSTs accepted
    proofs,         \* HTTP-01 validations that succeeded
    claims          \* finalize claims won

rows   == <<owner, orderStatus, orderCert, orderError, authzStatus, authzError, certs>>
ghosts == <<posts, proofs, claims>>
vars   == <<owner, orderStatus, orderCert, orderError, authzStatus, authzError,
            certs, task, posts, proofs, claims>>

-------------------------------------------------------------------------------
Statuses == {"absent", "pending", "processing", "ready", "valid", "invalid"}

(* Where a coroutine stands: in a route, in run_challenge, in              *)
(* process_finalize.                                                       *)
RoutePcs    == {"ack_commit", "fin_claim"}
RunPcs      == {"rc_start", "rc_fetch", "rc_authz", "rc_order", "rc_check", "rc_commit"}
FinalizePcs == {"pf_start", "pf_sign", "pf_load", "pf_store", "pf_commit"}
DbPcs       == (RoutePcs \union RunPcs \union FinalizePcs) \ {"rc_fetch", "pf_sign"}

(* ok is "validated" in run_challenge and "order_cert returned" in         *)
(* process_finalize; claim numbers the finalize claim a task works for.    *)
Task == [ pc        : {"idle"} \union RoutePcs \union RunPcs \union FinalizePcs,
          order     : OrderIds \union {NoOrder},
          seenAuthz : Statuses,
          seenOrder : Statuses,
          ok        : BOOLEAN,
          claim     : Nat ]

Idle == [pc |-> "idle", order |-> NoOrder, seenAuthz |-> "absent",
         seenOrder |-> "absent", ok |-> FALSE, claim |-> 0]

(* A coroutine that has just entered pc for order o. *)
At(pc, o) == [Idle EXCEPT !.pc = pc, !.order = o]

Become(p, t) == task' = [task EXCEPT ![p] = t]
Goto(p, pc)  == Become(p, [task[p] EXCEPT !.pc = pc])
Finish(p)    == Become(p, Idle)
Is(p, pc)    == task[p].pc = pc

-------------------------------------------------------------------------------
Init ==
    /\ owner = [o \in OrderIds |-> NoAccount]
    /\ orderStatus = [o \in OrderIds |-> "absent"]
    /\ orderCert = [o \in OrderIds |-> 0]
    /\ orderError = [o \in OrderIds |-> FALSE]
    /\ authzStatus = [o \in OrderIds |-> "absent"]
    /\ authzError = [o \in OrderIds |-> FALSE]
    /\ certs = [o \in OrderIds |-> {}]
    /\ task = [p \in Procs |-> Idle]
    /\ posts = [o \in OrderIds |-> 0]
    /\ proofs = [o \in OrderIds |-> 0]
    /\ claims = [o \in OrderIds |-> 0]

-------------------------------------------------------------------------------
(* new_order: both rows are inserted by one commit.  A request signed with *)
(* a bare jwk reaches this handler too, with account_id "".                *)
NewOrder(o, a) ==
    /\ orderStatus[o] = "absent"
    /\ owner' = [owner EXCEPT ![o] = a]
    /\ orderStatus' = [orderStatus EXCEPT ![o] = "pending"]
    /\ authzStatus' = [authzStatus EXCEPT ![o] = "pending"]
    /\ UNCHANGED <<orderCert, orderError, authzError, certs, task, ghosts>>

(* acknowledge_challenge up to its first write: verify_jws, the ownership  *)
(* check and the status check on the authorization as loaded.  A POST that *)
(* finds the authorization already processing writes nothing and starts a  *)
(* run of its own.                                                         *)
PostChallenge(p, o, a) ==
    /\ Is(p, "idle")
    /\ orderStatus[o] # "absent" /\ owner[o] = a
    /\ authzStatus[o] \in {"pending", "processing"}
    /\ posts[o] < MaxPosts
    /\ posts' = [posts EXCEPT ![o] = @ + 1]
    /\ Become(p, At(IF authzStatus[o] = "pending" THEN "ack_commit" ELSE "rc_start", o))
    /\ UNCHANGED <<rows, proofs, claims>>

(* The rest of acknowledge_challenge.  Loading the order flushes the       *)
(* authorization first, which takes the write lock, so the order is read   *)
(* and written in the same transaction.  The authorization is written      *)
(* unconditionally: it was seen pending a round trip ago.                  *)
AckCommit(p) ==
    /\ Is(p, "ack_commit")
    /\ LET o == task[p].order IN
       /\ authzStatus' = [authzStatus EXCEPT ![o] = "processing"]
       /\ orderStatus' = [orderStatus EXCEPT ![o] = IF @ = "pending" THEN "processing" ELSE @]
    /\ Goto(p, "rc_start")
    /\ UNCHANGED <<owner, orderCert, orderError, authzError, certs, ghosts>>

-------------------------------------------------------------------------------
(* Faulty variant of RcStart: the missing account goes unnoticed.          *)
RcStartNoAccountCheck(p) ==
    /\ Is(p, "rc_start")
    /\ Goto(p, "rc_fetch")
    /\ UNCHANGED <<rows, ghosts>>

(* run_challenge, first session: without an account there is no key to     *)
(* check against, and the run fails before it fetches anything; it writes  *)
(* the failure by the same loads and commit as a failed validation.        *)
RcStart(p) ==
    /\ Is(p, "rc_start")
    /\ Goto(p, IF owner[task[p].order] = NoAccount THEN "rc_authz" ELSE "rc_fetch")
    /\ UNCHANGED <<rows, ghosts>>

(* validate_http01 returned or raised. *)
RcFetch(p, validated) ==
    /\ Is(p, "rc_fetch")
    /\ Become(p, [task[p] EXCEPT !.pc = "rc_authz", !.ok = validated])
    /\ proofs' = [proofs EXCEPT ![task[p].order] = IF validated THEN @ + 1 ELSE @]
    /\ UNCHANGED <<rows, posts, claims>>

(* Second session: the authorization and the order are loaded one after    *)
(* the other.                                                              *)
RcLoadAuthz(p) ==
    /\ Is(p, "rc_authz")
    /\ Become(p, [task[p] EXCEPT !.pc = "rc_order", !.seenAuthz = authzStatus[task[p].order]])
    /\ UNCHANGED <<rows, ghosts>>

(* If the run validated an authorization it had loaded as valid, there is  *)
(* nothing to flush: the query for the statuses of all authorizations runs *)
(* without the write lock, as a step of its own.                           *)
RcLoadOrder(p) ==
    /\ Is(p, "rc_order")
    /\ Become(p, [task[p] EXCEPT
                    !.pc = IF task[p].ok /\ task[p].seenAuthz = "valid" THEN "rc_check"
                                                                      ELSE "rc_commit",
                    !.seenOrder = orderStatus[task[p].order]])
    /\ UNCHANGED <<rows, ghosts>>

RcCheck(p) ==
    /\ Is(p, "rc_check")
    /\ IF authzStatus[task[p].order] = "valid" THEN Goto(p, "rc_commit") ELSE Finish(p)
    /\ UNCHANGED <<rows, ghosts>>

(* Faulty variant of RcCommit: a failure is recorded on the order only.    *)
RcCommitOrderOnly(p) ==
    /\ Is(p, "rc_commit")
    /\ LET t == task[p]
           o == t.order
           newOrder == IF t.ok THEN "ready" ELSE "invalid"
       IN
       /\ authzStatus' = [authzStatus EXCEPT ![o] = IF t.ok THEN "valid" ELSE @]
       /\ orderStatus' = [orderStatus EXCEPT ![o] = IF t.seenOrder # newOrder THEN newOrder ELSE @]
       /\ orderError' = [orderError EXCEPT ![o] = @ \/ ~t.ok]
    /\ Finish(p)
    /\ UNCHANGED <<owner, orderCert, authzError, certs, ghosts>>

(* The final commit of run_challenge.  Success makes the authorization     *)
(* valid (already flushed or found so) and the order ready; failure makes  *)
(* both invalid and records the problem on the authorization.              *)
RcCommit(p) ==
    /\ Is(p, "rc_commit")
    /\ LET t == task[p]
           o == t.order
           newAuthz == IF t.ok THEN "valid" ELSE "invalid"
           newOrder == IF t.ok THEN "ready" ELSE "invalid"
       IN
       /\ authzStatus' = [authzStatus EXCEPT ![o] = IF t.seenAuthz # newAuthz THEN newAuthz ELSE @]
       /\ authzError' = [authzError EXCEPT ![o] = @ \/ ~t.ok]
       /\ orderStatus' = [orderStatus EXCEPT ![o] = IF t.seenOrder # newOrder THEN newOrder ELSE @]
    /\ Finish(p)
    /\ UNCHANGED <<owner, orderCert, orderError, certs, ghosts>>

-------------------------------------------------------------------------------
(* finalize_order up to the claim: ownership and the fast-path status      *)
(* check.                                                                  *)
PostFinalize(p, o, a) ==
    /\ Is(p, "idle")
    /\ orderStatus[o] = "ready" /\ owner[o] = a
    /\ Become(p, At("fin_claim", o))
    /\ UNCHANGED <<rows, ghosts>>

(* Faulty variant of FinClaim: the UPDATE is not conditional on ready.     *)
FinClaimUnconditional(p) ==
    /\ Is(p, "fin_claim")
    /\ LET o == task[p].order
           n == claims[o] + 1
       IN
       /\ orderStatus' = [orderStatus EXCEPT ![o] = "processing"]
       /\ claims' = [claims EXCEPT ![o] = n]
       /\ Become(p, [task[p] EXCEPT !.pc = "pf_start", !.claim = n])
    /\ UNCHANGED <<owner, orderCert, orderError, authzStatus, authzError, certs, posts, proofs>>

(* The conditional UPDATE: it matches only a ready order, and the request  *)
(* that finds none is rejected.                                            *)
FinClaim(p) ==
    /\ Is(p, "fin_claim")
    /\ LET o == task[p].order
           n == claims[o] + 1
       IN
       \/ /\ orderStatus[o] = "ready"
          /\ orderStatus' = [orderStatus EXCEPT ![o] = "processing"]
          /\ claims' = [claims EXCEPT ![o] = n]
          /\ Become(p, [task[p] EXCEPT !.pc = "pf_start", !.claim = n])
       \/ /\ orderStatus[o] # "ready"
          /\ Finish(p)
          /\ UNCHANGED <<orderStatus, claims>>
    /\ UNCHANGED <<owner, orderCert, orderError, authzStatus, authzError, certs, posts, proofs>>

(* process_finalize first reads the order back, only to see that its row   *)
(* exists.                                                                 *)
PfStart(p) ==
    /\ Is(p, "pf_start")
    /\ Goto(p, "pf_sign")
    /\ UNCHANGED <<rows, ghosts>>

(* le.order_cert returned a chain or raised. *)
PfSign(p, issued) ==
    /\ Is(p, "pf_sign")
    /\ Become(p, [task[p] EXCEPT !.pc = "pf_load", !.ok = issued])
    /\ UNCHANGED <<rows, ghosts>>

PfLoad(p) ==
    /\ Is(p, "pf_load")
    /\ Become(p, [task[p] EXCEPT !.pc = IF task[p].ok THEN "pf_store" ELSE "pf_commit",
                                 !.seenOrder = orderStatus[task[p].order]])
    /\ UNCHANGED <<rows, ghosts>>

(* Faulty variant of PfStore: the order is published as valid in the       *)
(* commit before the one that stores its certificate.                      *)
PfStorePublishFirst(p) ==
    /\ Is(p, "pf_store")
    /\ LET t == task[p]
           o == t.order
       IN
       /\ orderStatus' = [orderStatus EXCEPT ![o] = "valid"]
       /\ orderCert' = [orderCert EXCEPT ![o] = t.claim]
    /\ Goto(p, "pf_commit")
    /\ UNCHANGED <<owner, orderError, authzStatus, authzError, certs, ghosts>>

(* store_cert inserts the certificate and commits by itself. *)
PfStore(p) ==
    /\ Is(p, "pf_store")
    /\ certs' = [certs EXCEPT ![task[p].order] = @ \union {task[p].claim}]
    /\ Goto(p, "pf_commit")
    /\ UNCHANGED <<owner, orderStatus, orderCert, orderError, authzStatus, authzError, ghosts>>

(* Faulty variant of PfCommit: the except clause only logs.                *)
PfCommitLogOnly(p) ==
    /\ Is(p, "pf_commit")
    /\ LET t == task[p]
           o == t.order
       IN
       /\ orderStatus' = [orderStatus EXCEPT ![o] = IF t.ok /\ t.seenOrder # "valid" THEN "valid" ELSE @]
       /\ orderCert' = [orderCert EXCEPT ![o] = IF t.ok THEN t.claim ELSE @]
    /\ Finish(p)
    /\ UNCHANGED <<owner, orderError, authzStatus, authzError, certs, ghosts>>

(* The commit that ends process_finalize: certificate and valid, or the    *)
(* problem document and invalid.                                           *)
PfCommit(p) ==
    /\ Is(p, "pf_commit")
    /\ LET t == task[p]
           o == t.order
           new == IF t.ok THEN "valid" ELSE "invalid"
       IN
       /\ orderStatus' = [orderStatus EXCEPT ![o] = IF t.seenOrder # new THEN new ELSE @]
       /\ orderCert' = [orderCert EXCEPT ![o] = IF t.ok THEN t.claim ELSE @]
       /\ orderError' = [orderError EXCEPT ![o] = @ \/ ~t.ok]
    /\ Finish(p)
    /\ UNCHANGED <<owner, authzStatus, authzError, certs, ghosts>>

-------------------------------------------------------------------------------
(* A statement fails.  No caller of the worker catches it: the coroutine   *)
(* ends, its open transaction is rolled back.                              *)
DbError(p) ==
    /\ DbErrors
    /\ task[p].pc \in DbPcs
    /\ Finish(p)
    /\ UNCHANGED <<rows, ghosts>>

(* Faulty variants of Restart: no sweep at all; a sweep that records no    *)
(* problem document; a sweep that invents a status.                        *)
RestartNoSweep ==
    /\ task' = [p \in Procs |-> Idle]
    /\ UNCHANGED <<rows, ghosts>>

RestartSilent ==
    /\ task' = [p \in Procs |-> Idle]
    /\ orderStatus' = [o \in OrderIds |->
                          IF orderStatus[o] = "processing" THEN "invalid" ELSE orderStatus[o]]
    /\ authzStatus' = [o \in OrderIds |->
                          IF authzStatus[o] = "processing" THEN "invalid" ELSE authzStatus[o]]
    /\ UNCHANGED <<owner, orderCert, orderError, authzError, certs, ghosts>>

RestartInterrupted ==
    /\ task' = [p \in Procs |-> Idle]
    /\ orderStatus' = [o \in OrderIds |->
                          IF orderStatus[o] = "processing" THEN "interrupted" ELSE orderStatus[o]]
    /\ UNCHANGED <<owner, orderCert, orderError, authzStatus, authzError, certs, ghosts>>

(* The process stops, at any moment, and comes back: every coroutine is    *)
(* gone, and _reset_processing_orders gives up what was in flight before   *)
(* the first request is served.                                            *)
Restart ==
    /\ task' = [p \in Procs |-> Idle]
    /\ orderError' = [o \in OrderIds |-> orderError[o] \/ orderStatus[o] = "processing"]
    /\ orderStatus' = [o \in OrderIds |->
                          IF orderStatus[o] = "processing" THEN "invalid" ELSE orderStatus[o]]
    /\ authzStatus' = [o \in OrderIds |->
                          IF authzStatus[o] = "processing" THEN "invalid" ELSE authzStatus[o]]
    /\ UNCHANGED <<owner, orderCert, authzError, certs, ghosts>>

-------------------------------------------------------------------------------
(* What the event loop runs once a request has been accepted. *)
TaskStep(p) ==
    \/ AckCommit(p)
    \/ RcStart(p) \/ (\E validated \in BOOLEAN : RcFetch(p, validated))
    \/ RcLoadAuthz(p) \/ RcLoadOrder(p) \/ RcCheck(p) \/ RcCommit(p)
    \/ FinClaim(p)
    \/ PfStart(p) \/ (\E issued \in BOOLEAN : PfSign(p, issued))
    \/ PfLoad(p) \/ PfStore(p) \/ PfCommit(p)

Client ==
    \E o \in OrderIds, a \in Accounts \union {NoAccount} :
        \/ NewOrder(o, a)
        \/ \E p \in Procs : PostChallenge(p, o, a) \/ PostFinalize(p, o, a)

Next ==
    \/ Client
    \/ \E p \in Procs : TaskStep(p) \/ DbError(p)
    \/ Restart

Spec == Init /\ [][Next]_vars

(* The event loop runs every coroutine that can run.  Of the outside world *)
(* it is assumed that each await on it ends: for le_client by its bounded  *)
(* polling, for validate_http01 by its timeouts and a challenge server     *)
(* that does not feed its response for ever (Http01 shows that this is     *)
(* needed).  Nothing is assumed of clients, of failures or of restarts.    *)
FairSpec == Spec /\ \A p \in Procs : WF_vars(TaskStep(p))

-------------------------------------------------------------------------------
(* A coroutine that is not idle has an order. *)
TasksOK ==
    /\ task \in [Procs -> Task]
    /\ \A p \in Procs : ~Is(p, "idle") => task[p].order \in OrderIds

(* Every variable has its type. *)
TypeOK ==
    /\ owner \in [OrderIds -> Accounts \union {NoAccount}]
    /\ orderStatus \in [OrderIds -> Statuses]
    /\ orderCert \in [OrderIds -> Nat]
    /\ orderError \in [OrderIds -> BOOLEAN]
    /\ authzStatus \in [OrderIds -> Statuses]
    /\ authzError \in [OrderIds -> BOOLEAN]
    /\ certs \in [OrderIds -> SUBSET Nat]
    /\ TasksOK
    /\ posts \in [OrderIds -> Nat]
    /\ proofs \in [OrderIds -> Nat]
    /\ claims \in [OrderIds -> Nat]

(* finalize_order asks the upstream CA for a certificate at most once per  *)
(* successful HTTP-01 validation, whatever requests race and wherever the  *)
(* process restarts: the conditional UPDATE spends the "ready" that        *)
(* run_challenge earned.                                                   *)
ClaimsBackedByProofs == \A o \in OrderIds : claims[o] <= proofs[o]

(* What one order can cost the upstream CA: every stored certificate is of *)
(* a claim, every claim spends a proof, and every proof answers a          *)
(* challenge POST of its own, so a client never gets more certificates     *)
(* (nor requests to the CA) out of an order than it sent acknowledgements. *)
CertBudget ==
    \A o \in OrderIds :
        certs[o] \subseteq 1..claims[o] /\ claims[o] <= proofs[o] /\ proofs[o] <= posts[o]

(* A claim is worked for by one task, which stores its certificate once:   *)
(* store_cert never inserts a second row for a claim.                      *)
OneTaskPerClaim ==
    /\ \A p, q \in Procs :
          /\ task[p].pc \in FinalizePcs /\ task[q].pc \in FinalizePcs
          /\ task[p].order = task[q].order /\ task[p].claim = task[q].claim
          => p = q
    /\ \A p \in Procs : Is(p, "pf_store") => task[p].claim \notin certs[task[p].order]

(* new_order accepts a request signed with a bare jwk and stores account   *)
(* id ""; run_challenge finds no such account, so such an order never      *)
(* becomes ready and no certificate is ever issued for it.                 *)
AnonymousNeverIssued ==
    \A o \in OrderIds : owner[o] = NoAccount =>
        /\ orderStatus[o] \notin {"ready", "valid"}
        /\ claims[o] = 0 /\ certs[o] = {}

(* process_finalize commits the certificate row and the order separately;  *)
(* at no point, crashes between the two included, does a valid order name  *)
(* a certificate that get_cert would not find.                             *)
ValidHasCert ==
    \A o \in OrderIds : orderStatus[o] = "valid" => orderCert[o] \in certs[o]

(* A certificate an order has named stays in the table, whatever becomes   *)
(* of the order: its URL never stops working, and an order that has named  *)
(* a certificate never goes back to naming none.                           *)
CertStaysReachable ==
    [][\A o \in OrderIds : orderCert[o] # 0 => orderCert[o] \in certs'[o] /\ orderCert'[o] # 0]_vars

(* A client that polls an invalid order can learn why: the order or its    *)
(* authorization carries a problem document, whichever of run_challenge,   *)
(* process_finalize and the start-up sweep gave the order up.              *)
InvalidExplained ==
    \A o \in OrderIds : orderStatus[o] = "invalid" => orderError[o] \/ authzError[o]

(* While statements do not fail, an order is "processing" only while a     *)
(* background task is at work on it, so the start-up sweep is the only     *)
(* clean-up that is needed.                                                *)
ProcessingHasWorker ==
    \A o \in OrderIds : orderStatus[o] = "processing" =>
        \E p \in Procs : task[p].order = o /\ task[p].pc \in RunPcs \union FinalizePcs

(* The background tasks move every "processing" order on.                  *)
ProcessingSettles ==
    \A o \in OrderIds : (orderStatus[o] = "processing") ~> (orderStatus[o] # "processing")

(* They move every "processing" authorization on as well, also when        *)
(* several runs for it overwrite each other.                               *)
AuthzSettles ==
    \A o \in OrderIds : (authzStatus[o] = "processing") ~> (authzStatus[o] # "processing")

-------------------------------------------------------------------------------
(* The promise to a client that acknowledges an order's challenge once,    *)
(* whatever happens to the other orders: the order only moves forward,     *)
(* through states no retry, crash or failed statement can take back, and   *)
(* is issued at most once.                                                 *)
PhaseOf(o) == IF posts[o] > 1 THEN "forfeited"
              ELSE IF orderStatus[o] # "processing" THEN orderStatus[o]
              ELSE IF claims[o] = 0 THEN "validating" ELSE "issuing"

CertOf(o) == IF posts[o] > 1 THEN 0 ELSE orderCert[o]

Lifecycle == INSTANCE OrderLifecycle
                 WITH phase <- [o \in OrderIds |-> PhaseOf(o)],
                      cert  <- [o \in OrderIds |-> CertOf(o)]

ImplementsLifecycle == Lifecycle!LifecycleSpec

(* What the client of such an order sees at the end is final: a valid or   *)
(* invalid order, and the certificate it names, never change again.        *)
SettledIsFinal ==
    [][\A o \in OrderIds : posts'[o] <= 1 /\ orderStatus[o] \in {"valid", "invalid"} =>
          orderStatus'[o] = orderStatus[o] /\ orderCert'[o] = orderCert[o]]_vars

-------------------------------------------------------------------------------
(* A statement of the repository that the code does not keep.              *)

(* finalize_order's comment: "exactly one request" wins the claim, so an   *)
(* order is sent to the upstream CA once.                                  *)
OneClaimPerOrder == \A o \in OrderIds : claims[o] <= 1
===============================================================================
