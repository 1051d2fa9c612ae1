------------------------------ MODULE OrderQuota ------------------------------
(***************************************************************************)
(* Admission of new orders: new_order and its per-account rate limit       *)
(* (routes/order.py).  The limit is kept by counting rows: the window is   *)
(* computed, the rows in it are counted, and the order is inserted, with   *)
(* other requests running in between.                                      *)
(***************************************************************************)
EXTENDS Naturals, FiniteSets

CONSTANTS OrderIds,     \* orders that exist or may be created
          Accounts,     \* account ids, the "" of a bare jwk included
          NoAccount,    \* the owner of an order that does not exist
          Procs,        \* new-order requests in progress at once
          RateLimit,    \* ORDER_RATE_LIMIT; 0 for none
          RateWindow,   \* ORDER_RATE_WINDOW
          MaxTime       \* bound on the clock

ASSUME QuotaAssumption ==
    /\ NoAccount \notin Accounts
    /\ IsFiniteSet(OrderIds) /\ IsFiniteSet(Procs) /\ Procs # {}
    /\ RateLimit \in Nat /\ RateWindow \in Nat /\ MaxTime \in Nat

VARIABLES
    owner,      \* orders.account_id
    created,    \* orders.created_at
    now,        \* the clock
    req         \* the new-order requests in progress

quotaVars == <<owner, created, now, req>>

Request == [pc : {"idle", "count", "insert"}, account : Accounts \union {NoAccount}, asOf : Nat]
NoRequest == [pc |-> "idle", account |-> NoAccount, asOf |-> 0]

(* Orders of account a that a window ending at time t includes. *)
InWindow(a, t) == {o \in OrderIds : owner[o] = a /\ created[o] + RateWindow >= t}

(* Orders of an earlier life of the database lie outside the window. *)
QuotaInit ==
    /\ owner \in [OrderIds -> Accounts \union {NoAccount}]
    /\ created = [o \in OrderIds |-> 0]
    /\ now = RateWindow + 1
    /\ req = [p \in Procs |-> NoRequest]

-------------------------------------------------------------------------------
(* new_order up to its first await on the orders table: the identifiers    *)
(* and the domain policy have been checked (a request they refuse leaves   *)
(* no trace), and the start of the window has been computed.               *)
NewOrder(p, a) ==
    /\ req[p].pc = "idle"
    /\ req' = [req EXCEPT ![p] = [pc |-> "count", account |-> a, asOf |-> now]]
    /\ UNCHANGED <<owner, created, now>>

(* Faulty variant of CheckOrderRateLimit: the account may reach the limit  *)
(* and one more.                                                           *)
CheckOrderRateLimitLate(p) ==
    /\ req[p].pc = "count"
    /\ LET t == req[p] IN
       req' = [req EXCEPT ![p] =
                 IF RateLimit = 0 \/ Cardinality(InWindow(t.account, t.asOf)) <= RateLimit
                 THEN [t EXCEPT !.pc = "insert", !.asOf = now] ELSE NoRequest]
    /\ UNCHANGED <<owner, created, now>>

(* _check_order_rate_limit: the count, and the answer 429 or an order that *)
(* will be dated after it.                                                 *)
CheckOrderRateLimit(p) ==
    /\ req[p].pc = "count"
    /\ LET t == req[p] IN
       req' = [req EXCEPT ![p] =
                 IF RateLimit = 0 \/ Cardinality(InWindow(t.account, t.asOf)) < RateLimit
                 THEN [t EXCEPT !.pc = "insert", !.asOf = now] ELSE NoRequest]
    /\ UNCHANGED <<owner, created, now>>

(* The commit that stores the order and its authorization; created_at is   *)
(* some time since the count, as the commit may have to wait.              *)
InsertOrder(p, o) ==
    /\ req[p].pc = "insert"
    /\ owner[o] = NoAccount
    /\ owner' = [owner EXCEPT ![o] = req[p].account]
    /\ \E t \in req[p].asOf..now : created' = [created EXCEPT ![o] = t]
    /\ req' = [req EXCEPT ![p] = NoRequest]
    /\ UNCHANGED now

(* A statement fails or the process is gone. *)
AbandonOrder(p) ==
    /\ req[p].pc # "idle"
    /\ req' = [req EXCEPT ![p] = NoRequest]
    /\ UNCHANGED <<owner, created, now>>

Tick ==
    /\ now < MaxTime
    /\ now' = now + 1
    /\ UNCHANGED <<owner, created, req>>

QuotaNext ==
    \/ \E p \in Procs :
          \/ \E a \in Accounts : NewOrder(p, a)
          \/ CheckOrderRateLimit(p)
          \/ \E o \in OrderIds : InsertOrder(p, o)
          \/ AbandonOrder(p)
    \/ Tick

-------------------------------------------------------------------------------
(* At no moment does an account have more orders in the window than the    *)
(* limit and one less than the number of requests that run at once:        *)
(* requests can slip past the count together, but only while the account   *)
(* is below the limit, and a window computed too early only counts more.   *)
QuotaOvershoot ==
    RateLimit > 0 => \A a \in Accounts :
        Cardinality(InWindow(a, now)) < RateLimit + Cardinality(Procs)

(* ORDER_RATE_LIMIT taken at its word: never more orders in the window.    *)
QuotaExact == RateLimit > 0 => \A a \in Accounts : Cardinality(InWindow(a, now)) <= RateLimit
===============================================================================
