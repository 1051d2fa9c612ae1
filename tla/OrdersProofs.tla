----------------------------- MODULE OrdersProofs -----------------------------
(***************************************************************************)
(* Proofs about Orders, for every number of orders, accounts, coroutines   *)
(* and challenge POSTs, with and without failing statements.               *)
(***************************************************************************)
EXTENDS Orders, FiniteSetTheorems, TLAPS

(* Idle is a task, and a coroutine that enters pc for an order is one. *)
LEMMA IdleType == Idle \in Task /\ Idle.pc = "idle"
BY DEF Idle, Task, Statuses

LEMMA AtType ==
    ASSUME NEW o \in OrderIds, NEW pc \in RoutePcs \union RunPcs
    PROVE  At(pc, o) \in Task /\ At(pc, o).order = o
BY DEF At, Idle, Task, Statuses

(* A step of one coroutine keeps the coroutines typed. *)
LEMMA BecomeType ==
    ASSUME NEW p \in Procs, NEW t \in Task, t.pc # "idle" => t.order \in OrderIds,
           TasksOK, Become(p, t)
    PROVE  TasksOK'
BY DEF TasksOK, Become, Is

(* Every variable keeps its type: each action of the routes, the worker    *)
(* and the start-up sweep writes only values of the column it writes to.   *)
LEMMA TypeStep == TypeOK /\ [Next]_vars => TypeOK'
<1> SUFFICES ASSUME TypeOK, [Next]_vars PROVE TypeOK'
  OBVIOUS
<1> USE DEF TypeOK
<1>1. ASSUME NEW o \in OrderIds, NEW a \in Accounts \union {NoAccount}, NewOrder(o, a)
      PROVE  TypeOK'
  BY <1>1 DEF NewOrder, Statuses, ghosts, TasksOK, Is
<1>2. ASSUME NEW p \in Procs, NEW o \in OrderIds, NEW a, PostChallenge(p, o, a)
      PROVE  TypeOK'
  <2>1. TasksOK'
    BY <1>2, AtType, BecomeType DEF PostChallenge, RoutePcs, RunPcs
  <2>. QED BY <1>2, <2>1 DEF PostChallenge, rows
<1>3. ASSUME NEW p \in Procs, NEW o \in OrderIds, NEW a, PostFinalize(p, o, a)
      PROVE  TypeOK'
  <2>1. TasksOK'
    BY <1>3, AtType, BecomeType DEF PostFinalize, RoutePcs, RunPcs
  <2>. QED BY <1>3, <2>1 DEF PostFinalize, rows, ghosts
<1>4. ASSUME NEW p \in Procs, TaskStep(p)
      PROVE  TypeOK'
  <2> DEFINE t == task[p]
  <2>0. t \in Task /\ (t.pc # "idle" => t.order \in OrderIds)
    BY DEF TasksOK, Is
  <2>1. CASE AckCommit(p)
    <3> DEFINE u == [t EXCEPT !.pc = "rc_start"]
    <3>0. t.order \in OrderIds
      BY <2>0, <2>1 DEF AckCommit, Is
    <3>1. u \in Task /\ u.order = t.order
      BY <2>0, <3>0 DEF Task, RunPcs
    <3>2. TasksOK'
      BY <2>1, <3>0, <3>1, BecomeType DEF AckCommit, Goto
    <3>. QED BY <2>0, <2>1, <3>0, <3>2 DEF AckCommit, Statuses, ghosts
  <2>2. CASE RcStart(p)
    <3> DEFINE u == [t EXCEPT !.pc = IF owner[t.order] = NoAccount THEN "rc_authz" ELSE "rc_fetch"]
    <3>0. t.order \in OrderIds
      BY <2>0, <2>2 DEF RcStart, Is
    <3>1. u \in Task /\ u.order = t.order
      BY <2>0, <3>0 DEF Task, RunPcs
    <3>2. TasksOK'
      BY <2>2, <3>0, <3>1, BecomeType DEF RcStart, Goto
    <3>. QED BY <2>0, <2>2, <3>0, <3>2 DEF RcStart, rows, ghosts
  <2>3. ASSUME NEW validated \in BOOLEAN, RcFetch(p, validated) PROVE TypeOK'
    <3> DEFINE u == [t EXCEPT !.pc = "rc_authz", !.ok = validated]
    <3>0. t.order \in OrderIds
      BY <2>0, <2>3 DEF RcFetch, Is
    <3>1. u \in Task /\ u.order = t.order
      BY <2>0, <3>0 DEF Task, RunPcs
    <3>2. TasksOK'
      BY <2>3, <3>0, <3>1, BecomeType DEF RcFetch
    <3>. QED BY <2>0, <2>3, <3>0, <3>2 DEF RcFetch, rows
  <2>4. CASE RcLoadAuthz(p)
    <3> DEFINE u == [t EXCEPT !.pc = "rc_order", !.seenAuthz = authzStatus[t.order]]
    <3>0. t.order \in OrderIds
      BY <2>0, <2>4 DEF RcLoadAuthz, Is
    <3>1. u \in Task /\ u.order = t.order
      BY <2>0, <3>0 DEF Task, RunPcs
    <3>2. TasksOK'
      BY <2>4, <3>0, <3>1, BecomeType DEF RcLoadAuthz
    <3>. QED BY <2>0, <2>4, <3>0, <3>2 DEF RcLoadAuthz, rows, ghosts
  <2>5. CASE RcLoadOrder(p)
    <3> DEFINE u == [t EXCEPT !.pc = IF t.ok /\ t.seenAuthz = "valid" THEN "rc_check" ELSE "rc_commit",
                            !.seenOrder = orderStatus[t.order]]
    <3>0. t.order \in OrderIds
      BY <2>0, <2>5 DEF RcLoadOrder, Is
    <3>1. u \in Task /\ u.order = t.order
      BY <2>0, <3>0 DEF Task, RunPcs
    <3>2. TasksOK'
      BY <2>5, <3>0, <3>1, BecomeType DEF RcLoadOrder
    <3>. QED BY <2>0, <2>5, <3>0, <3>2 DEF RcLoadOrder, rows, ghosts
  <2>6. CASE RcCheck(p)
    <3>1. CASE Finish(p)
      BY <2>6, <3>1, IdleType, BecomeType DEF RcCheck, Finish, rows, ghosts
    <3>2. CASE Goto(p, "rc_commit")
      <4>1. t.order \in OrderIds
        BY <2>0, <2>6 DEF RcCheck, Is
      <4>2. [t EXCEPT !.pc = "rc_commit"] \in Task /\ [t EXCEPT !.pc = "rc_commit"].order = t.order
        BY <2>0 DEF Task, RunPcs
      <4>3. TasksOK'
        BY <3>2, <4>1, <4>2, BecomeType DEF Goto
      <4>. QED BY <2>6, <4>3 DEF RcCheck, rows, ghosts
    <3>. QED BY <2>6, <3>1, <3>2 DEF RcCheck
  <2>7. CASE RcCommit(p)
    <3>1. TasksOK'
      BY <2>7, IdleType, BecomeType DEF RcCommit, Finish
    <3>. QED BY <2>0, <2>7, <3>1 DEF RcCommit, Statuses, ghosts, Task
  <2>8. CASE FinClaim(p)
    <3>0. t.order \in OrderIds /\ claims[t.order] \in Nat
      BY <2>0, <2>8 DEF FinClaim, Is
    <3>1. CASE orderStatus[t.order] = "ready"
      <4> DEFINE n == claims[t.order] + 1
                 u == [t EXCEPT !.pc = "pf_start", !.claim = n]
      <4>0. n \in Nat
        BY <3>0
      <4>1. u \in Task /\ u.order = t.order
        <5> HIDE DEF n
        <5>. QED BY <2>0, <4>0 DEF Task, FinalizePcs
      <4>2. TasksOK'
        BY <2>8, <3>0, <3>1, <4>1, BecomeType DEF FinClaim
      <4>. QED BY <2>8, <3>0, <3>1, <4>2 DEF FinClaim, Statuses
    <3>2. CASE orderStatus[t.order] # "ready"
      <4>1. TasksOK'
        BY <2>8, <3>2, IdleType, BecomeType DEF FinClaim, Finish
      <4>. QED BY <2>8, <3>2, <4>1 DEF FinClaim
    <3>. QED BY <3>1, <3>2
  <2>9. CASE PfStart(p)
    <3> DEFINE u == [t EXCEPT !.pc = "pf_sign"]
    <3>0. t.order \in OrderIds
      BY <2>0, <2>9 DEF PfStart, Is
    <3>1. u \in Task /\ u.order = t.order
      BY <2>0, <3>0 DEF Task, FinalizePcs
    <3>2. TasksOK'
      BY <2>9, <3>0, <3>1, BecomeType DEF PfStart, Goto
    <3>. QED BY <2>0, <2>9, <3>0, <3>2 DEF PfStart, rows, ghosts
  <2>10. ASSUME NEW issued \in BOOLEAN, PfSign(p, issued) PROVE TypeOK'
    <3> DEFINE u == [t EXCEPT !.pc = "pf_load", !.ok = issued]
    <3>0. t.order \in OrderIds
      BY <2>0, <2>10 DEF PfSign, Is
    <3>1. u \in Task /\ u.order = t.order
      BY <2>0, <3>0 DEF Task, FinalizePcs
    <3>2. TasksOK'
      BY <2>10, <3>0, <3>1, BecomeType DEF PfSign
    <3>. QED BY <2>0, <2>10, <3>0, <3>2 DEF PfSign, rows, ghosts
  <2>11. CASE PfLoad(p)
    <3> DEFINE u == [t EXCEPT !.pc = IF t.ok THEN "pf_store" ELSE "pf_commit", !.seenOrder = orderStatus[t.order]]
    <3>0. t.order \in OrderIds
      BY <2>0, <2>11 DEF PfLoad, Is
    <3>1. u \in Task /\ u.order = t.order
      BY <2>0, <3>0 DEF Task, FinalizePcs
    <3>2. TasksOK'
      BY <2>11, <3>0, <3>1, BecomeType DEF PfLoad
    <3>. QED BY <2>0, <2>11, <3>0, <3>2 DEF PfLoad, rows, ghosts
  <2>12. CASE PfStore(p)
    <3> DEFINE u == [t EXCEPT !.pc = "pf_commit"]
    <3>0. t.order \in OrderIds
      BY <2>0, <2>12 DEF PfStore, Is
    <3>1. u \in Task /\ u.order = t.order
      BY <2>0, <3>0 DEF Task, FinalizePcs
    <3>2. TasksOK'
      BY <2>12, <3>0, <3>1, BecomeType DEF PfStore, Goto
    <3>. QED BY <2>0, <2>12, <3>0, <3>2 DEF PfStore, ghosts, Task
  <2>13. CASE PfCommit(p)
    <3>1. TasksOK'
      BY <2>13, IdleType, BecomeType DEF PfCommit, Finish
    <3>. QED BY <2>0, <2>13, <3>1 DEF PfCommit, Statuses, ghosts, Task
  <2>. QED BY <1>4, <2>1, <2>2, <2>3, <2>4, <2>5, <2>6, <2>7, <2>8, <2>9, <2>10, <2>11, <2>12, <2>13 DEF TaskStep
<1>5. ASSUME NEW p \in Procs, DbError(p) PROVE TypeOK'
  BY <1>5, IdleType, BecomeType DEF DbError, Finish, rows, ghosts
<1>6. CASE Restart
  BY <1>6, IdleType DEF Restart, Statuses, ghosts, TasksOK, Is
<1>7. CASE UNCHANGED vars
  BY <1>7 DEF vars, TasksOK, Is
<1>. QED BY <1>1, <1>2, <1>3, <1>4, <1>5, <1>6, <1>7 DEF Next, Client

(* The type invariant of the order life cycle holds in every behaviour.    *)
THEOREM TypeCorrect == Spec => []TypeOK
<1>1. Init => TypeOK
  BY IdleType DEF Init, TypeOK, Statuses, TasksOK, Is
<1>. QED BY <1>1, TypeStep, PTL DEF Spec

(* What winning the claim does to the coroutine that wins it. *)
LEMMA ClaimEffect ==
    ASSUME NEW p \in Procs, TypeOK, FinClaim(p), orderStatus[task[p].order] = "ready"
    PROVE  /\ task'[p].pc = "pf_start" /\ task'[p].order = task[p].order
           /\ task'[p].ok = task[p].ok
           /\ \A q \in Procs \ {p} : task'[q] = task[q]
<1> DEFINE n == claims[task[p].order] + 1
<1>1. task' = [task EXCEPT ![p] = [task[p] EXCEPT !.pc = "pf_start", !.claim = n]]
  BY DEF FinClaim, Become
<1> HIDE DEF n
<1>. QED BY <1>1 DEF TypeOK, TasksOK, Task
-------------------------------------------------------------------------------
(* Why a valid order always has its certificate.  The task that is about   *)
(* to publish a certificate has already stored it, and certificates are    *)
(* never deleted.                                                          *)
PublishedIsStored ==
    \A q \in Procs : Is(q, "pf_commit") /\ task[q].ok => task[q].claim \in certs[task[q].order]

CertInv == ValidHasCert /\ PublishedIsStored

LEMMA CertStep == TypeOK /\ CertInv /\ [Next]_vars => CertInv'
<1> SUFFICES ASSUME TypeOK, CertInv, [Next]_vars PROVE CertInv'
  OBVIOUS
<1> USE DEF CertInv, ValidHasCert, PublishedIsStored
<1>1. ASSUME NEW o \in OrderIds, NEW a \in Accounts \union {NoAccount}, NewOrder(o, a)
      PROVE  CertInv'
  BY <1>1 DEF NewOrder, ghosts, TypeOK, TasksOK, Task, Is
<1>2. ASSUME NEW p \in Procs, NEW o \in OrderIds, NEW a, PostChallenge(p, o, a)
      PROVE  CertInv'
  BY <1>2 DEF PostChallenge, Become, At, Idle, rows, TypeOK, TasksOK, Task, Is
<1>3. ASSUME NEW p \in Procs, NEW o \in OrderIds, NEW a, PostFinalize(p, o, a)
      PROVE  CertInv'
  BY <1>3 DEF PostFinalize, Become, At, Idle, rows, ghosts, TypeOK, TasksOK, Task, Is
<1>4. ASSUME NEW p \in Procs, TaskStep(p)
      PROVE  CertInv'
  <2>1. CASE AckCommit(p)
    BY <2>1 DEF AckCommit, Goto, Become, ghosts, TypeOK, TasksOK, Task, Is
  <2>2. CASE RcStart(p)
    BY <2>2 DEF RcStart, Goto, Become, rows, ghosts, TypeOK, TasksOK, Task, Is
  <2>3. ASSUME NEW validated \in BOOLEAN, RcFetch(p, validated) PROVE CertInv'
    BY <2>3 DEF RcFetch, Become, rows, TypeOK, TasksOK, Task, Is
  <2>4. CASE RcLoadAuthz(p)
    BY <2>4 DEF RcLoadAuthz, Become, rows, ghosts, TypeOK, TasksOK, Task, Is
  <2>5. CASE RcLoadOrder(p)
    BY <2>5 DEF RcLoadOrder, Become, rows, ghosts, TypeOK, TasksOK, Task, Is
  <2>6. CASE RcCheck(p)
    <3>1. CASE authzStatus[task[p].order] = "valid"
      BY <2>6, <3>1 DEF RcCheck, Goto, Become, rows, ghosts, TypeOK, TasksOK, Task, Is
    <3>2. CASE authzStatus[task[p].order] # "valid"
      BY <2>6, <3>2 DEF RcCheck, Finish, Become, Idle, rows, ghosts, TypeOK, TasksOK, Task, Is
    <3>. QED BY <3>1, <3>2
  <2>7. CASE RcCommit(p)
    BY <2>7 DEF RcCommit, Finish, Become, Idle, ghosts, TypeOK, TasksOK, Task, Is
  <2>8. CASE FinClaim(p)
    <3>1. CASE orderStatus[task[p].order] = "ready"
      BY <2>8, <3>1, ClaimEffect DEF FinClaim, TypeOK, TasksOK, Task, Is
    <3>2. CASE orderStatus[task[p].order] # "ready"
      BY <2>8, <3>2 DEF FinClaim, Finish, Become, Idle, TypeOK, TasksOK, Task, Is
    <3>. QED BY <3>1, <3>2
  <2>9. CASE PfStart(p)
    BY <2>9 DEF PfStart, Goto, Become, rows, ghosts, TypeOK, TasksOK, Task, Is
  <2>10. ASSUME NEW issued \in BOOLEAN, PfSign(p, issued) PROVE CertInv'
    BY <2>10 DEF PfSign, Become, rows, ghosts, TypeOK, TasksOK, Task, Is
  <2>11. CASE PfLoad(p)
    BY <2>11 DEF PfLoad, Become, rows, ghosts, TypeOK, TasksOK, Task, Is
  <2>12. CASE PfStore(p)
    BY <2>12 DEF PfStore, Goto, Become, ghosts, TypeOK, TasksOK, Task, Is
  <2>13. CASE PfCommit(p)
    BY <2>13 DEF PfCommit, Finish, Become, Idle, ghosts, TypeOK, TasksOK, Task, Is
  <2>. QED BY <1>4, <2>1, <2>2, <2>3, <2>4, <2>5, <2>6, <2>7, <2>8, <2>9, <2>10, <2>11, <2>12, <2>13 DEF TaskStep
<1>5. ASSUME NEW p \in Procs, DbError(p) PROVE CertInv'
  BY <1>5 DEF DbError, Finish, Become, Idle, rows, ghosts, TypeOK, TasksOK, Task, Is
<1>6. CASE Restart
  BY <1>6 DEF Restart, Idle, ghosts, TypeOK, TasksOK, Task, Is
<1>7. CASE UNCHANGED vars
  BY <1>7 DEF vars, TypeOK, TasksOK, Task, Is
<1>. QED BY <1>1, <1>2, <1>3, <1>4, <1>5, <1>6, <1>7 DEF Next, Client

(* No valid order names a certificate that is not in the table: the two    *)
(* commits of process_finalize are in the right order.                     *)
THEOREM ValidOrdersHaveCerts == Spec => []ValidHasCert
<1>1. Init => CertInv
  BY DEF Init, CertInv, ValidHasCert, PublishedIsStored, Is, Idle
<1>2. CertInv => ValidHasCert
  BY DEF CertInv
<1>. QED BY <1>1, <1>2, TypeCorrect, CertStep, PTL DEF Spec

-------------------------------------------------------------------------------
(* Why every invalid order is explained: whoever makes an order invalid    *)
(* sets one of the two error columns in the same commit, and neither is    *)
(* ever cleared.                                                           *)
LEMMA ExplainedStep == TypeOK /\ InvalidExplained /\ [Next]_vars => InvalidExplained'
<1> SUFFICES ASSUME TypeOK, InvalidExplained, [Next]_vars PROVE InvalidExplained'
  OBVIOUS
<1> USE DEF InvalidExplained
<1>1. ASSUME NEW o \in OrderIds, NEW a \in Accounts \union {NoAccount}, NewOrder(o, a)
      PROVE  InvalidExplained'
  BY <1>1 DEF NewOrder, ghosts, TypeOK, TasksOK, Task, Is
<1>2. ASSUME NEW p \in Procs, NEW o \in OrderIds, NEW a, PostChallenge(p, o, a)
      PROVE  InvalidExplained'
  BY <1>2 DEF PostChallenge, rows, TypeOK, TasksOK, Task, Is
<1>3. ASSUME NEW p \in Procs, NEW o \in OrderIds, NEW a, PostFinalize(p, o, a)
      PROVE  InvalidExplained'
  BY <1>3 DEF PostFinalize, rows, ghosts, TypeOK, TasksOK, Task, Is
<1>4. ASSUME NEW p \in Procs, TaskStep(p)
      PROVE  InvalidExplained'
  <2>1. CASE AckCommit(p)
    BY <2>1 DEF AckCommit, ghosts, TypeOK, TasksOK, Task, Is
  <2>2. CASE RcStart(p)
    BY <2>2 DEF RcStart, rows, ghosts, TypeOK, TasksOK, Task, Is
  <2>3. ASSUME NEW validated \in BOOLEAN, RcFetch(p, validated) PROVE InvalidExplained'
    BY <2>3 DEF RcFetch, rows, TypeOK, TasksOK, Task, Is
  <2>4. CASE RcLoadAuthz(p)
    BY <2>4 DEF RcLoadAuthz, rows, ghosts, TypeOK, TasksOK, Task, Is
  <2>5. CASE RcLoadOrder(p)
    BY <2>5 DEF RcLoadOrder, rows, ghosts, TypeOK, TasksOK, Task, Is
  <2>6. CASE RcCheck(p)
    BY <2>6 DEF RcCheck, rows, ghosts, TypeOK, TasksOK, Task, Is
  <2>7. CASE RcCommit(p)
    BY <2>7 DEF RcCommit, ghosts, TypeOK, TasksOK, Task, Is
  <2>8. CASE FinClaim(p)
    BY <2>8 DEF FinClaim, TypeOK, TasksOK, Task, Is
  <2>9. CASE PfStart(p)
    BY <2>9 DEF PfStart, rows, ghosts, TypeOK, TasksOK, Task, Is
  <2>10. ASSUME NEW issued \in BOOLEAN, PfSign(p, issued) PROVE InvalidExplained'
    BY <2>10 DEF PfSign, rows, ghosts, TypeOK, TasksOK, Task, Is
  <2>11. CASE PfLoad(p)
    BY <2>11 DEF PfLoad, rows, ghosts, TypeOK, TasksOK, Task, Is
  <2>12. CASE PfStore(p)
    BY <2>12 DEF PfStore, ghosts, TypeOK, TasksOK, Task, Is
  <2>13. CASE PfCommit(p)
    BY <2>13 DEF PfCommit, ghosts, TypeOK, TasksOK, Task, Is
  <2>. QED BY <1>4, <2>1, <2>2, <2>3, <2>4, <2>5, <2>6, <2>7, <2>8, <2>9, <2>10, <2>11, <2>12, <2>13 DEF TaskStep
<1>5. ASSUME NEW p \in Procs, DbError(p) PROVE InvalidExplained'
  BY <1>5 DEF DbError, rows, ghosts, TypeOK, TasksOK, Task, Is
<1>6. CASE Restart
  BY <1>6 DEF Restart, ghosts, TypeOK, TasksOK, Task, Is
<1>7. CASE UNCHANGED vars
  BY <1>7 DEF vars, TypeOK, TasksOK, Task, Is
<1>. QED BY <1>1, <1>2, <1>3, <1>4, <1>5, <1>6, <1>7 DEF Next, Client

(* An invalid order always carries a problem document, its own or its      *)
(* authorization's, whichever path gave it up.                             *)
THEOREM InvalidOrdersExplained == Spec => []InvalidExplained
<1>1. Init => InvalidExplained
  BY DEF Init, InvalidExplained
<1>. QED BY <1>1, TypeCorrect, ExplainedStep, PTL DEF Spec

-------------------------------------------------------------------------------
(* Why an anonymous order is never issued.  Its runs can only be failing   *)
(* runs of run_challenge that never fetched anything, so it never becomes  *)
(* ready and nothing can be claimed.                                       *)
AnonymousRunsFail ==
    \A q \in Procs : task[q].pc # "idle" /\ owner[task[q].order] = NoAccount =>
        /\ task[q].pc \in {"ack_commit", "rc_start", "rc_authz", "rc_order", "rc_commit"}
        /\ ~task[q].ok

AbsentIsAnonymous == \A o \in OrderIds : orderStatus[o] = "absent" => owner[o] = NoAccount

AnonymousInv == AnonymousNeverIssued /\ AnonymousRunsFail /\ AbsentIsAnonymous

LEMMA AnonymousStep == TypeOK /\ AnonymousInv /\ [Next]_vars => AnonymousInv'
<1> SUFFICES ASSUME TypeOK, AnonymousInv, [Next]_vars PROVE AnonymousInv'
  OBVIOUS
<1> USE DEF AnonymousInv, AnonymousNeverIssued, AnonymousRunsFail, AbsentIsAnonymous
<1>1. ASSUME NEW o \in OrderIds, NEW a \in Accounts \union {NoAccount}, NewOrder(o, a)
      PROVE  AnonymousInv'
  BY <1>1 DEF NewOrder, ghosts, TypeOK, TasksOK, Task, Is
<1>2. ASSUME NEW p \in Procs, NEW o \in OrderIds, NEW a, PostChallenge(p, o, a)
      PROVE  AnonymousInv'
  BY <1>2 DEF PostChallenge, Become, At, Idle, rows, TypeOK, TasksOK, Task, Is
<1>3. ASSUME NEW p \in Procs, NEW o \in OrderIds, NEW a, PostFinalize(p, o, a)
      PROVE  AnonymousInv'
  BY <1>3 DEF PostFinalize, Become, At, Idle, rows, ghosts, TypeOK, TasksOK, Task, Is
<1>4. ASSUME NEW p \in Procs, TaskStep(p)
      PROVE  AnonymousInv'
  <2>1. CASE AckCommit(p)
    BY <2>1 DEF AckCommit, Goto, Become, ghosts, TypeOK, TasksOK, Task, Is
  <2>2. CASE RcStart(p)
    BY <2>2 DEF RcStart, Goto, Become, rows, ghosts, TypeOK, TasksOK, Task, Is
  <2>3. ASSUME NEW validated \in BOOLEAN, RcFetch(p, validated) PROVE AnonymousInv'
    BY <2>3 DEF RcFetch, Become, rows, TypeOK, TasksOK, Task, Is
  <2>4. CASE RcLoadAuthz(p)
    BY <2>4 DEF RcLoadAuthz, Become, rows, ghosts, TypeOK, TasksOK, Task, Is
  <2>5. CASE RcLoadOrder(p)
    BY <2>5 DEF RcLoadOrder, Become, rows, ghosts, TypeOK, TasksOK, Task, Is
  <2>6. CASE RcCheck(p)
    <3>1. CASE authzStatus[task[p].order] = "valid"
      BY <2>6, <3>1 DEF RcCheck, Goto, Become, rows, ghosts, TypeOK, TasksOK, Task, Is
    <3>2. CASE authzStatus[task[p].order] # "valid"
      BY <2>6, <3>2 DEF RcCheck, Finish, Become, Idle, rows, ghosts, TypeOK, TasksOK, Task, Is
    <3>. QED BY <3>1, <3>2
  <2>7. CASE RcCommit(p)
    BY <2>7 DEF RcCommit, Finish, Become, Idle, ghosts, TypeOK, TasksOK, Task, Is
  <2>8. CASE FinClaim(p)
    <3>0. task[p].order \in OrderIds
      BY <2>8 DEF FinClaim, TypeOK, TasksOK, Is
    <3>1. CASE orderStatus[task[p].order] = "ready"
      <4>1. owner[task[p].order] # NoAccount
        BY <3>0, <3>1
      <4>2. AnonymousNeverIssued' /\ AbsentIsAnonymous'
        BY <2>8, <3>0, <3>1, <4>1 DEF FinClaim, TypeOK
      <4>3. AnonymousRunsFail'
        <5>1. owner' = owner
          BY <2>8 DEF FinClaim
        <5>2. task'[p].order = task[p].order /\ \A q \in Procs \ {p} : task'[q] = task[q]
          BY <2>8, <3>1, ClaimEffect
        <5>. QED BY <4>1, <5>1, <5>2
      <4>. QED BY <4>2, <4>3
    <3>2. CASE orderStatus[task[p].order] # "ready"
      BY <2>8, <3>2 DEF FinClaim, Finish, Become, Idle, TypeOK, TasksOK, Task, Is
    <3>. QED BY <3>1, <3>2
  <2>9. CASE PfStart(p)
    BY <2>9 DEF PfStart, Goto, Become, rows, ghosts, TypeOK, TasksOK, Task, Is
  <2>10. ASSUME NEW issued \in BOOLEAN, PfSign(p, issued) PROVE AnonymousInv'
    BY <2>10 DEF PfSign, Become, rows, ghosts, TypeOK, TasksOK, Task, Is
  <2>11. CASE PfLoad(p)
    BY <2>11 DEF PfLoad, Become, rows, ghosts, TypeOK, TasksOK, Task, Is
  <2>12. CASE PfStore(p)
    BY <2>12 DEF PfStore, Goto, Become, ghosts, TypeOK, TasksOK, Task, Is
  <2>13. CASE PfCommit(p)
    BY <2>13 DEF PfCommit, Finish, Become, Idle, ghosts, TypeOK, TasksOK, Task, Is
  <2>. QED BY <1>4, <2>1, <2>2, <2>3, <2>4, <2>5, <2>6, <2>7, <2>8, <2>9, <2>10, <2>11, <2>12, <2>13 DEF TaskStep
<1>5. ASSUME NEW p \in Procs, DbError(p) PROVE AnonymousInv'
  BY <1>5 DEF DbError, Finish, Become, Idle, rows, ghosts, TypeOK, TasksOK, Task, Is
<1>6. CASE Restart
  BY <1>6 DEF Restart, Idle, ghosts, TypeOK, TasksOK, Task, Is
<1>7. CASE UNCHANGED vars
  BY <1>7 DEF vars, TypeOK, TasksOK, Task, Is
<1>. QED BY <1>1, <1>2, <1>3, <1>4, <1>5, <1>6, <1>7 DEF Next, Client

(* A request signed with a bare jwk never leads to a certificate.          *)
THEOREM AnonymousOrdersNeverIssued == Spec => []AnonymousNeverIssued
<1>1. Init => AnonymousInv
  BY DEF Init, AnonymousInv, AnonymousNeverIssued, AnonymousRunsFail, AbsentIsAnonymous, Idle
<1>2. AnonymousInv => AnonymousNeverIssued
  BY DEF AnonymousInv
<1>. QED BY <1>1, <1>2, TypeCorrect, AnonymousStep, PTL DEF Spec

-------------------------------------------------------------------------------
(* Why every claim is backed by a proof of its own.  A validation that     *)
(* succeeded is first in the hands of a run that has not committed yet,    *)
(* then it is the "ready" of the order, then it is spent by a claim.  A    *)
(* validation may be lost on the way (two runs earn one "ready", a run     *)
(* dies), but it is never counted twice.                                   *)
EarnedPcs == {"rc_authz", "rc_order", "rc_check", "rc_commit"}
Earned(o) == {q \in Procs : task[q].order = o /\ task[q].ok /\ task[q].pc \in EarnedPcs}
Ready(o)  == IF orderStatus[o] = "ready" THEN 1 ELSE 0
Ledger(o) == claims[o] + Ready(o) + Cardinality(Earned(o)) <= proofs[o]
LedgerInv == \A o \in OrderIds : Ledger(o)

LEMMA EarnedFinite ==
    ASSUME NEW o
    PROVE  IsFiniteSet(Earned(o)) /\ Cardinality(Earned(o)) \in Nat
BY ConstantsAssumption, FS_Subset, FS_CardinalityType DEF Earned

LEMMA EarnedFinitePrime ==
    ASSUME NEW o
    PROVE  IsFiniteSet(Earned(o)') /\ Cardinality(Earned(o)') \in Nat
BY ConstantsAssumption, FS_Subset, FS_CardinalityType DEF Earned

(* A step keeps the ledger of an order if no run gains a success, and      *)
(* claims and "ready" together do not grow.                                *)
LEMMA LedgerKept ==
    ASSUME NEW o \in OrderIds, TypeOK, TypeOK', Ledger(o),
           Earned(o)' \subseteq Earned(o),
           claims'[o] + Ready(o)' <= claims[o] + Ready(o),
           proofs'[o] = proofs[o]
    PROVE  Ledger(o)'
<1>1. Cardinality(Earned(o)') <= Cardinality(Earned(o))
  BY EarnedFinite, FS_Subset
<1>2. /\ Cardinality(Earned(o)') \in Nat /\ Cardinality(Earned(o)) \in Nat
      /\ claims[o] \in Nat /\ claims'[o] \in Nat /\ proofs[o] \in Nat
      /\ Ready(o) \in Nat /\ Ready(o)' \in Nat
  BY EarnedFinite, EarnedFinitePrime DEF TypeOK, Ready
<1>3. Cardinality(Earned(o))' = Cardinality(Earned(o)')
  OBVIOUS
<1>. QED BY <1>1, <1>2, <1>3 DEF Ledger

(* The same, for a step that touches no counter and makes no order ready.  *)
LEMMA LedgerIdle ==
    ASSUME NEW o \in OrderIds, TypeOK, TypeOK', Ledger(o),
           Earned(o)' \subseteq Earned(o),
           orderStatus'[o] = "ready" => orderStatus[o] = "ready",
           UNCHANGED <<claims, proofs>>
    PROVE  Ledger(o)'
<1>1. claims'[o] + Ready(o)' <= claims[o] + Ready(o)
  BY DEF TypeOK, Ready
<1>. QED BY <1>1, LedgerKept

(* A run that has not fetched anything yet has no success to show. *)
UnfetchedRuns == \A q \in Procs : Is(q, "ack_commit") \/ Is(q, "rc_start") => ~task[q].ok

LEMMA UnfetchedStep == TypeOK /\ UnfetchedRuns /\ [Next]_vars => UnfetchedRuns'
<1> SUFFICES ASSUME TypeOK, UnfetchedRuns, [Next]_vars PROVE UnfetchedRuns'
  OBVIOUS
<1> USE DEF UnfetchedRuns
<1>1. ASSUME NEW o \in OrderIds, NEW a \in Accounts \union {NoAccount}, NewOrder(o, a)
      PROVE  UnfetchedRuns'
  BY <1>1 DEF NewOrder, ghosts, TypeOK, TasksOK, Task, Is
<1>2. ASSUME NEW p \in Procs, NEW o \in OrderIds, NEW a, PostChallenge(p, o, a)
      PROVE  UnfetchedRuns'
  BY <1>2 DEF PostChallenge, Become, At, Idle, rows, TypeOK, TasksOK, Task, Is
<1>3. ASSUME NEW p \in Procs, NEW o \in OrderIds, NEW a, PostFinalize(p, o, a)
      PROVE  UnfetchedRuns'
  BY <1>3 DEF PostFinalize, Become, At, Idle, rows, ghosts, TypeOK, TasksOK, Task, Is
<1>4. ASSUME NEW p \in Procs, TaskStep(p)
      PROVE  UnfetchedRuns'
  <2>1. CASE AckCommit(p)
    BY <2>1 DEF AckCommit, Goto, Become, ghosts, TypeOK, TasksOK, Task, Is
  <2>2. CASE RcStart(p)
    BY <2>2 DEF RcStart, Goto, Become, rows, ghosts, TypeOK, TasksOK, Task, Is
  <2>3. ASSUME NEW validated \in BOOLEAN, RcFetch(p, validated) PROVE UnfetchedRuns'
    BY <2>3 DEF RcFetch, Become, rows, TypeOK, TasksOK, Task, Is
  <2>4. CASE RcLoadAuthz(p)
    BY <2>4 DEF RcLoadAuthz, Become, rows, ghosts, TypeOK, TasksOK, Task, Is
  <2>5. CASE RcLoadOrder(p)
    BY <2>5 DEF RcLoadOrder, Become, rows, ghosts, TypeOK, TasksOK, Task, Is
  <2>6. CASE RcCheck(p)
    <3>1. CASE authzStatus[task[p].order] = "valid"
      BY <2>6, <3>1 DEF RcCheck, Goto, Become, rows, ghosts, TypeOK, TasksOK, Task, Is
    <3>2. CASE authzStatus[task[p].order] # "valid"
      BY <2>6, <3>2 DEF RcCheck, Finish, Become, Idle, rows, ghosts, TypeOK, TasksOK, Task, Is
    <3>. QED BY <3>1, <3>2
  <2>7. CASE RcCommit(p)
    BY <2>7 DEF RcCommit, Finish, Become, Idle, ghosts, TypeOK, TasksOK, Task, Is
  <2>8. CASE FinClaim(p)
    <3>1. CASE orderStatus[task[p].order] = "ready"
      BY <2>8, <3>1, ClaimEffect DEF FinClaim, TypeOK, TasksOK, Task, Is
    <3>2. CASE orderStatus[task[p].order] # "ready"
      BY <2>8, <3>2 DEF FinClaim, Finish, Become, Idle, TypeOK, TasksOK, Task, Is
    <3>. QED BY <3>1, <3>2
  <2>9. CASE PfStart(p)
    BY <2>9 DEF PfStart, Goto, Become, rows, ghosts, TypeOK, TasksOK, Task, Is
  <2>10. ASSUME NEW issued \in BOOLEAN, PfSign(p, issued) PROVE UnfetchedRuns'
    BY <2>10 DEF PfSign, Become, rows, ghosts, TypeOK, TasksOK, Task, Is
  <2>11. CASE PfLoad(p)
    BY <2>11 DEF PfLoad, Become, rows, ghosts, TypeOK, TasksOK, Task, Is
  <2>12. CASE PfStore(p)
    BY <2>12 DEF PfStore, Goto, Become, ghosts, TypeOK, TasksOK, Task, Is
  <2>13. CASE PfCommit(p)
    BY <2>13 DEF PfCommit, Finish, Become, Idle, ghosts, TypeOK, TasksOK, Task, Is
  <2>. QED BY <1>4, <2>1, <2>2, <2>3, <2>4, <2>5, <2>6, <2>7, <2>8, <2>9, <2>10, <2>11, <2>12, <2>13 DEF TaskStep
<1>5. ASSUME NEW p \in Procs, DbError(p) PROVE UnfetchedRuns'
  BY <1>5 DEF DbError, Finish, Become, Idle, rows, ghosts, TypeOK, TasksOK, Task, Is
<1>6. CASE Restart
  BY <1>6 DEF Restart, Idle, ghosts, TypeOK, TasksOK, Task, Is
<1>7. CASE UNCHANGED vars
  BY <1>7 DEF vars, TypeOK, TasksOK, Task, Is
<1>. QED BY <1>1, <1>2, <1>3, <1>4, <1>5, <1>6, <1>7 DEF Next, Client

LEMMA LedgerStep == TypeOK /\ TypeOK' /\ UnfetchedRuns /\ LedgerInv /\ [Next]_vars => LedgerInv'
<1> SUFFICES ASSUME TypeOK, TypeOK', UnfetchedRuns, [Next]_vars, NEW o \in OrderIds, Ledger(o)
             PROVE  Ledger(o)'
  BY DEF LedgerInv
<1>1. ASSUME NEW n \in OrderIds, NEW a \in Accounts \union {NoAccount}, NewOrder(n, a)
      PROVE  Ledger(o)'
  <2>1. Earned(o)' \subseteq Earned(o)
    BY <1>1 DEF NewOrder, ghosts, Earned, EarnedPcs, TypeOK, TasksOK, Task, Is
  <2>2. (orderStatus'[o] = "ready" => orderStatus[o] = "ready") /\ UNCHANGED <<claims, proofs>>
    BY <1>1 DEF NewOrder, ghosts, TypeOK
  <2>. QED BY <2>1, <2>2, LedgerIdle
<1>2. ASSUME NEW p \in Procs, NEW n \in OrderIds, NEW a, PostChallenge(p, n, a)
      PROVE  Ledger(o)'
  <2>1. Earned(o)' \subseteq Earned(o)
    BY <1>2 DEF PostChallenge, Become, At, Idle, rows, Earned, EarnedPcs, TypeOK, TasksOK, Task, Is
  <2>2. (orderStatus'[o] = "ready" => orderStatus[o] = "ready") /\ UNCHANGED <<claims, proofs>>
    BY <1>2 DEF PostChallenge, rows, TypeOK
  <2>. QED BY <2>1, <2>2, LedgerIdle
<1>3. ASSUME NEW p \in Procs, NEW n \in OrderIds, NEW a, PostFinalize(p, n, a)
      PROVE  Ledger(o)'
  <2>1. Earned(o)' \subseteq Earned(o)
    BY <1>3 DEF PostFinalize, Become, At, Idle, rows, ghosts, Earned, EarnedPcs, TypeOK, TasksOK, Task, Is
  <2>2. (orderStatus'[o] = "ready" => orderStatus[o] = "ready") /\ UNCHANGED <<claims, proofs>>
    BY <1>3 DEF PostFinalize, rows, ghosts, TypeOK
  <2>. QED BY <2>1, <2>2, LedgerIdle
<1>4. ASSUME NEW p \in Procs, TaskStep(p)
      PROVE  Ledger(o)'
  <2>1. CASE AckCommit(p)
    <3>1. Earned(o)' \subseteq Earned(o)
      BY <2>1 DEF AckCommit, Goto, Become, ghosts, Earned, EarnedPcs, TypeOK, TasksOK, Task, Is
    <3>2. (orderStatus'[o] = "ready" => orderStatus[o] = "ready") /\ UNCHANGED <<claims, proofs>>
      BY <2>1 DEF AckCommit, ghosts, TypeOK
    <3>. QED BY <3>1, <3>2, LedgerIdle
  <2>2. CASE RcStart(p)
    <3>1. Earned(o)' \subseteq Earned(o)
      BY <2>2 DEF RcStart, Goto, Become, UnfetchedRuns, rows, ghosts, Earned, EarnedPcs, TypeOK, TasksOK, Task, Is
    <3>2. (orderStatus'[o] = "ready" => orderStatus[o] = "ready") /\ UNCHANGED <<claims, proofs>>
      BY <2>2 DEF RcStart, rows, ghosts, TypeOK
    <3>. QED BY <3>1, <3>2, LedgerIdle
  <2>3. ASSUME NEW validated \in BOOLEAN, RcFetch(p, validated) PROVE Ledger(o)'
    <3>0. task[p].order \in OrderIds /\ p \notin Earned(o)
      BY <2>3 DEF RcFetch, TypeOK, TasksOK, Is, Earned, EarnedPcs
    <3>1. UNCHANGED <<orderStatus, claims>>
      BY <2>3 DEF RcFetch, rows
    <3>2. CASE validated /\ task[p].order = o
      <4>1. Earned(o)' = Earned(o) \union {p}
        BY <2>3, <3>2 DEF RcFetch, Become, Earned, EarnedPcs, TypeOK, TasksOK, Task, Is
      <4>2. Cardinality(Earned(o)') = Cardinality(Earned(o)) + 1
        BY <3>0, <4>1, EarnedFinite, FS_AddElement
      <4>3. proofs'[o] = proofs[o] + 1
        BY <2>3, <3>2 DEF RcFetch, TypeOK
      <4>4. Cardinality(Earned(o)) \in Nat /\ claims[o] \in Nat /\ proofs[o] \in Nat
        BY EarnedFinite DEF TypeOK
      <4>5. Ready(o)' = Ready(o) /\ Ready(o) \in Nat /\ claims'[o] = claims[o]
        BY <3>1 DEF Ready
      <4>6. Cardinality(Earned(o))' = Cardinality(Earned(o)')
        OBVIOUS
      <4>. QED BY <4>2, <4>3, <4>4, <4>5, <4>6 DEF Ledger
    <3>3. CASE ~(validated /\ task[p].order = o)
      <4>1. Earned(o)' \subseteq Earned(o)
        BY <2>3, <3>3 DEF RcFetch, Become, Earned, EarnedPcs, TypeOK, TasksOK, Task, Is
      <4>2. proofs'[o] = proofs[o]
        BY <2>3, <3>0, <3>3 DEF RcFetch, TypeOK
      <4>3. claims'[o] + Ready(o)' <= claims[o] + Ready(o)
        BY <3>1 DEF Ready, TypeOK
      <4>. QED BY <4>1, <4>2, <4>3, LedgerKept
    <3>. QED BY <3>2, <3>3
  <2>4. CASE RcLoadAuthz(p)
    <3>1. Earned(o)' \subseteq Earned(o)
      BY <2>4 DEF RcLoadAuthz, Become, rows, ghosts, Earned, EarnedPcs, TypeOK, TasksOK, Task, Is
    <3>2. (orderStatus'[o] = "ready" => orderStatus[o] = "ready") /\ UNCHANGED <<claims, proofs>>
      BY <2>4 DEF RcLoadAuthz, rows, ghosts, TypeOK
    <3>. QED BY <3>1, <3>2, LedgerIdle
  <2>5. CASE RcLoadOrder(p)
    <3>1. Earned(o)' \subseteq Earned(o)
      BY <2>5 DEF RcLoadOrder, Become, rows, ghosts, Earned, EarnedPcs, TypeOK, TasksOK, Task, Is
    <3>2. (orderStatus'[o] = "ready" => orderStatus[o] = "ready") /\ UNCHANGED <<claims, proofs>>
      BY <2>5 DEF RcLoadOrder, rows, ghosts, TypeOK
    <3>. QED BY <3>1, <3>2, LedgerIdle
  <2>6. CASE RcCheck(p)
    <3>1. Earned(o)' \subseteq Earned(o)
      <4>1. CASE authzStatus[task[p].order] = "valid"
        BY <2>6, <4>1 DEF RcCheck, Goto, Become, Earned, EarnedPcs, TypeOK, TasksOK, Task, Is
      <4>2. CASE authzStatus[task[p].order] # "valid"
        BY <2>6, <4>2 DEF RcCheck, Finish, Become, Idle, Earned, EarnedPcs, TypeOK, TasksOK, Task, Is
      <4>. QED BY <4>1, <4>2
    <3>2. UNCHANGED <<orderStatus, claims, proofs>>
      BY <2>6 DEF RcCheck, rows, ghosts
    <3>. QED BY <3>1, <3>2, LedgerIdle
  <2>7. CASE RcCommit(p)
    <3>0. task[p].order \in OrderIds
      BY <2>7 DEF RcCommit, TypeOK, TasksOK, Is
    <3>1. UNCHANGED <<claims, proofs>>
      BY <2>7 DEF RcCommit, ghosts
    <3>2. CASE task[p].ok /\ task[p].order = o
      <4>1. p \in Earned(o)
        BY <2>7, <3>2 DEF RcCommit, Earned, EarnedPcs, Is
      <4>2. Earned(o)' = Earned(o) \ {p}
        BY <2>7, IdleType DEF RcCommit, Finish, Become, Earned, EarnedPcs, TypeOK, TasksOK
      <4>3. Cardinality(Earned(o)') = Cardinality(Earned(o)) - 1
        BY <4>1, <4>2, EarnedFinite, FS_RemoveElement
      <4>4. Cardinality(Earned(o)) \in Nat /\ claims[o] \in Nat /\ proofs[o] \in Nat
        BY EarnedFinite DEF TypeOK
      <4>5. Ready(o) \in Nat /\ Ready(o)' \in Nat /\ Ready(o)' <= 1
        BY DEF Ready
      <4>6. Cardinality(Earned(o))' = Cardinality(Earned(o)')
        OBVIOUS
      <4>. QED BY <3>1, <4>3, <4>4, <4>5, <4>6 DEF Ledger
    <3>3. CASE ~(task[p].ok /\ task[p].order = o)
      <4>1. Earned(o)' \subseteq Earned(o)
        BY <2>7, IdleType DEF RcCommit, Finish, Become, Earned, EarnedPcs, TypeOK, TasksOK
      <4>2. orderStatus'[o] = "ready" => orderStatus[o] = "ready"
        BY <2>7, <3>0, <3>3 DEF RcCommit, TypeOK
      <4>. QED BY <3>1, <4>1, <4>2, LedgerIdle
    <3>. QED BY <3>2, <3>3
  <2>8. CASE FinClaim(p)
    <3>0. task[p].order \in OrderIds
      BY <2>8 DEF FinClaim, TypeOK, TasksOK, Is
    <3>1. CASE orderStatus[task[p].order] = "ready"
      <4>1. Earned(o)' \subseteq Earned(o)
        BY <2>8, <3>1, ClaimEffect DEF Earned, EarnedPcs
      <4>2. claims'[o] + Ready(o)' <= claims[o] + Ready(o)
        BY <2>8, <3>0, <3>1 DEF FinClaim, Ready, TypeOK
      <4>3. proofs'[o] = proofs[o]
        BY <2>8 DEF FinClaim
      <4>. QED BY <4>1, <4>2, <4>3, LedgerKept
    <3>2. CASE orderStatus[task[p].order] # "ready"
      <4>1. Earned(o)' \subseteq Earned(o)
        BY <2>8, <3>2 DEF FinClaim, Finish, Become, Idle, Earned, EarnedPcs, TypeOK, TasksOK, Task, Is
      <4>2. UNCHANGED <<orderStatus, claims, proofs>>
        BY <2>8, <3>2 DEF FinClaim
      <4>. QED BY <4>1, <4>2, LedgerIdle
    <3>. QED BY <3>1, <3>2
  <2>9. CASE PfStart(p)
    <3>1. Earned(o)' \subseteq Earned(o)
      BY <2>9 DEF PfStart, Goto, Become, rows, ghosts, Earned, EarnedPcs, TypeOK, TasksOK, Task, Is
    <3>2. (orderStatus'[o] = "ready" => orderStatus[o] = "ready") /\ UNCHANGED <<claims, proofs>>
      BY <2>9 DEF PfStart, rows, ghosts, TypeOK
    <3>. QED BY <3>1, <3>2, LedgerIdle
  <2>10. ASSUME NEW issued \in BOOLEAN, PfSign(p, issued) PROVE Ledger(o)'
    <3>1. Earned(o)' \subseteq Earned(o)
      BY <2>10 DEF PfSign, Become, rows, ghosts, Earned, EarnedPcs, TypeOK, TasksOK, Task, Is
    <3>2. (orderStatus'[o] = "ready" => orderStatus[o] = "ready") /\ UNCHANGED <<claims, proofs>>
      BY <2>10 DEF PfSign, rows, ghosts, TypeOK
    <3>. QED BY <3>1, <3>2, LedgerIdle
  <2>11. CASE PfLoad(p)
    <3>1. Earned(o)' \subseteq Earned(o)
      BY <2>11 DEF PfLoad, Become, rows, ghosts, Earned, EarnedPcs, TypeOK, TasksOK, Task, Is
    <3>2. (orderStatus'[o] = "ready" => orderStatus[o] = "ready") /\ UNCHANGED <<claims, proofs>>
      BY <2>11 DEF PfLoad, rows, ghosts, TypeOK
    <3>. QED BY <3>1, <3>2, LedgerIdle
  <2>12. CASE PfStore(p)
    <3>1. Earned(o)' \subseteq Earned(o)
      BY <2>12 DEF PfStore, Goto, Become, ghosts, Earned, EarnedPcs, TypeOK, TasksOK, Task, Is
    <3>2. (orderStatus'[o] = "ready" => orderStatus[o] = "ready") /\ UNCHANGED <<claims, proofs>>
      BY <2>12 DEF PfStore, ghosts, TypeOK
    <3>. QED BY <3>1, <3>2, LedgerIdle
  <2>13. CASE PfCommit(p)
    <3>1. Earned(o)' \subseteq Earned(o)
      BY <2>13 DEF PfCommit, Finish, Become, Idle, ghosts, Earned, EarnedPcs, TypeOK, TasksOK, Task, Is
    <3>2. (orderStatus'[o] = "ready" => orderStatus[o] = "ready") /\ UNCHANGED <<claims, proofs>>
      BY <2>13 DEF PfCommit, ghosts, TypeOK
    <3>. QED BY <3>1, <3>2, LedgerIdle
  <2>. QED BY <1>4, <2>1, <2>2, <2>3, <2>4, <2>5, <2>6, <2>7, <2>8, <2>9, <2>10, <2>11, <2>12, <2>13 DEF TaskStep
<1>5. ASSUME NEW p \in Procs, DbError(p) PROVE Ledger(o)'
  <2>1. Earned(o)' \subseteq Earned(o)
    BY <1>5 DEF DbError, Finish, Become, Idle, rows, ghosts, Earned, EarnedPcs, TypeOK, TasksOK, Task, Is
  <2>2. (orderStatus'[o] = "ready" => orderStatus[o] = "ready") /\ UNCHANGED <<claims, proofs>>
    BY <1>5 DEF DbError, rows, ghosts, TypeOK
  <2>. QED BY <2>1, <2>2, LedgerIdle
<1>6. CASE Restart
  <2>1. Earned(o)' \subseteq Earned(o)
    BY <1>6 DEF Restart, Idle, ghosts, Earned, EarnedPcs, TypeOK, TasksOK, Task, Is
  <2>2. (orderStatus'[o] = "ready" => orderStatus[o] = "ready") /\ UNCHANGED <<claims, proofs>>
    BY <1>6 DEF Restart, ghosts, TypeOK
  <2>. QED BY <2>1, <2>2, LedgerIdle
<1>7. CASE UNCHANGED vars
  <2>1. Earned(o)' \subseteq Earned(o)
    BY <1>7 DEF vars, Earned
  <2>. QED BY <1>7, <2>1, LedgerIdle DEF vars
<1>. QED BY <1>1, <1>2, <1>3, <1>4, <1>5, <1>6, <1>7 DEF Next, Client

(* The upstream CA is asked at most once per successful HTTP-01            *)
(* validation, under every interleaving of requests, retries and restarts. *)
THEOREM EveryClaimIsProved == Spec => []ClaimsBackedByProofs
<1>1. Init => LedgerInv
  <2> SUFFICES ASSUME Init, NEW o \in OrderIds PROVE Ledger(o)
    BY DEF LedgerInv
  <2>1. Earned(o) = {}
    BY DEF Init, Earned, Idle
  <2>. QED BY <2>1, FS_EmptySet DEF Init, Ledger, Ready
<1>2. Init => UnfetchedRuns
  BY DEF Init, UnfetchedRuns, Is, Idle
<1>3. TypeOK /\ LedgerInv => ClaimsBackedByProofs
  <2> SUFFICES ASSUME TypeOK, NEW o \in OrderIds, Ledger(o) PROVE claims[o] <= proofs[o]
    BY DEF LedgerInv, ClaimsBackedByProofs
  <2>1. claims[o] \in Nat /\ proofs[o] \in Nat /\ Ready(o) \in Nat
        /\ Cardinality(Earned(o)) \in Nat
    BY EarnedFinite DEF TypeOK, Ready
  <2>. QED BY <2>1 DEF Ledger
<1>. QED BY <1>1, <1>2, <1>3, TypeCorrect, UnfetchedStep, LedgerStep, PTL DEF Spec
-------------------------------------------------------------------------------
(* Why an order whose challenge was acknowledged once keeps its promise:   *)
(* it has at most one run and at most one finalization at a time, and what *)
(* each has read is still true when it writes.                             *)
Running(q, o)    == task[q].order = o /\ task[q].pc \in RunPcs \union {"ack_commit"}
Finalizing(q, o) == task[q].order = o /\ task[q].pc \in FinalizePcs

SoloRuns(o) ==
    /\ \A q, r \in Procs : Running(q, o) /\ Running(r, o) => q = r
    /\ \A q \in Procs : Running(q, o) =>
          /\ posts[o] = 1 /\ claims[o] = 0 /\ task[q].pc # "rc_check"
          /\ task[q].pc = "ack_commit" => orderStatus[o] = "pending" /\ authzStatus[o] = "pending"
          /\ task[q].pc # "ack_commit" => orderStatus[o] = "processing" /\ authzStatus[o] = "processing"
          /\ task[q].pc \in {"rc_order", "rc_commit"} => task[q].seenAuthz = "processing"
          /\ task[q].pc = "rc_commit" => task[q].seenOrder = "processing"

SoloFinalizations(o) ==
    /\ \A q, r \in Procs : Finalizing(q, o) /\ Finalizing(r, o) => q = r
    /\ \A q \in Procs : Finalizing(q, o) =>
          /\ claims[o] = 1 /\ task[q].claim = 1 /\ orderStatus[o] = "processing"
          /\ task[q].pc \in {"pf_store", "pf_commit"} => task[q].seenOrder = "processing"

SoloRows(o) ==
    /\ orderStatus[o] \in {"absent", "pending", "ready"} => claims[o] = 0
    /\ claims[o] = 0 => orderCert[o] = 0
    /\ orderStatus[o] = "absent" <=> authzStatus[o] = "absent"
    /\ orderStatus[o] = "absent" => posts[o] = 0
    /\ authzStatus[o] = "pending" => orderStatus[o] = "pending"
    /\ authzStatus[o] = "processing" => orderStatus[o] = "processing" /\ claims[o] = 0 /\ posts[o] = 1

Solo(o)  == posts[o] <= 1 => SoloRuns(o) /\ SoloFinalizations(o) /\ SoloRows(o)
SoloInv  == \A o \in OrderIds : Solo(o)

(* A step that does not concern the rows and the tasks of an order, except *)
(* to end one of the tasks.                                                *)
Spared(o) ==
    /\ orderStatus'[o] = orderStatus[o] /\ authzStatus'[o] = authzStatus[o]
    /\ posts'[o] = posts[o] /\ claims'[o] = claims[o] /\ orderCert'[o] = orderCert[o]
    /\ \A q \in Procs : task'[q] = task[q] \/ task'[q].pc \in {"idle", "fin_claim"} \/ task'[q].order # o

LEMMA SoloSpared ==
    ASSUME NEW o, Solo(o), Spared(o)
    PROVE  Solo(o)'
<1> SUFFICES ASSUME posts[o] <= 1 PROVE SoloRuns(o)' /\ SoloFinalizations(o)' /\ SoloRows(o)'
  BY DEF Solo, Spared
<1>1. \A q \in Procs : (Running(q, o)' => Running(q, o) /\ task'[q] = task[q])
                  /\ (Finalizing(q, o)' => Finalizing(q, o) /\ task'[q] = task[q])
  BY DEF Spared, Running, Finalizing, RunPcs, FinalizePcs
<1>2. SoloRuns(o)'
  BY <1>1 DEF Spared, Solo, SoloRuns
<1>3. SoloFinalizations(o)'
  BY <1>1 DEF Spared, Solo, SoloFinalizations
<1>4. SoloRows(o)'
  BY DEF Spared, Solo, SoloRows
<1>. QED BY <1>2, <1>3, <1>4

(* A step of coroutine p replaces p's task by t and spares the others.     *)
LEMMA BecomeEffect ==
    ASSUME NEW p \in Procs, NEW t, TypeOK, Become(p, t)
    PROVE  task'[p] = t /\ \A q \in Procs \ {p} : task'[q] = task[q]
BY DEF Become, TypeOK, TasksOK

(* A step for one order spares every other order.                          *)
LEMMA OthersSpared ==
    ASSUME NEW p \in Procs, NEW o \in OrderIds, TypeOK, TaskStep(p), task[p].order # o
    PROVE  Spared(o)
<1> USE DEF Spared, Become, TypeOK, TasksOK, Task
<1>1. CASE AckCommit(p)
  BY <1>1 DEF AckCommit, Goto, ghosts
<1>2. CASE RcStart(p)
  BY <1>2 DEF RcStart, Goto, rows, ghosts
<1>3. ASSUME NEW validated \in BOOLEAN, RcFetch(p, validated) PROVE Spared(o)
  BY <1>3 DEF RcFetch, rows
<1>4. CASE RcLoadAuthz(p)
  BY <1>4 DEF RcLoadAuthz, rows, ghosts
<1>5. CASE RcLoadOrder(p)
  BY <1>5 DEF RcLoadOrder, rows, ghosts
<1>6. CASE RcCheck(p)
  BY <1>6 DEF RcCheck, Goto, Finish, Idle, rows, ghosts
<1>7. CASE RcCommit(p)
  BY <1>7 DEF RcCommit, Finish, Idle, ghosts
<1>8. CASE FinClaim(p)
  <2>1. CASE orderStatus[task[p].order] = "ready"
    BY <1>8, <2>1, ClaimEffect DEF FinClaim
  <2>2. CASE orderStatus[task[p].order] # "ready"
    BY <1>8, <2>2 DEF FinClaim, Finish, Idle
  <2>. QED BY <2>1, <2>2
<1>9. CASE PfStart(p)
  BY <1>9 DEF PfStart, Goto, rows, ghosts
<1>10. ASSUME NEW issued \in BOOLEAN, PfSign(p, issued) PROVE Spared(o)
  BY <1>10 DEF PfSign, rows, ghosts
<1>11. CASE PfLoad(p)
  BY <1>11 DEF PfLoad, rows, ghosts
<1>12. CASE PfStore(p)
  BY <1>12 DEF PfStore, Goto, ghosts
<1>13. CASE PfCommit(p)
  BY <1>13 DEF PfCommit, Finish, Idle, ghosts
<1>. QED BY <1>1, <1>2, <1>3, <1>4, <1>5, <1>6, <1>7, <1>8, <1>9, <1>10, <1>11, <1>12, <1>13 DEF TaskStep

(* The run of the order takes a step and stays a run.                      *)
LEMMA RunMoves ==
    ASSUME NEW p \in Procs, NEW o, Solo(o), posts[o] <= 1, Running(p, o),
           \A q \in Procs \ {p} : task'[q] = task[q],
           task'[p].order = o, task'[p].pc \in RunPcs \ {"rc_check"},
           task'[p].pc \in {"rc_order", "rc_commit"} => task'[p].seenAuthz = "processing",
           task'[p].pc = "rc_commit" => task'[p].seenOrder = "processing",
           orderStatus'[o] = "processing", authzStatus'[o] = "processing",
           posts'[o] = posts[o], claims'[o] = claims[o], orderCert'[o] = orderCert[o]
    PROVE  Solo(o)'
<1>1. posts[o] = 1 /\ claims[o] = 0
  BY DEF Solo, SoloRuns
<1>2. \A q \in Procs : ~Finalizing(q, o)
  BY <1>1 DEF Solo, SoloFinalizations
<1>3. \A q \in Procs : Running(q, o)' => q = p
  BY DEF Solo, SoloRuns, Running
<1>4. \A q \in Procs : ~Finalizing(q, o)'
  BY <1>2 DEF Finalizing, RunPcs, FinalizePcs
<1>5. SoloRuns(o)'
  BY <1>1, <1>3 DEF SoloRuns, RunPcs
<1>. QED BY <1>1, <1>4, <1>5 DEF Solo, SoloFinalizations, SoloRows

(* The finalization of the order takes a step and stays one.               *)
LEMMA FinalizationMoves ==
    ASSUME NEW p \in Procs, NEW o, Solo(o), posts[o] <= 1, Finalizing(p, o),
           \A q \in Procs \ {p} : task'[q] = task[q],
           task'[p].order = o, task'[p].pc \in FinalizePcs, task'[p].claim = task[p].claim,
           task'[p].pc \in {"pf_store", "pf_commit"} => task'[p].seenOrder = "processing",
           orderStatus'[o] = orderStatus[o], authzStatus'[o] = authzStatus[o],
           posts'[o] = posts[o], claims'[o] = claims[o], orderCert'[o] = orderCert[o]
    PROVE  Solo(o)'
<1>1. claims[o] = 1 /\ task[p].claim = 1 /\ orderStatus[o] = "processing"
  BY DEF Solo, SoloFinalizations
<1>2. \A q \in Procs : ~Running(q, o)'
  BY <1>1 DEF Solo, SoloRuns, Running, RunPcs, FinalizePcs
<1>3. \A q \in Procs : Finalizing(q, o)' => q = p
  BY DEF Solo, SoloFinalizations, Finalizing
<1>4. SoloFinalizations(o)'
  BY <1>1, <1>3 DEF SoloFinalizations
<1>. QED BY <1>2, <1>4 DEF Solo, SoloRuns, SoloRows

(* A step of a task, for the order it works on.                            *)
LEMMA SoloTask ==
    ASSUME NEW p \in Procs, NEW o \in OrderIds, TypeOK, TaskStep(p), task[p].order = o, Solo(o)
    PROVE  Solo(o)'
<1>0. UNCHANGED posts
  BY DEF TaskStep, AckCommit, RcStart, RcFetch, RcLoadAuthz, RcLoadOrder, RcCheck, RcCommit, FinClaim,
         PfStart, PfSign, PfLoad, PfStore, PfCommit, ghosts
<1> SUFFICES ASSUME posts[o] <= 1 PROVE Solo(o)'
  BY <1>0 DEF Solo
<1>a. /\ task[p].pc \in RunPcs \union {"ack_commit"} => Running(p, o)
      /\ task[p].pc \in FinalizePcs => Finalizing(p, o)
  BY DEF Running, Finalizing
<1>b. task[p] \in Task
  BY DEF TypeOK, TasksOK
<1> USE DEF Is, Become
<1>1. CASE AckCommit(p)
  <2>1. task[p].pc = "ack_commit" /\ Running(p, o)
    BY <1>1, <1>a DEF AckCommit, RunPcs
  <2>2. /\ \A q \in Procs \ {p} : task'[q] = task[q]
        /\ task'[p].order = o /\ task'[p].pc \in RunPcs \ {"rc_check"}
        /\ task'[p].pc \in {"rc_order", "rc_commit"} => task'[p].seenAuthz = "processing"
        /\ task'[p].pc = "rc_commit" => task'[p].seenOrder = "processing"
    BY <1>1, <1>b, <2>1 DEF AckCommit, Goto, ghosts, Solo, SoloRuns, RunPcs, Task, TypeOK, TasksOK
  <2>3. /\ orderStatus'[o] = "processing" /\ authzStatus'[o] = "processing"
        /\ posts'[o] = posts[o] /\ claims'[o] = claims[o] /\ orderCert'[o] = orderCert[o]
    BY <1>1, <2>1 DEF AckCommit, Goto, ghosts, Solo, SoloRuns, TypeOK
  <2>. QED BY <2>1, <2>2, <2>3, RunMoves
<1>2. CASE RcStart(p)
  <2>1. task[p].pc = "rc_start" /\ Running(p, o)
    BY <1>2, <1>a DEF RcStart, RunPcs
  <2>2. /\ \A q \in Procs \ {p} : task'[q] = task[q]
        /\ task'[p].order = o /\ task'[p].pc \in RunPcs \ {"rc_check"}
        /\ task'[p].pc \in {"rc_order", "rc_commit"} => task'[p].seenAuthz = "processing"
        /\ task'[p].pc = "rc_commit" => task'[p].seenOrder = "processing"
    BY <1>2, <1>b, <2>1 DEF RcStart, Goto, rows, ghosts, Solo, SoloRuns, RunPcs, Task, TypeOK, TasksOK
  <2>3. /\ orderStatus'[o] = "processing" /\ authzStatus'[o] = "processing"
        /\ posts'[o] = posts[o] /\ claims'[o] = claims[o] /\ orderCert'[o] = orderCert[o]
    BY <1>2, <2>1 DEF RcStart, Goto, rows, ghosts, Solo, SoloRuns, TypeOK
  <2>. QED BY <2>1, <2>2, <2>3, RunMoves
<1>3. ASSUME NEW validated \in BOOLEAN, RcFetch(p, validated) PROVE Solo(o)'
  <2>1. task[p].pc = "rc_fetch" /\ Running(p, o)
    BY <1>3, <1>a DEF RcFetch, RunPcs
  <2>2. /\ \A q \in Procs \ {p} : task'[q] = task[q]
        /\ task'[p].order = o /\ task'[p].pc \in RunPcs \ {"rc_check"}
        /\ task'[p].pc \in {"rc_order", "rc_commit"} => task'[p].seenAuthz = "processing"
        /\ task'[p].pc = "rc_commit" => task'[p].seenOrder = "processing"
    BY <1>3, <1>b, <2>1 DEF RcFetch, rows, Solo, SoloRuns, RunPcs, Task, TypeOK, TasksOK
  <2>3. /\ orderStatus'[o] = "processing" /\ authzStatus'[o] = "processing"
        /\ posts'[o] = posts[o] /\ claims'[o] = claims[o] /\ orderCert'[o] = orderCert[o]
    BY <1>3, <2>1 DEF RcFetch, rows, Solo, SoloRuns, TypeOK
  <2>. QED BY <2>1, <2>2, <2>3, RunMoves
<1>4. CASE RcLoadAuthz(p)
  <2>1. task[p].pc = "rc_authz" /\ Running(p, o)
    BY <1>4, <1>a DEF RcLoadAuthz, RunPcs
  <2>2. /\ \A q \in Procs \ {p} : task'[q] = task[q]
        /\ task'[p].order = o /\ task'[p].pc \in RunPcs \ {"rc_check"}
        /\ task'[p].pc \in {"rc_order", "rc_commit"} => task'[p].seenAuthz = "processing"
        /\ task'[p].pc = "rc_commit" => task'[p].seenOrder = "processing"
    BY <1>4, <1>b, <2>1 DEF RcLoadAuthz, rows, ghosts, Solo, SoloRuns, RunPcs, Task, TypeOK, TasksOK
  <2>3. /\ orderStatus'[o] = "processing" /\ authzStatus'[o] = "processing"
        /\ posts'[o] = posts[o] /\ claims'[o] = claims[o] /\ orderCert'[o] = orderCert[o]
    BY <1>4, <2>1 DEF RcLoadAuthz, rows, ghosts, Solo, SoloRuns, TypeOK
  <2>. QED BY <2>1, <2>2, <2>3, RunMoves
<1>5. CASE RcLoadOrder(p)
  <2>1. task[p].pc = "rc_order" /\ Running(p, o)
    BY <1>5, <1>a DEF RcLoadOrder, RunPcs
  <2>2. /\ \A q \in Procs \ {p} : task'[q] = task[q]
        /\ task'[p].order = o /\ task'[p].pc \in RunPcs \ {"rc_check"}
        /\ task'[p].pc \in {"rc_order", "rc_commit"} => task'[p].seenAuthz = "processing"
        /\ task'[p].pc = "rc_commit" => task'[p].seenOrder = "processing"
    BY <1>5, <1>b, <2>1 DEF RcLoadOrder, rows, ghosts, Solo, SoloRuns, RunPcs, Task, TypeOK, TasksOK
  <2>3. /\ orderStatus'[o] = "processing" /\ authzStatus'[o] = "processing"
        /\ posts'[o] = posts[o] /\ claims'[o] = claims[o] /\ orderCert'[o] = orderCert[o]
    BY <1>5, <2>1 DEF RcLoadOrder, rows, ghosts, Solo, SoloRuns, TypeOK
  <2>. QED BY <2>1, <2>2, <2>3, RunMoves
<1>6. CASE RcCheck(p)
  <2>1. FALSE
    BY <1>6, <1>a DEF RcCheck, RunPcs, Solo, SoloRuns
  <2>. QED BY <2>1
<1>7. CASE RcCommit(p)
  <2>1. task[p].pc = "rc_commit" /\ Running(p, o)
    BY <1>7, <1>a DEF RcCommit, RunPcs
  <2>2. /\ posts[o] = 1 /\ claims[o] = 0
        /\ orderStatus[o] = "processing" /\ authzStatus[o] = "processing"
        /\ task[p].seenAuthz = "processing" /\ task[p].seenOrder = "processing"
    BY <2>1 DEF Solo, SoloRuns
  <2>3. /\ \A q \in Procs \ {p} : task'[q] = task[q]
        /\ task'[p].pc = "idle"
    BY <1>7, IdleType DEF RcCommit, Finish, TypeOK, TasksOK
  <2>4. \A q \in Procs : ~Running(q, o)'
    BY <2>1, <2>3 DEF Solo, SoloRuns, Running, RunPcs
  <2>5. \A q \in Procs : ~Finalizing(q, o)'
    BY <2>2, <2>3 DEF Solo, SoloFinalizations, Finalizing, FinalizePcs
  <2>6. orderStatus'[o] \in {"ready", "invalid"} /\ authzStatus'[o] \in {"valid", "invalid"}
    BY <1>7, <2>2 DEF RcCommit, TypeOK
  <2>7. posts'[o] = 1 /\ claims'[o] = 0 /\ orderCert'[o] = 0
    BY <1>7, <2>2 DEF RcCommit, ghosts, Solo, SoloRows
  <2>. QED BY <2>4, <2>5, <2>6, <2>7 DEF Solo, SoloRuns, SoloFinalizations, SoloRows
<1>8. CASE FinClaim(p)
  <2>1. CASE orderStatus[o] = "ready"
    <3>1. claims[o] = 0 /\ \A q \in Procs : ~Running(q, o) /\ ~Finalizing(q, o)
      BY <2>1 DEF Solo, SoloRuns, SoloFinalizations, SoloRows
    <3>2. authzStatus[o] \notin {"absent", "pending", "processing"}
      BY <2>1 DEF Solo, SoloRows
    <3> DEFINE n == claims[o] + 1
    <3>3. task' = [task EXCEPT ![p] = [task[p] EXCEPT !.pc = "pf_start", !.claim = n]]
      BY <1>8, <2>1 DEF FinClaim
    <3>4. n = 1
      BY <3>1
    <3>5. /\ task'[p].pc = "pf_start" /\ task'[p].claim = 1
          /\ \A q \in Procs \ {p} : task'[q] = task[q]
      <4> HIDE DEF n
      <4>. QED BY <1>b, <3>3, <3>4 DEF Task, TypeOK, TasksOK
    <3>6. orderStatus'[o] = "processing" /\ claims'[o] = 1 /\ authzStatus'[o] = authzStatus[o]
      BY <1>8, <2>1, <3>1 DEF FinClaim, TypeOK
    <3>7. \A q \in Procs : ~Running(q, o)' /\ (Finalizing(q, o)' => q = p)
      BY <3>1, <3>5 DEF Running, Finalizing, RunPcs, FinalizePcs
    <3>. QED BY <3>2, <3>5, <3>6, <3>7 DEF Solo, SoloRuns, SoloFinalizations, SoloRows
  <2>2. CASE orderStatus[o] # "ready"
    <3>1. Spared(o)
      BY <1>8, <2>2, IdleType DEF FinClaim, Finish, Spared, TypeOK, TasksOK
    <3>. QED BY <3>1, SoloSpared
  <2>. QED BY <2>1, <2>2
<1>9. CASE PfStart(p)
  <2>1. Finalizing(p, o)
    BY <1>9, <1>a DEF PfStart, FinalizePcs
  <2>2. orderStatus[o] = "processing" /\ (task[p].pc = "pf_store" => task[p].seenOrder = "processing")
    BY <2>1 DEF Solo, SoloFinalizations
  <2>3. /\ \A q \in Procs \ {p} : task'[q] = task[q]
        /\ task'[p].order = o /\ task'[p].pc \in FinalizePcs /\ task'[p].claim = task[p].claim
        /\ task'[p].pc \in {"pf_store", "pf_commit"} => task'[p].seenOrder = "processing"
    BY <1>9, <1>b, <2>2 DEF PfStart, Goto, rows, ghosts, FinalizePcs, Task, TypeOK, TasksOK
  <2>4. UNCHANGED <<orderStatus, orderCert, authzStatus, posts, claims>>
    BY <1>9 DEF PfStart, Goto, rows, ghosts
  <2>. QED BY <2>1, <2>3, <2>4, FinalizationMoves
<1>10. ASSUME NEW issued \in BOOLEAN, PfSign(p, issued) PROVE Solo(o)'
  <2>1. Finalizing(p, o)
    BY <1>10, <1>a DEF PfSign, FinalizePcs
  <2>2. orderStatus[o] = "processing" /\ (task[p].pc = "pf_store" => task[p].seenOrder = "processing")
    BY <2>1 DEF Solo, SoloFinalizations
  <2>3. /\ \A q \in Procs \ {p} : task'[q] = task[q]
        /\ task'[p].order = o /\ task'[p].pc \in FinalizePcs /\ task'[p].claim = task[p].claim
        /\ task'[p].pc \in {"pf_store", "pf_commit"} => task'[p].seenOrder = "processing"
    BY <1>10, <1>b, <2>2 DEF PfSign, rows, ghosts, FinalizePcs, Task, TypeOK, TasksOK
  <2>4. UNCHANGED <<orderStatus, orderCert, authzStatus, posts, claims>>
    BY <1>10 DEF PfSign, rows, ghosts
  <2>. QED BY <2>1, <2>3, <2>4, FinalizationMoves
<1>11. CASE PfLoad(p)
  <2>1. Finalizing(p, o)
    BY <1>11, <1>a DEF PfLoad, FinalizePcs
  <2>2. orderStatus[o] = "processing" /\ (task[p].pc = "pf_store" => task[p].seenOrder = "processing")
    BY <2>1 DEF Solo, SoloFinalizations
  <2>3. /\ \A q \in Procs \ {p} : task'[q] = task[q]
        /\ task'[p].order = o /\ task'[p].pc \in FinalizePcs /\ task'[p].claim = task[p].claim
        /\ task'[p].pc \in {"pf_store", "pf_commit"} => task'[p].seenOrder = "processing"
    BY <1>11, <1>b, <2>2 DEF PfLoad, rows, ghosts, FinalizePcs, Task, TypeOK, TasksOK
  <2>4. UNCHANGED <<orderStatus, orderCert, authzStatus, posts, claims>>
    BY <1>11 DEF PfLoad, rows, ghosts
  <2>. QED BY <2>1, <2>3, <2>4, FinalizationMoves
<1>12. CASE PfStore(p)
  <2>1. Finalizing(p, o)
    BY <1>12, <1>a DEF PfStore, FinalizePcs
  <2>2. orderStatus[o] = "processing" /\ (task[p].pc = "pf_store" => task[p].seenOrder = "processing")
    BY <2>1 DEF Solo, SoloFinalizations
  <2>3. /\ \A q \in Procs \ {p} : task'[q] = task[q]
        /\ task'[p].order = o /\ task'[p].pc \in FinalizePcs /\ task'[p].claim = task[p].claim
        /\ task'[p].pc \in {"pf_store", "pf_commit"} => task'[p].seenOrder = "processing"
    BY <1>12, <1>b, <2>2 DEF PfStore, Goto, ghosts, FinalizePcs, Task, TypeOK, TasksOK
  <2>4. UNCHANGED <<orderStatus, orderCert, authzStatus, posts, claims>>
    BY <1>12 DEF PfStore, Goto, ghosts
  <2>. QED BY <2>1, <2>3, <2>4, FinalizationMoves
<1>13. CASE PfCommit(p)
  <2>1. task[p].pc = "pf_commit" /\ Finalizing(p, o)
    BY <1>13, <1>a DEF PfCommit, FinalizePcs
  <2>2. claims[o] = 1 /\ orderStatus[o] = "processing" /\ task[p].seenOrder = "processing"
    BY <2>1 DEF Solo, SoloFinalizations
  <2>3. \A q \in Procs \ {p} : task'[q] = task[q]
    BY <1>13, IdleType DEF PfCommit, Finish, TypeOK, TasksOK
  <2>4. task'[p].pc = "idle"
    BY <1>13, IdleType DEF PfCommit, Finish, TypeOK, TasksOK
  <2>5. \A q \in Procs : ~Running(q, o)'
    BY <2>2, <2>3, <2>4 DEF Solo, SoloRuns, Running, RunPcs
  <2>6. \A q \in Procs : ~Finalizing(q, o)'
    BY <2>1, <2>3, <2>4 DEF Solo, SoloFinalizations, Finalizing, FinalizePcs
  <2>7. orderStatus'[o] \in {"valid", "invalid"} /\ UNCHANGED <<authzStatus, claims, posts>>
    BY <1>13, <2>2 DEF PfCommit, TypeOK, ghosts
  <2>8. authzStatus[o] \notin {"absent", "pending", "processing"}
    BY <2>2 DEF Solo, SoloRows
  <2>. QED BY <2>2, <2>5, <2>6, <2>7, <2>8 DEF Solo, SoloRuns, SoloFinalizations, SoloRows
<1>. QED BY <1>1, <1>2, <1>3, <1>4, <1>5, <1>6, <1>7, <1>8, <1>9, <1>10, <1>11, <1>12, <1>13 DEF TaskStep

LEMMA SoloStep == TypeOK /\ SoloInv /\ [Next]_vars => SoloInv'
<1> SUFFICES ASSUME TypeOK, SoloInv, [Next]_vars, NEW o \in OrderIds PROVE Solo(o)'
  BY DEF SoloInv
<1>0. Solo(o) /\ posts[o] \in Nat
  BY DEF SoloInv, TypeOK
<1>1. ASSUME NEW n \in OrderIds, NEW a \in Accounts \union {NoAccount}, NewOrder(n, a)
      PROVE  Solo(o)'
  <2>0. UNCHANGED <<task, posts, claims, orderCert>>
    BY <1>1 DEF NewOrder, ghosts
  <2>1. CASE n # o
    <3>1. Spared(o)
      BY <1>1, <2>0, <2>1 DEF NewOrder, Spared, TypeOK
    <3>. QED BY <1>0, <3>1, SoloSpared
  <2>2. CASE n = o /\ posts[o] <= 1
    <3>1. posts[o] = 0 /\ claims[o] = 0 /\ orderCert[o] = 0 /\ orderStatus[o] = "absent"
      BY <1>0, <1>1, <2>2 DEF NewOrder, Solo, SoloRows
    <3>2. \A q \in Procs : ~Running(q, o) /\ ~Finalizing(q, o)
      BY <1>0, <3>1 DEF Solo, SoloRuns, SoloFinalizations
    <3>3. \A q \in Procs : ~Running(q, o)' /\ ~Finalizing(q, o)'
      BY <2>0, <3>2 DEF Running, Finalizing
    <3>4. orderStatus'[o] = "pending" /\ authzStatus'[o] = "pending"
      BY <1>1, <2>2 DEF NewOrder, TypeOK
    <3>. QED BY <2>0, <3>1, <3>3, <3>4 DEF Solo, SoloRuns, SoloFinalizations, SoloRows
  <2>. QED BY <2>0, <2>1, <2>2 DEF Solo
<1>2. ASSUME NEW p \in Procs, NEW n \in OrderIds, NEW a, PostChallenge(p, n, a)
      PROVE  Solo(o)'
  <2>0. /\ UNCHANGED <<orderStatus, authzStatus, orderCert, claims>>
        /\ \A q \in Procs \ {p} : task'[q] = task[q]
    BY <1>2, BecomeEffect DEF PostChallenge, rows
  <2>1. CASE n # o
    <3>1. task'[p].order = n
      BY <1>2, AtType, BecomeEffect DEF PostChallenge, RoutePcs, RunPcs
    <3>2. posts'[o] = posts[o]
      BY <1>2, <2>1 DEF PostChallenge, TypeOK
    <3>3. Spared(o)
      BY <2>0, <2>1, <3>1, <3>2 DEF Spared
    <3>. QED BY <1>0, <3>3, SoloSpared
  <2>2. CASE n = o
    <3>1. posts'[o] = posts[o] + 1
      BY <1>2, <2>2 DEF PostChallenge, TypeOK
    <3>2. CASE posts[o] = 0
      <4>1. authzStatus[o] = "pending" /\ orderStatus[o] = "pending" /\ claims[o] = 0 /\ orderCert[o] = 0
        BY <1>0, <1>2, <2>2, <3>2 DEF PostChallenge, Solo, SoloRows
      <4>2. \A q \in Procs : ~Running(q, o) /\ ~Finalizing(q, o)
        BY <1>0, <3>2, <4>1 DEF Solo, SoloRuns, SoloFinalizations
      <4>3. task'[p] = At("ack_commit", o)
        BY <1>2, <2>2, <4>1, BecomeEffect DEF PostChallenge
      <4>4. task'[p].pc = "ack_commit"
        BY <4>3 DEF At, Idle
      <4>5. \A q \in Procs : (Running(q, o)' => q = p) /\ ~Finalizing(q, o)'
        BY <2>0, <4>2, <4>4 DEF Running, Finalizing, FinalizePcs
      <4>6. SoloRuns(o)'
        BY <2>0, <3>1, <3>2, <4>1, <4>4, <4>5 DEF SoloRuns
      <4>. QED BY <2>0, <4>1, <4>5, <4>6 DEF Solo, SoloFinalizations, SoloRows
    <3>3. CASE posts[o] # 0
      BY <1>0, <3>1, <3>3 DEF Solo
    <3>. QED BY <3>2, <3>3
  <2>. QED BY <2>1, <2>2
<1>3. ASSUME NEW p \in Procs, NEW n \in OrderIds, NEW a, PostFinalize(p, n, a)
      PROVE  Solo(o)'
  <2>0. task'[p] = At("fin_claim", n) /\ \A q \in Procs \ {p} : task'[q] = task[q]
    BY <1>3, BecomeEffect DEF PostFinalize
  <2>1. task'[p].pc = "fin_claim"
    BY <2>0 DEF At, Idle
  <2>2. Spared(o)
    BY <1>3, <2>0, <2>1 DEF PostFinalize, Spared, rows, ghosts
  <2>. QED BY <1>0, <2>2, SoloSpared
<1>4. ASSUME NEW p \in Procs, TaskStep(p) PROVE Solo(o)'
  BY <1>0, <1>4, SoloTask, OthersSpared, SoloSpared
<1>5. ASSUME NEW p \in Procs, DbError(p) PROVE Solo(o)'
  <2>1. Spared(o)
    BY <1>5, IdleType, BecomeEffect DEF DbError, Finish, Spared, rows, ghosts
  <2>. QED BY <1>0, <2>1, SoloSpared
<1>6. CASE Restart
  <2>1. \A q \in Procs : task'[q].pc = "idle"
    BY <1>6, IdleType DEF Restart
  <2>2. \A q \in Procs : ~Running(q, o)' /\ ~Finalizing(q, o)'
    BY <2>1 DEF Running, Finalizing, RunPcs, FinalizePcs
  <2>3. /\ UNCHANGED <<posts, claims, orderCert>>
        /\ orderStatus'[o] = IF orderStatus[o] = "processing" THEN "invalid" ELSE orderStatus[o]
        /\ authzStatus'[o] = IF authzStatus[o] = "processing" THEN "invalid" ELSE authzStatus[o]
    BY <1>6 DEF Restart, ghosts
  <2>. QED BY <1>0, <2>2, <2>3 DEF Solo, SoloRuns, SoloFinalizations, SoloRows
<1>7. CASE UNCHANGED vars
  <2>1. Spared(o)
    BY <1>7 DEF vars, Spared
  <2>. QED BY <1>0, <2>1, SoloSpared
<1>. QED BY <1>1, <1>2, <1>3, <1>4, <1>5, <1>6, <1>7 DEF Next, Client

LEMMA SoloInit == Init => SoloInv
BY DEF Init, SoloInv, Solo, SoloRuns, SoloFinalizations, SoloRows, Running, Finalizing, Idle, RunPcs, FinalizePcs

(* A step that moves the promise of one order only.                        *)
LEMMA OneOrderMoves ==
    ASSUME NEW o \in OrderIds,
           \A n \in OrderIds \ {o} : PhaseOf(n)' = PhaseOf(n) /\ CertOf(n)' = CertOf(n),
           \/ PhaseOf(o)' = PhaseOf(o) /\ CertOf(o)' = CertOf(o)
           \/ PhaseOf(o)' \in Lifecycle!Forward[PhaseOf(o)] /\ CertOf(o)' = CertOf(o)
           \/ PhaseOf(o) = "issuing" /\ PhaseOf(o)' = "valid" /\ CertOf(o)' = 1
           \/ PhaseOf(o) \in {"pending", "validating"} /\ PhaseOf(o)' = "forfeited" /\ CertOf(o)' = CertOf(o)
    PROVE  [Lifecycle!LifecycleNext]_(Lifecycle!lifecycleVars)
<1> DEFINE ph == [n \in OrderIds |-> PhaseOf(n)]
           ct == [n \in OrderIds |-> CertOf(n)]
<1>1. ph' = [ph EXCEPT ![o] = PhaseOf(o)'] /\ ct' = [ct EXCEPT ![o] = CertOf(o)']
  OBVIOUS
<1>2. CASE PhaseOf(o)' = PhaseOf(o) /\ CertOf(o)' = CertOf(o)
  <2>1. ph' = ph /\ ct' = ct
    BY <1>2
  <2>. QED BY <2>1 DEF Lifecycle!lifecycleVars
<1>3. CASE PhaseOf(o)' \in Lifecycle!Forward[PhaseOf(o)] /\ CertOf(o)' = CertOf(o)
  <2>1. ct' = ct /\ ph[o] = PhaseOf(o)
    BY <1>3
  <2>2. Lifecycle!Advance(o)
    BY <1>1, <1>3, <2>1 DEF Lifecycle!Advance
  <2>. QED BY <2>2 DEF Lifecycle!LifecycleNext
<1>4. CASE PhaseOf(o) = "issuing" /\ PhaseOf(o)' = "valid" /\ CertOf(o)' = 1
  <2>1. Lifecycle!Issue(o)
    BY <1>1, <1>4 DEF Lifecycle!Issue
  <2>. QED BY <2>1 DEF Lifecycle!LifecycleNext
<1>5. CASE PhaseOf(o) \in {"pending", "validating"} /\ PhaseOf(o)' = "forfeited" /\ CertOf(o)' = CertOf(o)
  <2>1. ct' = ct
    BY <1>5
  <2>2. Lifecycle!Forfeit(o)
    BY <1>1, <1>5, <2>1 DEF Lifecycle!Forfeit
  <2>. QED BY <2>2 DEF Lifecycle!LifecycleNext
<1>. QED BY <1>2, <1>3, <1>4, <1>5

LEMMA SparedKeepsPromise ==
    ASSUME NEW o, Spared(o) PROVE PhaseOf(o)' = PhaseOf(o) /\ CertOf(o)' = CertOf(o)
BY DEF Spared, PhaseOf, CertOf

(* A step of a task moves its order's promise forward, or not at all.      *)
LEMMA TaskRefines ==
    ASSUME NEW p \in Procs, NEW o \in OrderIds, TypeOK, SoloInv, TaskStep(p), task[p].order = o
    PROVE  [Lifecycle!LifecycleNext]_(Lifecycle!lifecycleVars)
<1>a. \A n \in OrderIds \ {o} : PhaseOf(n)' = PhaseOf(n) /\ CertOf(n)' = CertOf(n)
  BY OthersSpared, SparedKeepsPromise
<1>b. posts' = posts /\ Solo(o) /\ posts[o] \in Nat
  BY DEF TaskStep, AckCommit, RcStart, RcFetch, RcLoadAuthz, RcLoadOrder, RcCheck, RcCommit, FinClaim,
         PfStart, PfSign, PfLoad, PfStore, PfCommit, ghosts, SoloInv, TypeOK
<1>c. CASE posts[o] > 1
  <2>1. PhaseOf(o)' = PhaseOf(o) /\ CertOf(o)' = CertOf(o)
    BY <1>b, <1>c DEF PhaseOf, CertOf
  <2>. QED BY <1>a, <2>1, OneOrderMoves
<1>d. CASE UNCHANGED <<orderStatus, orderCert, claims>>
  <2>1. PhaseOf(o)' = PhaseOf(o) /\ CertOf(o)' = CertOf(o)
    BY <1>b, <1>d DEF PhaseOf, CertOf
  <2>. QED BY <1>a, <2>1, OneOrderMoves
<1> SUFFICES ASSUME posts[o] <= 1 PROVE [Lifecycle!LifecycleNext]_(Lifecycle!lifecycleVars)
  BY <1>b, <1>c
<1>1. CASE AckCommit(p)
  <2>1. Running(p, o) /\ task[p].pc = "ack_commit"
    BY <1>1 DEF AckCommit, Is, Running
  <2>2. orderStatus[o] = "pending" /\ claims[o] = 0
    BY <1>b, <2>1 DEF Solo, SoloRuns
  <2>3. orderStatus'[o] = "processing" /\ claims' = claims /\ orderCert' = orderCert
    BY <1>1, <2>2 DEF AckCommit, ghosts, TypeOK
  <2>4. PhaseOf(o) = "pending" /\ PhaseOf(o)' = "validating" /\ CertOf(o)' = CertOf(o)
    BY <1>b, <2>2, <2>3 DEF PhaseOf, CertOf
  <2>. QED BY <1>a, <2>4, OneOrderMoves DEF Lifecycle!Forward
<1>2. CASE RcCommit(p)
  <2>1. Running(p, o) /\ task[p].pc = "rc_commit"
    BY <1>2 DEF RcCommit, Is, Running, RunPcs
  <2>2. orderStatus[o] = "processing" /\ claims[o] = 0 /\ task[p].seenOrder = "processing"
    BY <1>b, <2>1 DEF Solo, SoloRuns
  <2>3. orderStatus'[o] \in {"ready", "invalid"} /\ claims' = claims /\ orderCert' = orderCert
    BY <1>2, <2>2 DEF RcCommit, ghosts, TypeOK
  <2>4. PhaseOf(o) = "validating" /\ PhaseOf(o)' \in {"ready", "invalid"} /\ CertOf(o)' = CertOf(o)
    BY <1>b, <2>2, <2>3 DEF PhaseOf, CertOf
  <2>. QED BY <1>a, <2>4, OneOrderMoves DEF Lifecycle!Forward
<1>3. CASE FinClaim(p)
  <2>1. CASE orderStatus[o] = "ready"
    <3>1. claims[o] = 0
      BY <1>b, <2>1 DEF Solo, SoloRows
    <3>2. orderStatus'[o] = "processing" /\ claims'[o] = 1 /\ orderCert' = orderCert
      BY <1>3, <2>1, <3>1 DEF FinClaim, TypeOK
    <3>3. PhaseOf(o) = "ready" /\ PhaseOf(o)' = "issuing" /\ CertOf(o)' = CertOf(o)
      BY <1>b, <2>1, <3>2 DEF PhaseOf, CertOf
    <3>. QED BY <1>a, <3>3, OneOrderMoves DEF Lifecycle!Forward
  <2>2. CASE orderStatus[o] # "ready"
    BY <1>3, <1>d, <2>2 DEF FinClaim
  <2>. QED BY <2>1, <2>2
<1>4. CASE PfCommit(p)
  <2>1. Finalizing(p, o) /\ task[p].pc = "pf_commit"
    BY <1>4 DEF PfCommit, Is, Finalizing, FinalizePcs
  <2>2. orderStatus[o] = "processing" /\ claims[o] = 1 /\ task[p].claim = 1 /\ task[p].seenOrder = "processing"
    BY <1>b, <2>1 DEF Solo, SoloFinalizations
  <2>3. CASE task[p].ok
    <3>1. orderStatus'[o] = "valid" /\ orderCert'[o] = 1
      BY <1>4, <2>2, <2>3 DEF PfCommit, TypeOK
    <3>2. PhaseOf(o) = "issuing" /\ PhaseOf(o)' = "valid" /\ CertOf(o)' = 1
      BY <1>b, <2>2, <3>1 DEF PhaseOf, CertOf
    <3>. QED BY <1>a, <3>2, OneOrderMoves
  <2>4. CASE ~task[p].ok
    <3>1. orderStatus'[o] = "invalid" /\ orderCert'[o] = orderCert[o]
      BY <1>4, <2>2, <2>4 DEF PfCommit, TypeOK
    <3>2. PhaseOf(o) = "issuing" /\ PhaseOf(o)' = "invalid" /\ CertOf(o)' = CertOf(o)
      BY <1>b, <2>2, <3>1 DEF PhaseOf, CertOf
    <3>. QED BY <1>a, <3>2, OneOrderMoves DEF Lifecycle!Forward
  <2>. QED BY <2>3, <2>4
<1>5. ASSUME \/ RcStart(p) \/ (\E validated \in BOOLEAN : RcFetch(p, validated))
             \/ RcLoadAuthz(p) \/ RcLoadOrder(p) \/ RcCheck(p)
             \/ PfStart(p) \/ (\E issued \in BOOLEAN : PfSign(p, issued)) \/ PfLoad(p) \/ PfStore(p)
      PROVE  UNCHANGED <<orderStatus, orderCert, claims>>
  BY <1>5 DEF RcStart, RcFetch, RcLoadAuthz, RcLoadOrder, RcCheck, PfStart, PfSign, PfLoad, PfStore, rows, ghosts
<1>. QED BY <1>1, <1>2, <1>3, <1>4, <1>5, <1>d DEF TaskStep

LEMMA StepRefines ==
    TypeOK /\ SoloInv /\ [Next]_vars => [Lifecycle!LifecycleNext]_(Lifecycle!lifecycleVars)
<1> SUFFICES ASSUME TypeOK, SoloInv, [Next]_vars
             PROVE  [Lifecycle!LifecycleNext]_(Lifecycle!lifecycleVars)
  OBVIOUS
<1>1. ASSUME NEW o \in OrderIds, NEW a \in Accounts \union {NoAccount}, NewOrder(o, a)
      PROVE  [Lifecycle!LifecycleNext]_(Lifecycle!lifecycleVars)
  <2>0. UNCHANGED <<posts, claims, orderCert>>
    BY <1>1 DEF NewOrder, ghosts
  <2>1. \A n \in OrderIds \ {o} : PhaseOf(n)' = PhaseOf(n) /\ CertOf(n)' = CertOf(n)
    BY <1>1, <2>0 DEF NewOrder, PhaseOf, CertOf, TypeOK
  <2>2. orderStatus[o] = "absent" /\ orderStatus'[o] = "pending"
    BY <1>1 DEF NewOrder, TypeOK
  <2>3. CASE posts[o] > 1
    BY <2>0, <2>1, <2>3, OneOrderMoves DEF PhaseOf, CertOf
  <2>4. CASE ~(posts[o] > 1)
    <3>1. PhaseOf(o) = "absent" /\ PhaseOf(o)' = "pending" /\ CertOf(o)' = CertOf(o)
      BY <2>0, <2>2, <2>4 DEF PhaseOf, CertOf
    <3>. QED BY <2>1, <3>1, OneOrderMoves DEF Lifecycle!Forward
  <2>. QED BY <2>3, <2>4
<1>2. ASSUME NEW p \in Procs, NEW o \in OrderIds, NEW a, PostChallenge(p, o, a)
      PROVE  [Lifecycle!LifecycleNext]_(Lifecycle!lifecycleVars)
  <2>0. UNCHANGED <<orderStatus, claims, orderCert>> /\ posts[o] \in Nat /\ Solo(o)
    BY <1>2 DEF PostChallenge, rows, TypeOK, SoloInv
  <2>1. posts'[o] = posts[o] + 1 /\ \A n \in OrderIds \ {o} : posts'[n] = posts[n]
    BY <1>2 DEF PostChallenge, TypeOK
  <2>2. \A n \in OrderIds \ {o} : PhaseOf(n)' = PhaseOf(n) /\ CertOf(n)' = CertOf(n)
    BY <2>0, <2>1 DEF PhaseOf, CertOf
  <2>3. CASE posts[o] = 1
    <3>1. orderStatus[o] = "pending" \/ (orderStatus[o] = "processing" /\ claims[o] = 0)
      BY <1>2, <2>0, <2>3 DEF PostChallenge, Solo, SoloRows
    <3>2. orderCert[o] = 0
      BY <2>0, <2>3, <3>1 DEF Solo, SoloRows
    <3>3. /\ PhaseOf(o) \in {"pending", "validating"} /\ PhaseOf(o)' = "forfeited"
          /\ CertOf(o)' = CertOf(o)
      BY <2>0, <2>1, <2>3, <3>1, <3>2 DEF PhaseOf, CertOf
    <3>. QED BY <2>2, <3>3, OneOrderMoves
  <2>4. CASE posts[o] # 1
    <3>1. PhaseOf(o)' = PhaseOf(o) /\ CertOf(o)' = CertOf(o)
      BY <2>0, <2>1, <2>4 DEF PhaseOf, CertOf
    <3>. QED BY <2>2, <3>1, OneOrderMoves
  <2>. QED BY <2>3, <2>4
<1>3. ASSUME UNCHANGED <<orderStatus, orderCert, claims, posts>>
      PROVE  [Lifecycle!LifecycleNext]_(Lifecycle!lifecycleVars)
  <2>1. \A n \in OrderIds : PhaseOf(n)' = PhaseOf(n) /\ CertOf(n)' = CertOf(n)
    BY <1>3 DEF PhaseOf, CertOf
  <2>. QED BY <2>1 DEF Lifecycle!lifecycleVars
<1>4. CASE Restart
  <2>1. /\ UNCHANGED <<orderCert, claims, posts>>
        /\ \A o \in OrderIds : orderStatus'[o] = IF orderStatus[o] = "processing" THEN "invalid" ELSE orderStatus[o]
    BY <1>4 DEF Restart, ghosts
  <2>2. \A o \in OrderIds : CertOf(o)' = CertOf(o)
    BY <2>1 DEF CertOf
  <2>3. \A o \in OrderIds : PhaseOf(o)' = IF PhaseOf(o) \in {"validating", "issuing"} THEN "invalid" ELSE PhaseOf(o)
    BY <2>1 DEF PhaseOf, TypeOK, Statuses
  <2>4. Lifecycle!Abandon
    BY <2>2, <2>3 DEF Lifecycle!Abandon
  <2>. QED BY <2>4 DEF Lifecycle!LifecycleNext
<1>5. ASSUME NEW p \in Procs, TaskStep(p)
      PROVE  [Lifecycle!LifecycleNext]_(Lifecycle!lifecycleVars)
  <2>1. task[p].order \in OrderIds
    BY <1>5 DEF TaskStep, AckCommit, RcStart, RcFetch, RcLoadAuthz, RcLoadOrder, RcCheck, RcCommit, FinClaim,
                PfStart, PfSign, PfLoad, PfStore, PfCommit, Is, TypeOK, TasksOK
  <2>2. PICK o \in OrderIds : task[p].order = o
    BY <2>1
  <2>. QED BY <1>5, <2>2, TaskRefines
<1>. QED BY <1>1, <1>2, <1>3, <1>4, <1>5 DEF Next, Client, PostFinalize, DbError, rows, ghosts, vars

(* The routes, the worker and the start-up sweep implement the promised    *)
(* life cycle of an order, for every number of orders and requests, with   *)
(* failing statements and restarts at any moment.                          *)
THEOREM OrdersImplementLifecycle == Spec => ImplementsLifecycle
<1>1. Init => Lifecycle!LifecycleInit
  BY DEF Init, Lifecycle!LifecycleInit, PhaseOf, CertOf
<1>. QED BY <1>1, TypeCorrect, SoloInit, SoloStep, StepRefines, PTL
         DEF Spec, ImplementsLifecycle, Lifecycle!LifecycleSpec
-------------------------------------------------------------------------------
(* Why a claim yields one certificate.  Claims are numbered as they are    *)
(* won, the number goes to the one task that won it, and the certificate   *)
(* is stored under that number by that task only.                          *)
ClaimsInRange ==
    \A q \in Procs : task[q].pc \in FinalizePcs => task[q].claim \in 1..claims[task[q].order]

DistinctClaims ==
    \A p, q \in Procs :
        /\ task[p].pc \in FinalizePcs /\ task[q].pc \in FinalizePcs
        /\ task[p].order = task[q].order /\ task[p].claim = task[q].claim
        => p = q

CertsOfClaims == \A o \in OrderIds : certs[o] \subseteq 1..claims[o]

UnstoredYet ==
    \A q \in Procs : task[q].pc \in FinalizePcs \ {"pf_commit"} =>
        task[q].claim \notin certs[task[q].order]

NamedIsStored == \A o \in OrderIds : orderCert[o] # 0 => orderCert[o] \in certs[o]

ClaimInv == ClaimsInRange /\ DistinctClaims /\ CertsOfClaims /\ UnstoredYet /\ NamedIsStored

(* A step that wins no claim and stores or names no certificate.           *)
ClaimsQuiet ==
    /\ UNCHANGED <<claims, certs, orderCert>>
    /\ \A q \in Procs : task'[q].pc \in FinalizePcs =>
          /\ task[q].pc \in FinalizePcs
          /\ task'[q].order = task[q].order /\ task'[q].claim = task[q].claim
          /\ task'[q].pc # "pf_commit" => task[q].pc # "pf_commit"

LEMMA ClaimsUntouched ==
    ASSUME ClaimInv, ClaimsQuiet
    PROVE  ClaimInv'
BY DEF ClaimInv, ClaimsQuiet, ClaimsInRange, DistinctClaims, CertsOfClaims, UnstoredYet, NamedIsStored

LEMMA ClaimStep == TypeOK /\ PublishedIsStored /\ ClaimInv /\ [Next]_vars => ClaimInv'
<1> SUFFICES ASSUME TypeOK, PublishedIsStored, ClaimInv, [Next]_vars PROVE ClaimInv'
  OBVIOUS
<1>1. ASSUME NEW o \in OrderIds, NEW a \in Accounts \union {NoAccount}, NewOrder(o, a)
      PROVE  ClaimInv'
  BY <1>1, ClaimsUntouched DEF NewOrder, ghosts, TypeOK, TasksOK, Task, Is, ClaimsQuiet, FinalizePcs
<1>2. ASSUME NEW p \in Procs, NEW o \in OrderIds, NEW a, PostChallenge(p, o, a)
      PROVE  ClaimInv'
  BY <1>2, ClaimsUntouched DEF PostChallenge, Become, At, Idle, rows, TypeOK, TasksOK, Task, Is, ClaimsQuiet, FinalizePcs
<1>3. ASSUME NEW p \in Procs, NEW o \in OrderIds, NEW a, PostFinalize(p, o, a)
      PROVE  ClaimInv'
  BY <1>3, ClaimsUntouched DEF PostFinalize, Become, At, Idle, rows, ghosts, TypeOK, TasksOK, Task, Is, ClaimsQuiet, FinalizePcs
<1>4. ASSUME NEW p \in Procs, TaskStep(p)
      PROVE  ClaimInv'
  <2>1. CASE AckCommit(p)
    BY <2>1, ClaimsUntouched DEF AckCommit, Goto, Become, ghosts, TypeOK, TasksOK, Task, Is, ClaimsQuiet, FinalizePcs
  <2>2. CASE RcStart(p)
    BY <2>2, ClaimsUntouched DEF RcStart, Goto, Become, rows, ghosts, TypeOK, TasksOK, Task, Is, ClaimsQuiet, FinalizePcs
  <2>3. ASSUME NEW validated \in BOOLEAN, RcFetch(p, validated) PROVE ClaimInv'
    BY <2>3, ClaimsUntouched DEF RcFetch, Become, rows, TypeOK, TasksOK, Task, Is, ClaimsQuiet, FinalizePcs
  <2>4. CASE RcLoadAuthz(p)
    BY <2>4, ClaimsUntouched DEF RcLoadAuthz, Become, rows, ghosts, TypeOK, TasksOK, Task, Is, ClaimsQuiet, FinalizePcs
  <2>5. CASE RcLoadOrder(p)
    BY <2>5, ClaimsUntouched DEF RcLoadOrder, Become, rows, ghosts, TypeOK, TasksOK, Task, Is, ClaimsQuiet, FinalizePcs
  <2>6. CASE RcCheck(p)
    <3>1. CASE authzStatus[task[p].order] = "valid"
      BY <2>6, <3>1, ClaimsUntouched DEF RcCheck, Goto, Become, rows, ghosts, TypeOK, TasksOK, Task, Is, ClaimsQuiet, FinalizePcs
    <3>2. CASE authzStatus[task[p].order] # "valid"
      BY <2>6, <3>2, ClaimsUntouched DEF RcCheck, Finish, Become, Idle, rows, ghosts, TypeOK, TasksOK, Task, Is, ClaimsQuiet, FinalizePcs
    <3>. QED BY <3>1, <3>2
  <2>7. CASE RcCommit(p)
    BY <2>7, ClaimsUntouched DEF RcCommit, Finish, Become, Idle, ghosts, TypeOK, TasksOK, Task, Is, ClaimsQuiet, FinalizePcs
  <2>8. CASE FinClaim(p)
    <3>1. CASE orderStatus[task[p].order] = "ready"
      <4> DEFINE o == task[p].order
                 n == claims[o] + 1
      <4>1. o \in OrderIds /\ claims[o] \in Nat
        BY <2>8 DEF FinClaim, TypeOK, TasksOK, Is
      <4>2. /\ task'[p].pc = "pf_start" /\ task'[p].order = o
            /\ \A q \in Procs \ {p} : task'[q] = task[q]
        BY <2>8, <3>1, ClaimEffect
      <4>3. task'[p].claim = n
        <5>1. task' = [task EXCEPT ![p] = [task[p] EXCEPT !.pc = "pf_start", !.claim = n]]
          BY <2>8, <3>1 DEF FinClaim, Become
        <5> HIDE DEF n
        <5>. QED BY <5>1 DEF TypeOK, TasksOK, Task
      <4>4. /\ claims'[o] = n /\ \A m \in OrderIds \ {o} : claims'[m] = claims[m]
            /\ UNCHANGED <<certs, orderCert>>
        BY <2>8, <3>1, <4>1 DEF FinClaim, TypeOK
      <4>5. n \notin 1..claims[o] /\ n \in 1..n /\ 1..claims[o] \subseteq 1..n
        BY <4>1
      <4> HIDE DEF n, o
      <4>6. \A q \in Procs \ {p} : task[q].pc \in FinalizePcs => task[q].order \in OrderIds
        BY DEF TypeOK, TasksOK, Is, FinalizePcs
      <4>7. ClaimsInRange' /\ CertsOfClaims' /\ NamedIsStored'
        BY <4>1, <4>2, <4>3, <4>4, <4>5, <4>6 DEF ClaimInv, ClaimsInRange, CertsOfClaims, NamedIsStored
      <4>8. DistinctClaims'
        BY <4>1, <4>2, <4>3, <4>4, <4>5 DEF ClaimInv, ClaimsInRange, DistinctClaims
      <4>9. UnstoredYet'
        BY <4>1, <4>2, <4>3, <4>4, <4>5 DEF ClaimInv, CertsOfClaims, UnstoredYet
      <4>. QED BY <4>7, <4>8, <4>9 DEF ClaimInv
    <3>2. CASE orderStatus[task[p].order] # "ready"
      BY <2>8, <3>2, ClaimsUntouched DEF FinClaim, Finish, Become, Idle, TypeOK, TasksOK, Task, Is, ClaimsQuiet, FinalizePcs
    <3>. QED BY <3>1, <3>2
  <2>9. CASE PfStart(p)
    BY <2>9, ClaimsUntouched DEF PfStart, Goto, Become, rows, ghosts, TypeOK, TasksOK, Task, Is, ClaimsQuiet, FinalizePcs
  <2>10. ASSUME NEW issued \in BOOLEAN, PfSign(p, issued) PROVE ClaimInv'
    BY <2>10, ClaimsUntouched DEF PfSign, Become, rows, ghosts, TypeOK, TasksOK, Task, Is, ClaimsQuiet, FinalizePcs
  <2>11. CASE PfLoad(p)
    BY <2>11, ClaimsUntouched DEF PfLoad, Become, rows, ghosts, TypeOK, TasksOK, Task, Is, ClaimsQuiet, FinalizePcs
  <2>12. CASE PfStore(p)
    <3> DEFINE o == task[p].order
    <3>1. o \in OrderIds /\ task[p].pc = "pf_store"
      BY <2>12 DEF PfStore, TypeOK, TasksOK, Is
    <3>2. /\ task'[p].pc = "pf_commit" /\ task'[p].order = o /\ task'[p].claim = task[p].claim
          /\ \A q \in Procs \ {p} : task'[q] = task[q]
      BY <2>12 DEF PfStore, Goto, Become, TypeOK, TasksOK, Task
    <3>3. /\ certs'[o] = certs[o] \union {task[p].claim}
          /\ \A m \in OrderIds \ {o} : certs'[m] = certs[m]
          /\ UNCHANGED <<claims, orderCert>>
      BY <2>12, <3>1 DEF PfStore, ghosts, TypeOK
    <3> HIDE DEF o
    <3>4. \A q \in Procs \ {p} : task[q].pc \in FinalizePcs => task[q].order \in OrderIds
      BY DEF TypeOK, TasksOK, Is, FinalizePcs
    <3>5. ClaimsInRange' /\ DistinctClaims'
      BY <3>1, <3>2, <3>3 DEF ClaimInv, ClaimsInRange, DistinctClaims, FinalizePcs, o
    <3>6. CertsOfClaims' /\ NamedIsStored'
      BY <3>1, <3>3 DEF ClaimInv, ClaimsInRange, CertsOfClaims, NamedIsStored, FinalizePcs, o
    <3>7. UnstoredYet'
      BY <3>1, <3>2, <3>3, <3>4 DEF ClaimInv, UnstoredYet, DistinctClaims, FinalizePcs, o
    <3>. QED BY <3>5, <3>6, <3>7 DEF ClaimInv
  <2>13. CASE PfCommit(p)
    <3>1. /\ task'[p].pc = "idle" /\ \A q \in Procs \ {p} : task'[q] = task[q]
          /\ UNCHANGED <<claims, certs>>
      BY <2>13, IdleType, BecomeEffect DEF PfCommit, Finish, ghosts
    <3>2. ClaimsInRange' /\ DistinctClaims' /\ CertsOfClaims' /\ UnstoredYet'
      BY <3>1 DEF ClaimInv, ClaimsInRange, DistinctClaims, CertsOfClaims, UnstoredYet, FinalizePcs
    <3>3. NamedIsStored'
      BY <2>13, <3>1 DEF PfCommit, ClaimInv, NamedIsStored, PublishedIsStored, TypeOK, TasksOK, Is
    <3>. QED BY <3>2, <3>3 DEF ClaimInv
  <2>. QED BY <1>4, <2>1, <2>2, <2>3, <2>4, <2>5, <2>6, <2>7, <2>8, <2>9, <2>10, <2>11, <2>12, <2>13 DEF TaskStep
<1>5. ASSUME NEW p \in Procs, DbError(p) PROVE ClaimInv'
  BY <1>5, ClaimsUntouched DEF DbError, Finish, Become, Idle, rows, ghosts, TypeOK, TasksOK, Task, Is, ClaimsQuiet, FinalizePcs
<1>6. CASE Restart
  BY <1>6, ClaimsUntouched DEF Restart, Idle, ghosts, TypeOK, TasksOK, Task, Is, ClaimsQuiet, FinalizePcs
<1>7. CASE UNCHANGED vars
  BY <1>7, ClaimsUntouched DEF vars, TypeOK, TasksOK, Task, Is, ClaimsQuiet, FinalizePcs
<1>. QED BY <1>1, <1>2, <1>3, <1>4, <1>5, <1>6, <1>7 DEF Next, Client


LEMMA ClaimInvariant == Spec => [](ClaimInv /\ PublishedIsStored)
<1>1. Init => ClaimInv /\ CertInv
  BY DEF Init, ClaimInv, ClaimsInRange, DistinctClaims, CertsOfClaims, UnstoredYet, NamedIsStored, Idle,
     FinalizePcs, CertInv, ValidHasCert, PublishedIsStored, Is
<1>2. CertInv => PublishedIsStored
  BY DEF CertInv
<1>. QED BY <1>1, <1>2, TypeCorrect, CertStep, ClaimStep, PTL DEF Spec

(* However requests, retries and restarts interleave, no two tasks work    *)
(* for the same claim and no claim is stored twice.                        *)
THEOREM ClaimsWorkedOnce == Spec => []OneTaskPerClaim
<1>1. ClaimInv => OneTaskPerClaim
  BY DEF ClaimInv, DistinctClaims, UnstoredYet, OneTaskPerClaim, Is, FinalizePcs
<1>. QED BY <1>1, ClaimInvariant, PTL

(* A certificate that an order has named can be downloaded ever after.     *)
THEOREM CertsStayReachable == Spec => CertStaysReachable
<1> DEFINE Stays == \A o \in OrderIds :
                       orderCert[o] # 0 => orderCert[o] \in certs'[o] /\ orderCert'[o] # 0
<1>1. ASSUME TypeOK, ClaimInv, [Next]_vars PROVE Stays
  <2>1. \A o \in OrderIds : certs[o] \subseteq certs'[o]
    <3>1. ASSUME NEW p \in Procs, PfStore(p) PROVE \A o \in OrderIds : certs[o] \subseteq certs'[o]
      BY <1>1, <3>1 DEF PfStore, TypeOK
    <3>2. ASSUME ~ \E p \in Procs : PfStore(p) PROVE UNCHANGED certs
      BY <1>1, <3>2 DEF Next, Client, TaskStep, vars, rows, NewOrder, PostChallenge, PostFinalize, AckCommit,
         RcStart, RcFetch, RcLoadAuthz, RcLoadOrder, RcCheck, RcCommit, FinClaim, PfStart, PfSign, PfLoad,
         PfCommit, DbError, Restart
    <3>. QED BY <3>1, <3>2
  <2>2. ASSUME NEW p \in Procs, PfCommit(p), NEW o \in OrderIds, orderCert[o] # 0 PROVE orderCert'[o] # 0
    <3>1. task[p].order \in OrderIds /\ task[p].claim \in 1..claims[task[p].order]
          /\ claims[task[p].order] \in Nat
      BY <1>1, <2>2 DEF PfCommit, ClaimInv, ClaimsInRange, FinalizePcs, TypeOK, TasksOK, Is
    <3>2. task[p].claim # 0
      BY <3>1
    <3>. QED BY <1>1, <2>2, <3>2 DEF PfCommit, TypeOK
  <2>3. ASSUME ~ \E p \in Procs : PfCommit(p) PROVE UNCHANGED orderCert
    BY <1>1, <2>3 DEF Next, Client, TaskStep, vars, rows, NewOrder, PostChallenge, PostFinalize, AckCommit,
       RcStart, RcFetch, RcLoadAuthz, RcLoadOrder, RcCheck, RcCommit, FinClaim, PfStart, PfSign, PfLoad,
       PfStore, DbError, Restart
  <2>. QED BY <1>1, <2>1, <2>2, <2>3 DEF ClaimInv, NamedIsStored
<1>2. TypeOK /\ ClaimInv /\ [Next]_vars => [Stays]_vars
  BY <1>1
<1>. QED BY <1>2, TypeCorrect, ClaimInvariant, PTL DEF Spec, CertStaysReachable

-------------------------------------------------------------------------------
(* Why no order is validated more often than its challenge was             *)
(* acknowledged: an accepted POST opens one run, which fetches once.       *)
OpenPcs == {"ack_commit", "rc_start", "rc_fetch"}
Open(o) == {q \in Procs : task[q].order = o /\ task[q].pc \in OpenPcs}
Tab(o)  == proofs[o] + Cardinality(Open(o)) <= posts[o]
TabInv  == \A o \in OrderIds : Tab(o)

LEMMA OpenFinite ==
    ASSUME NEW o
    PROVE  /\ IsFiniteSet(Open(o)) /\ Cardinality(Open(o)) \in Nat
           /\ IsFiniteSet(Open(o)') /\ Cardinality(Open(o)') \in Nat
BY ConstantsAssumption, FS_Subset, FS_CardinalityType DEF Open

(* A step that opens no run and counts nothing. *)
LEMMA TabKept ==
    ASSUME NEW o \in OrderIds, TypeOK, Tab(o), Open(o)' \subseteq Open(o),
           posts'[o] = posts[o], proofs'[o] = proofs[o]
    PROVE  Tab(o)'
<1>1. Cardinality(Open(o)') <= Cardinality(Open(o))
  BY OpenFinite, FS_Subset
<1>2. Cardinality(Open(o))' = Cardinality(Open(o)')
  OBVIOUS
<1>3. proofs[o] \in Nat /\ posts[o] \in Nat
  BY DEF TypeOK
<1>. QED BY <1>1, <1>2, <1>3, OpenFinite DEF Tab

LEMMA TabStep == TypeOK /\ TypeOK' /\ TabInv /\ [Next]_vars => TabInv'
<1> SUFFICES ASSUME TypeOK, TypeOK', [Next]_vars, NEW o \in OrderIds, Tab(o)
             PROVE  Tab(o)'
  BY DEF TabInv
<1>1. ASSUME NEW n \in OrderIds, NEW a \in Accounts \union {NoAccount}, NewOrder(n, a)
      PROVE  Tab(o)'
  BY <1>1, TabKept DEF NewOrder, ghosts, TypeOK, TasksOK, Task, Is, Open, OpenPcs
<1>2. ASSUME NEW p \in Procs, NEW n \in OrderIds, NEW a, PostChallenge(p, n, a)
      PROVE  Tab(o)'
  <2>1. /\ task[p].pc = "idle" /\ task'[p].order = n /\ task'[p].pc \in OpenPcs
        /\ \A q \in Procs \ {p} : task'[q] = task[q]
    BY <1>2 DEF PostChallenge, Become, At, Idle, TypeOK, TasksOK, Is, OpenPcs
  <2>2. UNCHANGED proofs
    BY <1>2 DEF PostChallenge
  <2>3. CASE n = o
    <3>1. Open(o)' = Open(o) \union {p} /\ p \notin Open(o)
      BY <2>1, <2>3 DEF Open, OpenPcs
    <3>2. Cardinality(Open(o)') = Cardinality(Open(o)) + 1
      BY <3>1, OpenFinite, FS_AddElement
    <3>3. posts'[o] = posts[o] + 1 /\ posts[o] \in Nat /\ proofs[o] \in Nat
      BY <1>2, <2>3 DEF PostChallenge, TypeOK
    <3>4. Cardinality(Open(o))' = Cardinality(Open(o)')
      OBVIOUS
    <3>. QED BY <2>2, <3>2, <3>3, <3>4, OpenFinite DEF Tab
  <2>4. CASE n # o
    <3>1. Open(o)' \subseteq Open(o) /\ posts'[o] = posts[o] /\ proofs'[o] = proofs[o]
      BY <1>2, <2>1, <2>2, <2>4 DEF PostChallenge, Open, TypeOK
    <3>. QED BY <3>1, TabKept
  <2>. QED BY <2>3, <2>4
<1>3. ASSUME NEW p \in Procs, NEW n \in OrderIds, NEW a, PostFinalize(p, n, a)
      PROVE  Tab(o)'
  BY <1>3, TabKept DEF PostFinalize, Become, At, Idle, rows, ghosts, TypeOK, TasksOK, Task, Is, Open, OpenPcs
<1>4. ASSUME NEW p \in Procs, TaskStep(p)
      PROVE  Tab(o)'
  <2>1. CASE AckCommit(p)
    BY <2>1, TabKept DEF AckCommit, Goto, Become, ghosts, TypeOK, TasksOK, Task, Is, Open, OpenPcs
  <2>2. CASE RcStart(p)
    BY <2>2, TabKept DEF RcStart, Goto, Become, rows, ghosts, TypeOK, TasksOK, Task, Is, Open, OpenPcs
  <2>3. ASSUME NEW validated \in BOOLEAN, RcFetch(p, validated) PROVE Tab(o)'
    <3>1. /\ task[p].pc = "rc_fetch" /\ task[p].order \in OrderIds /\ task'[p].pc = "rc_authz"
          /\ \A q \in Procs \ {p} : task'[q] = task[q]
      BY <2>3 DEF RcFetch, Become, TypeOK, TasksOK, Task, Is
    <3>2. UNCHANGED posts
      BY <2>3 DEF RcFetch
    <3>3. CASE task[p].order = o
      <4>1. Open(o)' = Open(o) \ {p} /\ p \in Open(o)
        BY <3>1, <3>3 DEF Open, OpenPcs
      <4>2. Cardinality(Open(o)') = Cardinality(Open(o)) - 1
        BY <4>1, OpenFinite, FS_RemoveElement
      <4>3. proofs'[o] \in {proofs[o], proofs[o] + 1} /\ posts[o] \in Nat /\ proofs[o] \in Nat
        BY <2>3, <3>3 DEF RcFetch, TypeOK
      <4>4. Cardinality(Open(o))' = Cardinality(Open(o)')
        OBVIOUS
      <4>. QED BY <3>2, <4>2, <4>3, <4>4, OpenFinite DEF Tab
    <3>4. CASE task[p].order # o
      <4>1. Open(o)' \subseteq Open(o) /\ posts'[o] = posts[o] /\ proofs'[o] = proofs[o]
        BY <2>3, <3>1, <3>2, <3>4 DEF RcFetch, Open, OpenPcs, TypeOK
      <4>. QED BY <4>1, TabKept
    <3>. QED BY <3>3, <3>4
  <2>4. CASE RcLoadAuthz(p)
    BY <2>4, TabKept DEF RcLoadAuthz, Become, rows, ghosts, TypeOK, TasksOK, Task, Is, Open, OpenPcs
  <2>5. CASE RcLoadOrder(p)
    BY <2>5, TabKept DEF RcLoadOrder, Become, rows, ghosts, TypeOK, TasksOK, Task, Is, Open, OpenPcs
  <2>6. CASE RcCheck(p)
    <3>1. Open(o)' \subseteq Open(o)
      <4>1. CASE authzStatus[task[p].order] = "valid"
        BY <2>6, <4>1 DEF RcCheck, Goto, Become, TypeOK, TasksOK, Task, Open, OpenPcs, Is
      <4>2. CASE authzStatus[task[p].order] # "valid"
        BY <2>6, <4>2 DEF RcCheck, Finish, Become, Idle, TypeOK, TasksOK, Task, Open, OpenPcs
      <4>. QED BY <4>1, <4>2
    <3>2. UNCHANGED <<posts, proofs>>
      BY <2>6 DEF RcCheck, ghosts
    <3>. QED BY <3>1, <3>2, TabKept
  <2>7. CASE RcCommit(p)
    BY <2>7, TabKept DEF RcCommit, Finish, Become, Idle, ghosts, TypeOK, TasksOK, Task, Is, Open, OpenPcs
  <2>8. CASE FinClaim(p)
    <3>1. Open(o)' \subseteq Open(o)
      <4>1. CASE orderStatus[task[p].order] = "ready"
        BY <2>8, <4>1, ClaimEffect DEF Open, OpenPcs
      <4>2. CASE orderStatus[task[p].order] # "ready"
        BY <2>8, <4>2 DEF FinClaim, Finish, Become, Idle, TypeOK, TasksOK, Task, Open, OpenPcs
      <4>. QED BY <4>1, <4>2
    <3>2. UNCHANGED <<posts, proofs>>
      BY <2>8 DEF FinClaim
    <3>. QED BY <3>1, <3>2, TabKept
  <2>9. CASE PfStart(p)
    BY <2>9, TabKept DEF PfStart, Goto, Become, rows, ghosts, TypeOK, TasksOK, Task, Is, Open, OpenPcs
  <2>10. ASSUME NEW issued \in BOOLEAN, PfSign(p, issued) PROVE Tab(o)'
    BY <2>10, TabKept DEF PfSign, Become, rows, ghosts, TypeOK, TasksOK, Task, Is, Open, OpenPcs
  <2>11. CASE PfLoad(p)
    BY <2>11, TabKept DEF PfLoad, Become, rows, ghosts, TypeOK, TasksOK, Task, Is, Open, OpenPcs
  <2>12. CASE PfStore(p)
    BY <2>12, TabKept DEF PfStore, Goto, Become, ghosts, TypeOK, TasksOK, Task, Is, Open, OpenPcs
  <2>13. CASE PfCommit(p)
    BY <2>13, TabKept DEF PfCommit, Finish, Become, Idle, ghosts, TypeOK, TasksOK, Task, Is, Open, OpenPcs
  <2>. QED BY <1>4, <2>1, <2>2, <2>3, <2>4, <2>5, <2>6, <2>7, <2>8, <2>9, <2>10, <2>11, <2>12, <2>13 DEF TaskStep
<1>5. ASSUME NEW p \in Procs, DbError(p) PROVE Tab(o)'
  BY <1>5, TabKept DEF DbError, Finish, Become, Idle, rows, ghosts, TypeOK, TasksOK, Task, Is, Open, OpenPcs
<1>6. CASE Restart
  BY <1>6, TabKept DEF Restart, Idle, ghosts, TypeOK, TasksOK, Task, Is, Open, OpenPcs
<1>7. CASE UNCHANGED vars
  BY <1>7, TabKept DEF vars, TypeOK, TasksOK, Task, Is, Open, OpenPcs
<1>. QED BY <1>1, <1>2, <1>3, <1>4, <1>5, <1>6, <1>7 DEF Next, Client


(* Certificates, claims, proofs and challenge POSTs of an order bound each *)
(* other, in this order, for every number of requests and restarts.        *)
THEOREM CertsWithinBudget == Spec => []CertBudget
<1>1. Init => TabInv
  <2> SUFFICES ASSUME Init, NEW o \in OrderIds PROVE Tab(o)
    BY DEF TabInv
  <2>1. Open(o) = {}
    BY DEF Init, Open, OpenPcs, Idle
  <2>. QED BY <2>1, FS_EmptySet DEF Init, Tab
<1>2. TypeOK /\ TabInv /\ ClaimInv /\ ClaimsBackedByProofs => CertBudget
  <2> SUFFICES ASSUME TypeOK, ClaimInv, ClaimsBackedByProofs, NEW o \in OrderIds, Tab(o)
               PROVE  certs[o] \subseteq 1..claims[o] /\ claims[o] <= proofs[o] /\ proofs[o] <= posts[o]
    BY DEF TabInv, CertBudget
  <2>1. proofs[o] <= posts[o]
    BY OpenFinite DEF Tab, TypeOK
  <2>. QED BY <2>1 DEF ClaimInv, CertsOfClaims, ClaimsBackedByProofs
<1>. QED BY <1>1, <1>2, TypeCorrect, TabStep, ClaimInvariant, EveryClaimIsProved, PTL DEF Spec

(* POSTs are counted up to the bound, and never forgotten. *)
PostsCount == \A o \in OrderIds : posts[o] <= posts'[o] /\ (posts'[o] <= posts[o] \/ posts'[o] <= MaxPosts)

LEMMA PostsOnlyCount == TypeOK /\ [Next]_vars => PostsCount
<1> SUFFICES ASSUME TypeOK, [Next]_vars PROVE PostsCount
  OBVIOUS
<1>1. ASSUME NEW p \in Procs, NEW o \in OrderIds, NEW a, PostChallenge(p, o, a) PROVE PostsCount
  BY <1>1, ConstantsAssumption DEF PostChallenge, TypeOK, PostsCount
<1>2. ASSUME UNCHANGED posts PROVE PostsCount
  BY <1>2 DEF PostsCount, TypeOK
<1>. QED BY <1>1, <1>2 DEF Next, Client, TaskStep, vars, ghosts, NewOrder, PostFinalize, AckCommit,
            RcStart, RcFetch, RcLoadAuthz, RcLoadOrder, RcCheck, RcCommit, FinClaim, PfStart, PfSign, PfLoad,
            PfStore, PfCommit, DbError, Restart

(* finalize_order's "exactly one request" is true of clients that          *)
(* acknowledge a challenge once: it is a second acknowledgement, and       *)
(* nothing else, that can earn an order a second claim.                    *)
THEOREM OneAckOneClaim == ASSUME MaxPosts <= 1 PROVE Spec => []OneClaimPerOrder
<1> DEFINE Bounded == \A o \in OrderIds : posts[o] <= MaxPosts
<1>1. Init => Bounded
  BY ConstantsAssumption DEF Init
<1>2. TypeOK /\ TypeOK' /\ Bounded /\ [Next]_vars => Bounded'
  BY PostsOnlyCount, ConstantsAssumption DEF PostsCount, TypeOK
<1>3. TypeOK /\ Bounded /\ CertBudget => OneClaimPerOrder
  BY ConstantsAssumption DEF TypeOK, CertBudget, OneClaimPerOrder
<1>. QED BY <1>1, <1>2, <1>3, TypeCorrect, CertsWithinBudget, PTL DEF Spec

-------------------------------------------------------------------------------
(* The abstract life cycle has two final phases.                           *)
Stands(o) == PhaseOf(o)' = PhaseOf(o) /\ CertOf(o)' = CertOf(o)

LEMMA FinalPhases ==
    ASSUME [Lifecycle!LifecycleNext]_(Lifecycle!lifecycleVars), NEW o \in OrderIds,
           PhaseOf(o) \in {"valid", "invalid"}
    PROVE  Stands(o)
<1> DEFINE ph == [n \in OrderIds |-> PhaseOf(n)]
           ct == [n \in OrderIds |-> CertOf(n)]
<1>1. ph[o] \in {"valid", "invalid"}
  OBVIOUS
<1>2. ASSUME NEW n \in OrderIds, Lifecycle!Advance(n) PROVE Stands(o)
  <2>1. PICK next \in Lifecycle!Forward[ph[n]] : ph' = [ph EXCEPT ![n] = next]
    BY <1>2 DEF Lifecycle!Advance
  <2>2. n # o
    BY <1>1, <2>1 DEF Lifecycle!Forward
  <2>3. ct' = ct
    BY <1>2 DEF Lifecycle!Advance
  <2>. QED BY <2>1, <2>2, <2>3 DEF Stands
<1>3. ASSUME NEW n \in OrderIds, Lifecycle!Issue(n) PROVE Stands(o)
  <2>1. ph' = [ph EXCEPT ![n] = "valid"] /\ ct' = [ct EXCEPT ![n] = 1] /\ n # o
    BY <1>1, <1>3 DEF Lifecycle!Issue
  <2>. QED BY <2>1 DEF Stands
<1>4. ASSUME NEW n \in OrderIds, Lifecycle!Forfeit(n) PROVE Stands(o)
  <2>1. ph' = [ph EXCEPT ![n] = "forfeited"] /\ ct' = ct /\ n # o
    BY <1>1, <1>4 DEF Lifecycle!Forfeit
  <2>. QED BY <2>1 DEF Stands
<1>5. CASE Lifecycle!Abandon
  BY <1>1, <1>5 DEF Lifecycle!Abandon, Stands
<1>6. CASE UNCHANGED Lifecycle!lifecycleVars
  BY <1>6 DEF Lifecycle!lifecycleVars, Stands
<1>. QED BY <1>2, <1>3, <1>4, <1>5, <1>6 DEF Lifecycle!LifecycleNext

(* A client that acknowledges its challenge once never sees a valid or     *)
(* invalid order change again.                                             *)
THEOREM SettledOrdersAreFinal == Spec => SettledIsFinal
<1> DEFINE Final == \A o \in OrderIds : posts'[o] <= 1 /\ orderStatus[o] \in {"valid", "invalid"} =>
                       orderStatus'[o] = orderStatus[o] /\ orderCert'[o] = orderCert[o]
<1>1. ASSUME TypeOK, TypeOK', SoloInv, [Next]_vars PROVE Final
  <2> SUFFICES ASSUME NEW o \in OrderIds, posts'[o] <= 1, orderStatus[o] \in {"valid", "invalid"}
               PROVE  orderStatus'[o] = orderStatus[o] /\ orderCert'[o] = orderCert[o]
    OBVIOUS
  <2>1. posts[o] <= posts'[o] /\ posts[o] \in Nat /\ posts'[o] \in Nat
    BY <1>1, PostsOnlyCount DEF PostsCount, TypeOK
  <2>2. PhaseOf(o) = orderStatus[o] /\ CertOf(o) = orderCert[o] /\ CertOf(o)' = orderCert'[o]
    BY <2>1 DEF PhaseOf, CertOf
  <2>3. PhaseOf(o)' = PhaseOf(o) /\ CertOf(o)' = CertOf(o)
    BY <1>1, <2>2, StepRefines, FinalPhases DEF Stands
  <2>4. orderStatus'[o] = orderStatus[o]
    BY <2>1, <2>2, <2>3 DEF PhaseOf
  <2>. QED BY <2>2, <2>3, <2>4
<1>2. TypeOK /\ TypeOK' /\ SoloInv /\ [Next]_vars => [Final]_vars
  BY <1>1
<1>. QED BY <1>2, TypeCorrect, SoloInit, SoloStep, PTL DEF Spec, SettledIsFinal

-------------------------------------------------------------------------------
(* Why a "processing" order has a task that will move it on.  Before its   *)
(* first validation ends every run of the order has read "processing" and  *)
(* will write; after a claim, the finalization that won it has.            *)
Untouched(o) ==
    orderStatus[o] \in {"absent", "pending"} =>
        /\ claims[o] = 0 /\ authzStatus[o] \in {"absent", "pending"}
        /\ \A q \in Procs : task[q].order = o =>
              /\ task[q].pc \notin RunPcs \union FinalizePcs
              /\ orderStatus[o] = "absent" => task[q].pc # "ack_commit"

Validating(o) ==
    orderStatus[o] = "processing" /\ claims[o] = 0 =>
        /\ authzStatus[o] = "processing"
        /\ \E q \in Procs : task[q].order = o /\ task[q].pc \in RunPcs
        /\ \A q \in Procs : task[q].order = o =>
              /\ task[q].pc # "rc_check"
              /\ task[q].pc \in {"rc_order", "rc_commit"} => task[q].seenAuthz = "processing"
              /\ task[q].pc = "rc_commit" => task[q].seenOrder = "processing"

WillPublish(q, o) ==
    /\ task[q].order = o
    /\ \/ task[q].pc \in {"pf_start", "pf_sign", "pf_load"}
       \/ task[q].pc \in {"pf_store", "pf_commit"} /\ task[q].seenOrder = "processing"

Issuing(o) ==
    orderStatus[o] = "processing" /\ claims[o] # 0 => \E q \in Procs : WillPublish(q, o)

Work(o) == Untouched(o) /\ Validating(o) /\ Issuing(o)
WorkInv == \A o \in OrderIds : Work(o)

(* A step that ends none of the tasks that work on an order.               *)
Kept(o) ==
    \A q \in Procs : task[q].order = o /\ task[q].pc \notin {"idle", "fin_claim"} => task'[q] = task[q]

LEMMA WorkSpared ==
    ASSUME NEW o, Work(o), Spared(o), Kept(o)
    PROVE  Work(o)'
<1>1. Untouched(o)'
  BY DEF Work, Spared, Untouched, RunPcs, FinalizePcs
<1>2. Validating(o)'
  BY DEF Work, Spared, Kept, Validating, RunPcs
<1>3. Issuing(o)'
  BY DEF Work, Spared, Kept, Issuing, WillPublish
<1>. QED BY <1>1, <1>2, <1>3 DEF Work

(* A run of the order takes a step and stays a run.                        *)
LEMMA WorkRun ==
    ASSUME NEW p \in Procs, NEW o, Work(o),
           \A q \in Procs \ {p} : task'[q] = task[q],
           task[p].order = o, task[p].pc \in RunPcs,
           task'[p].order = o, task'[p].pc \in RunPcs,
           orderStatus[o] = "processing" /\ claims[o] = 0 =>
               /\ task'[p].pc # "rc_check"
               /\ task'[p].pc \in {"rc_order", "rc_commit"} => task'[p].seenAuthz = "processing"
               /\ task'[p].pc = "rc_commit" => task'[p].seenOrder = "processing",
           orderStatus'[o] = orderStatus[o], authzStatus'[o] = authzStatus[o], claims'[o] = claims[o]
    PROVE  Work(o)'
<1>1. orderStatus[o] \notin {"absent", "pending"}
  BY DEF Work, Untouched
<1>2. Validating(o)'
  BY DEF Work, Validating
<1>3. \A q \in Procs : WillPublish(q, o) => WillPublish(q, o)'
  BY DEF WillPublish, RunPcs
<1>. QED BY <1>1, <1>2, <1>3 DEF Work, Untouched, Issuing

(* A finalization of the order takes a step and stays one.                 *)
LEMMA WorkFinalization ==
    ASSUME NEW p \in Procs, NEW o, Work(o),
           \A q \in Procs \ {p} : task'[q] = task[q],
           task[p].order = o, task[p].pc \in FinalizePcs,
           task'[p].order = o, task'[p].pc \in FinalizePcs,
           WillPublish(p, o) /\ orderStatus[o] = "processing" => WillPublish(p, o)',
           orderStatus'[o] = orderStatus[o], authzStatus'[o] = authzStatus[o], claims'[o] = claims[o]
    PROVE  Work(o)'
<1>1. orderStatus[o] \notin {"absent", "pending"}
  BY DEF Work, Untouched
<1>2. Validating(o)'
  BY DEF Work, Validating, RunPcs, FinalizePcs
<1>3. orderStatus[o] = "processing" => \A q \in Procs : WillPublish(q, o) => WillPublish(q, o)'
  BY DEF WillPublish
<1>. QED BY <1>1, <1>2, <1>3 DEF Work, Untouched, Issuing

(* A task of the order ends; if the order stays "processing", the task was *)
(* not the one that will move it on.                                       *)
LEMMA WorkEnds ==
    ASSUME NEW p \in Procs, NEW o, Work(o),
           \A q \in Procs \ {p} : task'[q] = task[q], task'[p].pc = "idle",
           task[p].order = o, task[p].pc \in RunPcs \union FinalizePcs,
           claims'[o] = claims[o],
           \/ orderStatus'[o] \notin {"absent", "pending", "processing"}
           \/ /\ orderStatus'[o] = orderStatus[o] /\ authzStatus'[o] = authzStatus[o]
              /\ ~WillPublish(p, o)
              /\ task[p].pc \in RunPcs => ~(orderStatus[o] = "processing" /\ claims[o] = 0)
    PROVE  Work(o)'
<1>1. orderStatus[o] \notin {"absent", "pending"}
  BY DEF Work, Untouched
<1>2. CASE orderStatus'[o] \notin {"absent", "pending", "processing"}
  BY <1>2 DEF Work, Untouched, Validating, Issuing
<1>3. CASE /\ orderStatus'[o] = orderStatus[o] /\ authzStatus'[o] = authzStatus[o]
           /\ ~WillPublish(p, o)
           /\ task[p].pc \in RunPcs => ~(orderStatus[o] = "processing" /\ claims[o] = 0)
  <2>1. Validating(o)'
    BY <1>3 DEF Work, Validating, RunPcs
  <2>2. \A q \in Procs : WillPublish(q, o) => WillPublish(q, o)'
    BY <1>3 DEF WillPublish
  <2>. QED BY <1>1, <1>3, <2>1, <2>2 DEF Work, Untouched, Issuing
<1>. QED BY <1>2, <1>3

LEMMA WorkTask ==
    ASSUME NEW p \in Procs, NEW o \in OrderIds, TypeOK, TaskStep(p), task[p].order = o, Work(o)
    PROVE  Work(o)'
<1>b. task[p] \in Task
  BY DEF TypeOK, TasksOK
<1> USE DEF Is, Become
<1>1. CASE AckCommit(p)
  <2>1. /\ \A q \in Procs \ {p} : task'[q] = task[q]
        /\ task'[p].order = o /\ task'[p].pc = "rc_start" /\ task[p].pc = "ack_commit"
    BY <1>1, <1>b DEF AckCommit, Goto, Task, TypeOK, TasksOK
  <2>2. orderStatus[o] # "absent" /\ claims' = claims /\ authzStatus'[o] = "processing"
    BY <1>1, <2>1 DEF AckCommit, ghosts, Work, Untouched, TypeOK
  <2>3. orderStatus'[o] = IF orderStatus[o] = "pending" THEN "processing" ELSE orderStatus[o]
    BY <1>1 DEF AckCommit, TypeOK
  <2>4. orderStatus[o] = "pending" =>
            claims[o] = 0 /\ \A q \in Procs : task[q].order = o => task[q].pc \notin RunPcs
    BY DEF Work, Untouched
  <2>5. Validating(o)'
    BY <2>1, <2>2, <2>3, <2>4 DEF Work, Validating, RunPcs
  <2>6. \A q \in Procs : WillPublish(q, o) => WillPublish(q, o)'
    BY <2>1 DEF WillPublish
  <2>7. Issuing(o)'
    BY <2>2, <2>3, <2>4, <2>6 DEF Work, Issuing
  <2>. QED BY <2>2, <2>3, <2>5, <2>7 DEF Work, Untouched
<1>2. CASE RcStart(p)
  <2>1. task[p].pc = "rc_start" /\ task[p].pc \in RunPcs
    BY <1>2 DEF RcStart, RunPcs
  <2>2. UNCHANGED <<orderStatus, authzStatus, claims>>
    BY <1>2 DEF RcStart, Goto, rows, ghosts
  <2>3. /\ \A q \in Procs \ {p} : task'[q] = task[q]
        /\ task'[p].order = o /\ task'[p].pc \in RunPcs
    BY <1>2, <1>b DEF RcStart, Goto, rows, ghosts, RunPcs, Task, TypeOK, TasksOK
  <2>4. orderStatus[o] = "processing" /\ claims[o] = 0 =>
            /\ task'[p].pc # "rc_check"
            /\ task'[p].pc \in {"rc_order", "rc_commit"} => task'[p].seenAuthz = "processing"
            /\ task'[p].pc = "rc_commit" => task'[p].seenOrder = "processing"
    BY <1>2, <1>b, <2>1 DEF RcStart, Goto, rows, ghosts, Task, TypeOK, TasksOK, Work, Validating
  <2>. QED BY <2>1, <2>2, <2>3, <2>4, WorkRun
<1>3. ASSUME NEW validated \in BOOLEAN, RcFetch(p, validated) PROVE Work(o)'
  <2>1. task[p].pc = "rc_fetch" /\ task[p].pc \in RunPcs
    BY <1>3 DEF RcFetch, RunPcs
  <2>2. UNCHANGED <<orderStatus, authzStatus, claims>>
    BY <1>3 DEF RcFetch, rows
  <2>3. /\ \A q \in Procs \ {p} : task'[q] = task[q]
        /\ task'[p].order = o /\ task'[p].pc \in RunPcs
    BY <1>3, <1>b DEF RcFetch, rows, RunPcs, Task, TypeOK, TasksOK
  <2>4. orderStatus[o] = "processing" /\ claims[o] = 0 =>
            /\ task'[p].pc # "rc_check"
            /\ task'[p].pc \in {"rc_order", "rc_commit"} => task'[p].seenAuthz = "processing"
            /\ task'[p].pc = "rc_commit" => task'[p].seenOrder = "processing"
    BY <1>3, <1>b, <2>1 DEF RcFetch, rows, Task, TypeOK, TasksOK, Work, Validating
  <2>. QED BY <2>1, <2>2, <2>3, <2>4, WorkRun
<1>4. CASE RcLoadAuthz(p)
  <2>1. task[p].pc = "rc_authz" /\ task[p].pc \in RunPcs
    BY <1>4 DEF RcLoadAuthz, RunPcs
  <2>2. UNCHANGED <<orderStatus, authzStatus, claims>>
    BY <1>4 DEF RcLoadAuthz, rows, ghosts
  <2>3. /\ \A q \in Procs \ {p} : task'[q] = task[q]
        /\ task'[p].order = o /\ task'[p].pc \in RunPcs
    BY <1>4, <1>b DEF RcLoadAuthz, rows, ghosts, RunPcs, Task, TypeOK, TasksOK
  <2>4. orderStatus[o] = "processing" /\ claims[o] = 0 =>
            /\ task'[p].pc # "rc_check"
            /\ task'[p].pc \in {"rc_order", "rc_commit"} => task'[p].seenAuthz = "processing"
            /\ task'[p].pc = "rc_commit" => task'[p].seenOrder = "processing"
    BY <1>4, <1>b, <2>1 DEF RcLoadAuthz, rows, ghosts, Task, TypeOK, TasksOK, Work, Validating
  <2>. QED BY <2>1, <2>2, <2>3, <2>4, WorkRun
<1>5. CASE RcLoadOrder(p)
  <2>1. task[p].pc = "rc_order" /\ task[p].pc \in RunPcs
    BY <1>5 DEF RcLoadOrder, RunPcs
  <2>2. UNCHANGED <<orderStatus, authzStatus, claims>>
    BY <1>5 DEF RcLoadOrder, rows, ghosts
  <2>3. /\ \A q \in Procs \ {p} : task'[q] = task[q]
        /\ task'[p].order = o /\ task'[p].pc \in RunPcs
    BY <1>5, <1>b DEF RcLoadOrder, rows, ghosts, RunPcs, Task, TypeOK, TasksOK
  <2>4. orderStatus[o] = "processing" /\ claims[o] = 0 =>
            /\ task'[p].pc # "rc_check"
            /\ task'[p].pc \in {"rc_order", "rc_commit"} => task'[p].seenAuthz = "processing"
            /\ task'[p].pc = "rc_commit" => task'[p].seenOrder = "processing"
    BY <1>5, <1>b, <2>1 DEF RcLoadOrder, rows, ghosts, Task, TypeOK, TasksOK, Work, Validating
  <2>. QED BY <2>1, <2>2, <2>3, <2>4, WorkRun
<1>6. CASE RcCheck(p)
  <2>1. task[p].pc = "rc_check" /\ UNCHANGED <<orderStatus, authzStatus, claims>>
    BY <1>6 DEF RcCheck, rows, ghosts
  <2>2. ~(orderStatus[o] = "processing" /\ claims[o] = 0) /\ ~WillPublish(p, o)
    BY <2>1 DEF Work, Validating, WillPublish
  <2>3. CASE Goto(p, "rc_commit")
    <3>1. /\ \A q \in Procs \ {p} : task'[q] = task[q]
          /\ task'[p].order = o /\ task'[p].pc \in RunPcs
      BY <1>b, <2>3 DEF Goto, RunPcs, Task, TypeOK, TasksOK
    <3>. QED BY <2>1, <2>2, <3>1, WorkRun DEF RunPcs
  <2>4. CASE Finish(p)
    <3>1. (\A q \in Procs \ {p} : task'[q] = task[q]) /\ task'[p].pc = "idle"
      BY <2>4, IdleType DEF Finish, TypeOK, TasksOK
    <3>. QED BY <2>1, <2>2, <3>1, WorkEnds DEF RunPcs
  <2>. QED BY <1>6, <2>3, <2>4 DEF RcCheck
<1>7. CASE RcCommit(p)
  <2>1. task[p].pc = "rc_commit" /\ UNCHANGED claims /\ ~WillPublish(p, o)
    BY <1>7 DEF RcCommit, ghosts, WillPublish
  <2>2. (\A q \in Procs \ {p} : task'[q] = task[q]) /\ task'[p].pc = "idle"
    BY <1>7, IdleType DEF RcCommit, Finish, TypeOK, TasksOK
  <2>3. \/ orderStatus'[o] \in {"ready", "invalid"}
        \/ orderStatus'[o] = orderStatus[o] /\ task[p].seenOrder \in {"ready", "invalid"}
    BY <1>7 DEF RcCommit, TypeOK
  <2>4. CASE orderStatus'[o] \in {"ready", "invalid"}
    BY <2>1, <2>2, <2>4, WorkEnds DEF RunPcs
  <2>5. CASE orderStatus'[o] = orderStatus[o] /\ task[p].seenOrder \in {"ready", "invalid"}
    <3>1. ~(orderStatus[o] = "processing" /\ claims[o] = 0) /\ orderStatus[o] \notin {"absent", "pending"}
      BY <2>1, <2>5 DEF Work, Validating, Untouched, RunPcs
    <3>2. \A q \in Procs : WillPublish(q, o) => WillPublish(q, o)'
      BY <2>1, <2>2 DEF WillPublish
    <3>. QED BY <2>1, <2>5, <3>1, <3>2 DEF Work, Untouched, Validating, Issuing
  <2>. QED BY <2>3, <2>4, <2>5
<1>8. CASE FinClaim(p)
  <2>1. CASE orderStatus[o] = "ready"
    <3>1. WillPublish(p, o)'
      BY <1>8, <2>1, ClaimEffect DEF WillPublish
    <3>2. orderStatus'[o] = "processing" /\ claims'[o] # 0
      BY <1>8, <2>1 DEF FinClaim, TypeOK
    <3>. QED BY <3>1, <3>2 DEF Work, Untouched, Validating, Issuing
  <2>2. CASE orderStatus[o] # "ready"
    <3>1. Spared(o)
      BY <1>8, <2>2, IdleType DEF FinClaim, Finish, Spared, TypeOK, TasksOK
    <3>2. Kept(o)
      BY <1>8, <2>2 DEF FinClaim, Finish, Kept, TypeOK, TasksOK
    <3>. QED BY <3>1, <3>2, WorkSpared
  <2>. QED BY <2>1, <2>2
<1>9. CASE PfStart(p)
  <2>1. task[p].pc \in FinalizePcs /\ UNCHANGED <<orderStatus, authzStatus, claims>>
    BY <1>9 DEF PfStart, Goto, rows, ghosts, FinalizePcs
  <2>2. /\ \A q \in Procs \ {p} : task'[q] = task[q]
        /\ task'[p].order = o /\ task'[p].pc \in FinalizePcs
    BY <1>9, <1>b DEF PfStart, Goto, rows, ghosts, FinalizePcs, Task, TypeOK, TasksOK
  <2>3. WillPublish(p, o) /\ orderStatus[o] = "processing" => WillPublish(p, o)'
    BY <1>9, <1>b DEF PfStart, Goto, rows, ghosts, WillPublish, Task, TypeOK, TasksOK
  <2>. QED BY <2>1, <2>2, <2>3, WorkFinalization
<1>10. ASSUME NEW issued \in BOOLEAN, PfSign(p, issued) PROVE Work(o)'
  <2>1. task[p].pc \in FinalizePcs /\ UNCHANGED <<orderStatus, authzStatus, claims>>
    BY <1>10 DEF PfSign, rows, ghosts, FinalizePcs
  <2>2. /\ \A q \in Procs \ {p} : task'[q] = task[q]
        /\ task'[p].order = o /\ task'[p].pc \in FinalizePcs
    BY <1>10, <1>b DEF PfSign, rows, ghosts, FinalizePcs, Task, TypeOK, TasksOK
  <2>3. WillPublish(p, o) /\ orderStatus[o] = "processing" => WillPublish(p, o)'
    BY <1>10, <1>b DEF PfSign, rows, ghosts, WillPublish, Task, TypeOK, TasksOK
  <2>. QED BY <2>1, <2>2, <2>3, WorkFinalization
<1>11. CASE PfLoad(p)
  <2>1. task[p].pc \in FinalizePcs /\ UNCHANGED <<orderStatus, authzStatus, claims>>
    BY <1>11 DEF PfLoad, rows, ghosts, FinalizePcs
  <2>2. /\ \A q \in Procs \ {p} : task'[q] = task[q]
        /\ task'[p].order = o /\ task'[p].pc \in FinalizePcs
    BY <1>11, <1>b DEF PfLoad, rows, ghosts, FinalizePcs, Task, TypeOK, TasksOK
  <2>3. WillPublish(p, o) /\ orderStatus[o] = "processing" => WillPublish(p, o)'
    BY <1>11, <1>b DEF PfLoad, rows, ghosts, WillPublish, Task, TypeOK, TasksOK
  <2>. QED BY <2>1, <2>2, <2>3, WorkFinalization
<1>12. CASE PfStore(p)
  <2>1. task[p].pc \in FinalizePcs /\ UNCHANGED <<orderStatus, authzStatus, claims>>
    BY <1>12 DEF PfStore, Goto, ghosts, FinalizePcs
  <2>2. /\ \A q \in Procs \ {p} : task'[q] = task[q]
        /\ task'[p].order = o /\ task'[p].pc \in FinalizePcs
    BY <1>12, <1>b DEF PfStore, Goto, ghosts, FinalizePcs, Task, TypeOK, TasksOK
  <2>3. WillPublish(p, o) /\ orderStatus[o] = "processing" => WillPublish(p, o)'
    BY <1>12, <1>b DEF PfStore, Goto, ghosts, WillPublish, Task, TypeOK, TasksOK
  <2>. QED BY <2>1, <2>2, <2>3, WorkFinalization
<1>13. CASE PfCommit(p)
  <2>1. task[p].pc = "pf_commit" /\ UNCHANGED <<authzStatus, claims>>
    BY <1>13 DEF PfCommit, ghosts
  <2>2. (\A q \in Procs \ {p} : task'[q] = task[q]) /\ task'[p].pc = "idle"
    BY <1>13, IdleType DEF PfCommit, Finish, TypeOK, TasksOK
  <2>3. \/ orderStatus'[o] \in {"valid", "invalid"}
        \/ orderStatus'[o] = orderStatus[o] /\ task[p].seenOrder \in {"valid", "invalid"}
    BY <1>13 DEF PfCommit, TypeOK
  <2>4. CASE orderStatus'[o] \in {"valid", "invalid"}
    BY <2>1, <2>2, <2>4, WorkEnds DEF FinalizePcs
  <2>5. CASE orderStatus'[o] = orderStatus[o] /\ task[p].seenOrder \in {"valid", "invalid"}
    <3>1. ~WillPublish(p, o)
      BY <2>1, <2>5 DEF WillPublish
    <3>. QED BY <2>1, <2>2, <2>5, <3>1, WorkEnds DEF FinalizePcs, RunPcs
  <2>. QED BY <2>3, <2>4, <2>5
<1>. QED BY <1>1, <1>2, <1>3, <1>4, <1>5, <1>6, <1>7, <1>8, <1>9, <1>10, <1>11, <1>12, <1>13 DEF TaskStep

LEMMA WorkStep ==
    ASSUME ~DbErrors
    PROVE  TypeOK /\ WorkInv /\ [Next]_vars => WorkInv'
<1> SUFFICES ASSUME TypeOK, WorkInv, [Next]_vars, NEW o \in OrderIds PROVE Work(o)'
  BY DEF WorkInv
<1>0. Work(o)
  BY DEF WorkInv
<1>1. ASSUME NEW n \in OrderIds, NEW a \in Accounts \union {NoAccount}, NewOrder(n, a)
      PROVE  Work(o)'
  <2>0. UNCHANGED <<task, posts, claims, orderCert>>
    BY <1>1 DEF NewOrder, ghosts
  <2>1. CASE n # o
    <3>1. Spared(o) /\ Kept(o)
      BY <1>1, <2>0, <2>1 DEF NewOrder, Spared, Kept, TypeOK
    <3>. QED BY <1>0, <3>1, WorkSpared
  <2>2. CASE n = o
    <3>1. orderStatus[o] = "absent" /\ orderStatus'[o] = "pending" /\ authzStatus'[o] = "pending"
      BY <1>1, <2>2 DEF NewOrder, TypeOK
    <3>. QED BY <1>0, <2>0, <3>1 DEF Work, Untouched, Validating, Issuing
  <2>. QED BY <2>1, <2>2
<1>2. ASSUME NEW p \in Procs, NEW n \in OrderIds, NEW a, PostChallenge(p, n, a)
      PROVE  Work(o)'
  <2>0. /\ UNCHANGED <<orderStatus, authzStatus, orderCert, claims>> /\ task[p].pc = "idle"
        /\ \A q \in Procs \ {p} : task'[q] = task[q]
    BY <1>2, BecomeEffect DEF PostChallenge, Is, rows
  <2>1. task'[p].order = n
    BY <1>2, AtType, BecomeEffect DEF PostChallenge, RoutePcs, RunPcs
  <2>2. CASE n # o
    <3>1. posts'[o] = posts[o]
      BY <1>2, <2>2 DEF PostChallenge, TypeOK
    <3>2. Spared(o) /\ Kept(o)
      BY <2>0, <2>1, <2>2, <3>1 DEF Spared, Kept
    <3>. QED BY <1>0, <3>2, WorkSpared
  <2>3. CASE n = o
    <3>1. PICK pc \in {"ack_commit", "rc_start"} :
             /\ task'[p] = At(pc, o)
             /\ pc = IF authzStatus[o] = "pending" THEN "ack_commit" ELSE "rc_start"
      BY <1>2, <2>3, BecomeEffect DEF PostChallenge
    <3>2. task'[p].pc = pc
      BY <3>1 DEF At, Idle
    <3>3. orderStatus[o] # "absent" /\ authzStatus[o] \in {"pending", "processing"}
      BY <1>2, <2>3 DEF PostChallenge
    <3>4. Untouched(o)'
      BY <1>0, <2>0, <3>1, <3>2, <3>3 DEF Work, Untouched, RunPcs, FinalizePcs
    <3>5. Validating(o)'
      BY <1>0, <2>0, <3>2 DEF Work, Validating, RunPcs
    <3>6. Issuing(o)'
      BY <1>0, <2>0 DEF Work, Issuing, WillPublish
    <3>. QED BY <3>4, <3>5, <3>6 DEF Work
  <2>. QED BY <2>2, <2>3
<1>3. ASSUME NEW p \in Procs, NEW n \in OrderIds, NEW a, PostFinalize(p, n, a)
      PROVE  Work(o)'
  <2>0. /\ task'[p] = At("fin_claim", n) /\ task[p].pc = "idle"
        /\ \A q \in Procs \ {p} : task'[q] = task[q]
    BY <1>3, BecomeEffect DEF PostFinalize, Is
  <2>1. task'[p].pc = "fin_claim"
    BY <2>0 DEF At, Idle
  <2>2. Spared(o) /\ Kept(o)
    BY <1>3, <2>0, <2>1 DEF PostFinalize, Spared, Kept, rows, ghosts
  <2>. QED BY <1>0, <2>2, WorkSpared
<1>4. ASSUME NEW p \in Procs, TaskStep(p) PROVE Work(o)'
  <2>1. CASE task[p].order # o
    <3>1. Kept(o)
      BY <1>4, <2>1 DEF Kept, TaskStep, AckCommit, RcStart, RcFetch, RcLoadAuthz, RcLoadOrder, RcCheck,
             RcCommit, FinClaim, PfStart, PfSign, PfLoad, PfStore, PfCommit, Goto, Finish, Become, TypeOK, TasksOK
    <3>. QED BY <1>0, <1>4, <2>1, <3>1, OthersSpared, WorkSpared
  <2>. QED BY <1>0, <1>4, <2>1, WorkTask
<1>5. CASE Restart
  <2>1. \A q \in Procs : task'[q].pc = "idle"
    BY <1>5, IdleType DEF Restart
  <2>2. /\ claims' = claims
        /\ orderStatus'[o] = IF orderStatus[o] = "processing" THEN "invalid" ELSE orderStatus[o]
        /\ authzStatus'[o] = IF authzStatus[o] = "processing" THEN "invalid" ELSE authzStatus[o]
    BY <1>5 DEF Restart, ghosts
  <2>. QED BY <1>0, <2>1, <2>2 DEF Work, Untouched, Validating, Issuing, RunPcs, FinalizePcs
<1>6. CASE UNCHANGED vars
  <2>1. Spared(o) /\ Kept(o)
    BY <1>6 DEF vars, Spared, Kept
  <2>. QED BY <1>0, <2>1, WorkSpared
<1>. QED BY <1>1, <1>2, <1>3, <1>4, <1>5, <1>6 DEF Next, Client, DbError

(* While no statement fails, a "processing" order has a background task    *)
(* that works on it, however many runs and finalizations overlap.          *)
THEOREM ProcessingOrdersHaveWorkers == ASSUME ~DbErrors PROVE Spec => []ProcessingHasWorker
<1>1. Init => WorkInv
  BY DEF Init, WorkInv, Work, Untouched, Validating, Issuing, Idle, RunPcs, FinalizePcs
<1>2. TypeOK /\ WorkInv => ProcessingHasWorker
  BY DEF WorkInv, Work, Validating, Issuing, WillPublish, ProcessingHasWorker, RunPcs, FinalizePcs
<1>3. TypeOK /\ WorkInv /\ [Next]_vars => WorkInv'
  BY WorkStep
<1>. QED BY <1>1, <1>2, <1>3, TypeCorrect, PTL DEF Spec
===============================================================================
