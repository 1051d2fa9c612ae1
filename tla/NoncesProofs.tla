----------------------------- MODULE NoncesProofs -----------------------------
(***************************************************************************)
(* Proofs about Nonces, for every number of values and requests, every cap *)
(* and every time to live.                                                 *)
(***************************************************************************)
EXTENDS Nonces, FiniteSetTheorems, TLAPS

LEMMA IdleType == Idle \in Task /\ Idle.pc = "idle"
BY DEF Idle, Task

LEMMA AtType ==
    ASSUME NEW pc \in {"count", "insert"}
    PROVE  /\ At(pc) \in Task /\ At(pc).pc = pc
           /\ \A t \in Nat : [At(pc) EXCEPT !.asOf = t] \in Task /\ [At(pc) EXCEPT !.asOf = t].pc = pc
BY DEF At, Idle, Task

LEMMA BecomeType ==
    ASSUME NEW p \in Procs, NEW t \in Task, t.pc = "consume" => t.nonce \in Values,
           TasksOK, Become(p, t)
    PROVE  TasksOK'
BY DEF TasksOK, Become

LEMMA TypeStep == TypeOK /\ [Next]_vars => TypeOK'
<1> SUFFICES ASSUME TypeOK, [Next]_vars PROVE TypeOK'
  OBVIOUS
<1> USE ConstantsAssumption DEF TypeOK
<1>1. ASSUME NEW p \in Procs, NewNonce(p) PROVE TypeOK'
  BY <1>1, AtType, BecomeType DEF NewNonce
<1>2. ASSUME NEW p \in Procs, NEW n \in Values, NEW genuine \in BOOLEAN, PostJws(p, n, genuine)
      PROVE  TypeOK'
  <2> DEFINE t == [pc |-> "consume", nonce |-> n, asOf |-> now]
  <2>1. t \in Task /\ t.nonce \in Values
    BY DEF Task
  <2>2. TasksOK'
    BY <1>2, <2>1, AtType, BecomeType DEF PostJws
  <2>. QED BY <1>2, <2>2 DEF PostJws
<1>3. ASSUME NEW p \in Procs, ConsumeNonce(p) PROVE TypeOK'
  <2>1. TasksOK'
    BY <1>3, AtType, BecomeType DEF ConsumeNonce
  <2>. QED BY <1>3, <2>1 DEF ConsumeNonce, TasksOK
<1>4. ASSUME NEW p \in Procs, CountNonces(p) PROVE TypeOK'
  <2> DEFINE t == [At("insert") EXCEPT !.asOf = now]
  <2>1. t \in Task /\ t.pc = "insert"
    BY AtType
  <2>2. Become(p, Idle) \/ Become(p, t)
    BY <1>4 DEF CountNonces
  <2>3. TasksOK'
    <3> HIDE DEF t
    <3>. QED BY <2>1, <2>2, IdleType, BecomeType
  <2>. QED BY <1>4, <2>3 DEF CountNonces
<1>5. ASSUME NEW p \in Procs, NEW n \in Values, InsertNonce(p, n) PROVE TypeOK'
  <2>1. TasksOK'
    BY <1>5, IdleType, BecomeType DEF InsertNonce
  <2>2. created' \in [Values -> Nat]
    <3>1. PICK t \in task[p].asOf..now : created' = [created EXCEPT ![n] = t]
      BY <1>5 DEF InsertNonce
    <3>2. task[p].asOf \in Nat
      BY DEF TasksOK, Task
    <3>. QED BY <3>1, <3>2
  <2>. QED BY <1>5, <2>1, <2>2 DEF InsertNonce
<1>6. ASSUME NEW p \in Procs, DbError(p) PROVE TypeOK'
  BY <1>6, IdleType, BecomeType DEF DbError
<1>7. CASE PruneWake
  BY <1>7 DEF PruneWake, TasksOK
<1>8. CASE PruneNonces
  BY <1>8 DEF PruneNonces, TasksOK
<1>9. CASE PruneError
  BY <1>9 DEF PruneError, TasksOK
<1>10. CASE Restart
  BY <1>10, IdleType DEF Restart, TasksOK
<1>11. CASE Tick
  BY <1>11 DEF Tick, TasksOK
<1>12. CASE UNCHANGED vars
  BY <1>12 DEF vars, TasksOK
<1>. QED BY <1>1, <1>2, <1>3, <1>4, <1>5, <1>6, <1>7, <1>8, <1>9, <1>10, <1>11, <1>12
         DEF Next, Request, Serve

(* Every variable of the nonce model keeps its type.                       *)
THEOREM TypeCorrect == Spec => []TypeOK
<1>1. Init => TypeOK
  BY IdleType DEF Init, TypeOK, TasksOK
<1>. QED BY <1>1, TypeStep, PTL DEF Spec

-------------------------------------------------------------------------------
(* Why there is no replay: a value has authenticated a request exactly if  *)
(* its row was used, and a used row is never fresh again; nor does         *)
(* deleting it help, since a deleted value matches no row.                 *)
SpentOnce ==
    \A n \in Values :
        /\ row[n] \in {"unissued", "fresh"} => authenticated[n] = 0
        /\ row[n] = "used" => authenticated[n] = 1
        /\ row[n] = "deleted" => authenticated[n] <= 1

LEMMA SpentStep == TypeOK /\ SpentOnce /\ [Next]_vars => SpentOnce'
<1> SUFFICES ASSUME TypeOK, SpentOnce, [Next]_vars PROVE SpentOnce'
  OBVIOUS
<1> USE DEF SpentOnce
<1>1. ASSUME NEW p \in Procs, ConsumeNonce(p) PROVE SpentOnce'
  <2> DEFINE v == task[p].nonce
  <2>0. v \in Values
    BY <1>1 DEF ConsumeNonce, TypeOK, TasksOK
  <2>1. CASE row[v] = "fresh" /\ created[v] + Ttl >= task[p].asOf
    BY <1>1, <2>0, <2>1 DEF ConsumeNonce, TypeOK
  <2>2. CASE ~(row[v] = "fresh" /\ created[v] + Ttl >= task[p].asOf)
    <3>1. UNCHANGED <<row, authenticated>>
      BY <1>1, <2>0, <2>2 DEF ConsumeNonce, TypeOK
    <3>. QED BY <3>1
  <2>. QED BY <2>1, <2>2
<1>2. ASSUME NEW p \in Procs, NEW n \in Values, InsertNonce(p, n) PROVE SpentOnce'
  BY <1>2 DEF InsertNonce, TypeOK
<1>3. CASE PruneNonces
  BY <1>3 DEF PruneNonces, Stored, TypeOK
<1>4. CASE UNCHANGED <<row, authenticated>>
  BY <1>4
<1>. QED BY <1>1, <1>2, <1>3, <1>4
         DEF Next, Request, Serve, NewNonce, PostJws, CountNonces, DbError, PruneWake,
             PruneError, Restart, Tick, vars

(* No nonce authenticates two requests.                                    *)
THEOREM NonceNeverReplayed == Spec => []NoReplay
<1>1. Init => SpentOnce
  BY DEF Init, SpentOnce
<1>2. TypeOK /\ SpentOnce => NoReplay
  BY DEF TypeOK, SpentOnce, NoReplay
<1>. QED BY <1>1, <1>2, TypeCorrect, SpentStep, PTL DEF Spec

(* Every used nonce was spent by a genuine request.                        *)
THEOREM NonceNeverBurned == Spec => []NoneBurned
<1>1. Init => SpentOnce
  BY DEF Init, SpentOnce
<1>2. SpentOnce => NoneBurned
  BY DEF SpentOnce, NoneBurned
<1>. QED BY <1>1, <1>2, TypeCorrect, SpentStep, PTL DEF Spec

-------------------------------------------------------------------------------
(* Why the cap is exceeded by less than the number of requests.  A request *)
(* that has counted and not yet inserted owns a row in advance; the last   *)
(* of them to count saw fewer than NONCE_MAX rows.                         *)
Inserting == {q \in Procs : task[q].pc = "insert"}

Committed(rows, requests) == Cardinality(rows) + Cardinality(requests)

CapInv == NonceMax > 0 => Committed(Stored, Inserting) <= NonceMax + Cardinality(Procs) - 1

LEMMA Finite ==
    /\ IsFiniteSet(Stored) /\ Cardinality(Stored) \in Nat
    /\ IsFiniteSet(Inserting) /\ Cardinality(Inserting) \in Nat
    /\ Cardinality(Procs) \in Nat
BY ConstantsAssumption, FS_Subset, FS_CardinalityType DEF Stored, Inserting

LEMMA FinitePrime ==
    /\ IsFiniteSet(Stored') /\ Cardinality(Stored') \in Nat
    /\ IsFiniteSet(Inserting') /\ Cardinality(Inserting') \in Nat
    /\ Cardinality(Inserting') <= Cardinality(Procs)
BY ConstantsAssumption, FS_Subset, FS_CardinalityType DEF Stored, Inserting

(* A step that stores nothing and lets no request pass the count.          *)
LEMMA CapKept ==
    ASSUME CapInv, Stored' \subseteq Stored, Inserting' \subseteq Inserting
    PROVE  CapInv'
<1>1. Cardinality(Stored') <= Cardinality(Stored) /\ Cardinality(Inserting') <= Cardinality(Inserting)
  BY Finite, FS_Subset
<1>2. Committed(Stored, Inserting)' <= Committed(Stored, Inserting)
  BY <1>1, Finite, FinitePrime DEF Committed
<1>3. Committed(Stored, Inserting) \in Nat /\ Committed(Stored, Inserting)' \in Nat
  BY Finite, FinitePrime DEF Committed
<1>. QED BY <1>2, <1>3, Finite, ConstantsAssumption DEF CapInv

LEMMA CapStep == TypeOK /\ CapInv /\ [Next]_vars => CapInv'
<1> SUFFICES ASSUME TypeOK, CapInv, [Next]_vars PROVE CapInv'
  OBVIOUS
<1> USE DEF TypeOK, TasksOK, Task
<1>1. ASSUME NEW p \in Procs, NewNonce(p) PROVE CapInv'
  <2>1. Stored' = Stored /\ Inserting' \subseteq Inserting
    BY <1>1, AtType DEF NewNonce, Become, Stored, Inserting
  <2>. QED BY <2>1, CapKept
<1>2. ASSUME NEW p \in Procs, NEW n \in Values, NEW genuine \in BOOLEAN, PostJws(p, n, genuine)
      PROVE  CapInv'
  <2>1. Stored' = Stored
    BY <1>2 DEF PostJws, Stored
  <2>2. Inserting' \subseteq Inserting
    BY <1>2, AtType DEF PostJws, Become, Inserting
  <2>. QED BY <2>1, <2>2, CapKept
<1>3. ASSUME NEW p \in Procs, ConsumeNonce(p) PROVE CapInv'
  <2>1. Stored' \subseteq Stored
    BY <1>3 DEF ConsumeNonce, Stored
  <2>2. Inserting' \subseteq Inserting
    BY <1>3, AtType DEF ConsumeNonce, Become, Inserting
  <2>. QED BY <2>1, <2>2, CapKept
<1>4. ASSUME NEW p \in Procs, CountNonces(p) PROVE CapInv'
  <2>0. Stored' = Stored
    BY <1>4 DEF CountNonces, Stored
  <2>1. CASE NonceMax > 0 /\ Cardinality(Stored) >= NonceMax
    <3>1. Inserting' \subseteq Inserting
      BY <1>4, <2>1, IdleType DEF CountNonces, Become, Inserting
    <3>. QED BY <2>0, <3>1, CapKept
  <2>2. CASE NonceMax > 0 /\ Cardinality(Stored) < NonceMax
    <3>1. Cardinality(Stored') < NonceMax
      BY <2>0, <2>2
    <3>. QED BY <3>1, Finite, FinitePrime, ConstantsAssumption DEF CapInv, Committed
  <2>3. CASE ~(NonceMax > 0)
    BY <2>3 DEF CapInv
  <2>. QED BY <2>1, <2>2, <2>3, Finite, ConstantsAssumption
<1>5. ASSUME NEW p \in Procs, NEW n \in Values, InsertNonce(p, n) PROVE CapInv'
  <2>1. n \notin Stored /\ Stored' = Stored \union {n}
    BY <1>5 DEF InsertNonce, Stored
  <2>2. p \in Inserting /\ Inserting' = Inserting \ {p}
    BY <1>5, IdleType DEF InsertNonce, Become, Inserting
  <2>3. Cardinality(Stored') = Cardinality(Stored) + 1
    BY <2>1, Finite, FS_AddElement
  <2>4. Cardinality(Inserting') = Cardinality(Inserting) - 1
    BY <2>2, Finite, FS_RemoveElement
  <2>5. Committed(Stored, Inserting)' = Committed(Stored, Inserting)
    BY <2>3, <2>4, Finite DEF Committed
  <2>. QED BY <2>5 DEF CapInv
<1>6. ASSUME NEW p \in Procs, DbError(p) PROVE CapInv'
  <2>1. Stored' = Stored /\ Inserting' \subseteq Inserting
    BY <1>6, IdleType DEF DbError, Become, Stored, Inserting
  <2>. QED BY <2>1, CapKept
<1>7. CASE PruneNonces
  <2>1. Stored' \subseteq Stored /\ Inserting' = Inserting
    BY <1>7 DEF PruneNonces, Stored, Inserting
  <2>. QED BY <2>1, CapKept
<1>8. CASE Restart
  <2>1. Stored' = Stored /\ Inserting' \subseteq Inserting
    BY <1>8, IdleType DEF Restart, Stored, Inserting
  <2>. QED BY <2>1, CapKept
<1>9. CASE UNCHANGED <<row, task>>
  <2>1. Stored' = Stored /\ Inserting' = Inserting
    BY <1>9 DEF Stored, Inserting
  <2>. QED BY <2>1, CapKept
<1>. QED BY <1>1, <1>2, <1>3, <1>4, <1>5, <1>6, <1>7, <1>8, <1>9
         DEF Next, Request, Serve, PruneWake, PruneError, Tick, vars

(* The nonces table exceeds NONCE_MAX by fewer rows than there can be      *)
(* requests in progress.                                                   *)
THEOREM CapOvershootBounded == Spec => []CapOvershoot
<1>1. Init => CapInv
  <2> SUFFICES ASSUME Init, NonceMax > 0
               PROVE  Committed(Stored, Inserting) <= NonceMax + Cardinality(Procs) - 1
    BY DEF CapInv
  <2>1. Stored = {} /\ Inserting = {}
    BY IdleType DEF Init, Stored, Inserting
  <2>2. Cardinality(Procs) \in Nat /\ Cardinality(Procs) # 0
    BY ConstantsAssumption, FS_EmptySet, FS_CardinalityType
  <2>3. Cardinality(Stored) = 0 /\ Cardinality(Inserting) = 0
    BY <2>1, FS_EmptySet
  <2>. QED BY <2>2, <2>3, ConstantsAssumption DEF Committed
<1>2. CapInv => CapOvershoot
  BY Finite, ConstantsAssumption DEF CapInv, Committed, CapOvershoot
<1>. QED BY <1>1, <1>2, TypeCorrect, CapStep, PTL DEF Spec

-------------------------------------------------------------------------------
(* The pruner's cutoff is never ahead of the clock. *)
CutoffPast == pruneAsOf <= now

LEMMA CutoffStep == TypeOK /\ CutoffPast /\ [Next]_vars => CutoffPast'
<1> SUFFICES ASSUME TypeOK, CutoffPast, [Next]_vars PROVE CutoffPast'
  OBVIOUS
<1> USE DEF TypeOK, CutoffPast
<1>1. CASE PruneWake
  BY <1>1 DEF PruneWake
<1>2. CASE Tick
  BY <1>2 DEF Tick
<1>3. CASE UNCHANGED <<now, pruneAsOf>>
  BY <1>3
<1>. QED BY <1>1, <1>2, <1>3
         DEF Next, Request, Serve, NewNonce, PostJws, ConsumeNonce, CountNonces, InsertNonce,
             DbError, PruneNonces, PruneError, Restart, vars

(* prune_nonces never deletes a nonce that a client could still use.       *)
THEOREM UsableNeverPruned == Spec => OnlyExpiredPruned
<1>1. Init => CutoffPast
  BY DEF Init, CutoffPast
<1> DEFINE Keeps == \A n \in Values :
                       row[n] = "fresh" /\ row'[n] = "deleted" => created[n] + Ttl < now
<1>2. TypeOK /\ CutoffPast /\ [Next]_vars => [Keeps]_vars
  <2> SUFFICES ASSUME TypeOK, CutoffPast, Next PROVE Keeps
    BY DEF vars
  <2> USE ConstantsAssumption DEF TypeOK, CutoffPast
  <2>1. CASE PruneNonces
    BY <2>1 DEF PruneNonces
  <2>2. ASSUME NEW p \in Procs, ConsumeNonce(p) PROVE Keeps
    BY <2>2 DEF ConsumeNonce
  <2>3. ASSUME NEW p \in Procs, NEW n \in Values, InsertNonce(p, n) PROVE Keeps
    BY <2>3 DEF InsertNonce
  <2>4. CASE UNCHANGED row
    BY <2>4
  <2>. QED BY <2>1, <2>2, <2>3, <2>4
           DEF Next, Request, Serve, NewNonce, PostJws, CountNonces, DbError, PruneWake,
               PruneError, Restart, Tick
<1>. QED BY <1>1, <1>2, TypeCorrect, CutoffStep, PTL DEF Spec, OnlyExpiredPruned

(* A spent or deleted nonce never comes back.                              *)
THEOREM RowsNeverReturn == Spec => RowsMoveForward
<1> DEFINE Forward == \A n \in Values :
              /\ row[n] = "used" => row'[n] \in {"used", "deleted"}
              /\ row[n] = "deleted" => row'[n] = "deleted"
              /\ row[n] # "unissued" => row'[n] # "unissued" /\ created'[n] = created[n]
<1>1. TypeOK /\ [Next]_vars => [Forward]_vars
  <2> SUFFICES ASSUME TypeOK, Next PROVE Forward
    BY DEF vars
  <2> USE DEF TypeOK
  <2>1. CASE PruneNonces
    BY <2>1 DEF PruneNonces, Stored
  <2>2. ASSUME NEW p \in Procs, ConsumeNonce(p) PROVE Forward
    BY <2>2 DEF ConsumeNonce
  <2>3. ASSUME NEW p \in Procs, NEW n \in Values, InsertNonce(p, n) PROVE Forward
    BY <2>3 DEF InsertNonce
  <2>4. CASE UNCHANGED <<row, created>>
    BY <2>4
  <2>. QED BY <2>1, <2>2, <2>3, <2>4
           DEF Next, Request, Serve, NewNonce, PostJws, CountNonces, DbError, PruneWake,
               PruneError, Restart, Tick
<1>. QED BY <1>1, TypeCorrect, PTL DEF Spec, RowsMoveForward

(* A relay that serves one request at a time keeps NONCE_MAX exactly: the  *)
(* overshoot comes from requests that overlap, and from nothing else, not  *)
(* from restarts and not from the pruner.                                  *)
THEOREM CapExactOneAtATime ==
    ASSUME Cardinality(Procs) = 1
    PROVE  Spec => []CapExact
<1>1. CapOvershoot => CapExact
  BY Finite, ConstantsAssumption DEF CapOvershoot, CapExact
<1>. QED BY <1>1, CapOvershootBounded, PTL

===============================================================================
