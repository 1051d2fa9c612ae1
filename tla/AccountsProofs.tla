---------------------------- MODULE AccountsProofs ----------------------------
(***************************************************************************)
(* Proofs about Accounts, for any number of accounts, keys and concurrent  *)
(* requests: types, and that the account of a key-change in progress       *)
(* exists (RowsThere); that a stale key acts only in a race                *)
(* (CheckedIsCurrent); and how many accounts can come to share a key       *)
(* (ShareInv).                                                             *)
(***************************************************************************)
EXTENDS Accounts, FunctionTheorems, FiniteSetTheorems, TLAPS

(* Accounts are never deleted, so that of a key-change in progress exists. *)
RowsThere ==
    \A p \in Procs : task[p].pc \in {"kc_load", "kc_unique", "kc_commit"} => Exists(task[p].account)

RowsInv == TypeOK /\ RowsThere

(* The initial state. *)
LEMMA InitRows == Init => RowsInv
  BY ConstantsAssumption DEF Init, RowsInv, TypeOK, TasksOK, Task, Idle, RowsThere, Exists

(* Every step of a request. *)
LEMMA RowsStep ==
    ASSUME RowsInv, [Next]_vars
    PROVE  RowsInv'
<1> USE ConstantsAssumption DEF RowsInv, TypeOK, TasksOK, Task, Idle, Become, Exists,
        RowsThere
<1>1. ASSUME NEW p \in Procs, NEW k \in Keys, PostNewAccount(p, k) PROVE RowsInv'
  BY <1>1 DEF PostNewAccount
<1>2. ASSUME NEW p \in Procs, NEW only \in BOOLEAN, NewAccountLookup(p, only) PROVE RowsInv'
  <2>1. CASE task' = [task EXCEPT ![p] = Idle]
    BY <1>2, <2>1 DEF NewAccountLookup
  <2>2. CASE task' = [task EXCEPT ![p] = [task[p] EXCEPT !.pc = "na_insert"]]
    BY <1>2, <2>2 DEF NewAccountLookup
  <2> QED
    BY <1>2, <2>1, <2>2 DEF NewAccountLookup
<1>3. ASSUME NEW p \in Procs, NEW a \in AccountIds, NewAccountInsert(p, a) PROVE RowsInv'
  BY <1>3 DEF NewAccountInsert
<1>4. ASSUME NEW p \in Procs, NEW a \in AccountIds, NEW k \in Keys, NEW old \in Keys, NEW new \in Keys,
             PostKeyChange(p, a, k, old, new)
      PROVE  RowsInv'
  BY <1>4 DEF PostKeyChange
<1>5. ASSUME NEW p \in Procs, KeyChangeLoad(p) PROVE RowsInv'
  <2> DEFINE loaded == [task[p] EXCEPT !.pc = "kc_unique", !.seen = publicKey[task[p].account]]
  <2>1. CASE task' = [task EXCEPT ![p] = Idle]
    <3>1. Idle \in Task /\ Idle.pc = "idle"
      OBVIOUS
    <3> HIDE DEF Idle, Task
    <3> QED
      BY <1>5, <2>1, <3>1 DEF KeyChangeLoad
  <2>2. CASE task' = [task EXCEPT ![p] = loaded]
    <3>1. task[p].account \in AccountIds /\ publicKey[task[p].account] \in Keys \union {NoKey}
      BY <1>5 DEF KeyChangeLoad
    <3>2. loaded \in Task /\ loaded.pc = "kc_unique" /\ loaded.account = task[p].account
          /\ loaded.signer = task[p].signer /\ loaded.newKey = task[p].newKey
      <4>1. task[p] \in Task
        OBVIOUS
      <4> QED
        BY ONLY <3>1, <4>1 DEF Task
    <3> HIDE DEF loaded
    <3> QED
      BY <1>5, <2>2, <3>1, <3>2 DEF KeyChangeLoad
  <2> QED
    BY <1>5, <2>1, <2>2 DEF KeyChangeLoad
<1>6. ASSUME NEW p \in Procs, KeyChangeUnique(p) PROVE RowsInv'
  BY <1>6 DEF KeyChangeUnique
<1>7. ASSUME NEW p \in Procs, KeyChangeCommit(p) PROVE RowsInv'
  <2> DEFINE a == task[p].account
  <2>1. a \in AccountIds /\ task[p].newKey \in Keys /\ Exists(a)
    BY <1>7 DEF KeyChangeCommit
  <2>2. task'[p] = Idle /\ \A q \in Procs \ {p} :
            /\ task'[q] \in Task /\ task'[q].pc = task[q].pc /\ task'[q].account = task[q].account
            /\ task'[q].signer = task[q].signer /\ task'[q].newKey = task[q].newKey
    <3>1. task'[p] = Idle
      BY <1>7 DEF KeyChangeCommit
    <3>2. ASSUME NEW q \in Procs \ {p}
          PROVE  \E b, c \in BOOLEAN : task'[q] = [task[q] EXCEPT !.outdated = b, !.raced = c]
      <4> DEFINE over(pcs) == /\ task[p].newKey # task[p].seen
                              /\ task[q].account = task[p].account
                              /\ task[q].pc \in pcs
                 b == task[q].outdated \/ over({"kc_load", "kc_unique", "kc_commit"})
                 c == task[q].raced \/ over({"kc_unique", "kc_commit"})
      <4>1. task'[q] = [task[q] EXCEPT !.outdated = b, !.raced = c]
        BY <1>7 DEF KeyChangeCommit
      <4>2. b \in BOOLEAN /\ c \in BOOLEAN
        OBVIOUS
      <4> HIDE DEF b, c
      <4> QED
        BY <4>1, <4>2, Zenon
    <3>3. ASSUME NEW q \in Procs \ {p}
          PROVE  /\ task'[q] \in Task /\ task'[q].pc = task[q].pc /\ task'[q].account = task[q].account
                 /\ task'[q].signer = task[q].signer /\ task'[q].newKey = task[q].newKey
      <4>1. PICK b, c \in BOOLEAN : task'[q] = [task[q] EXCEPT !.outdated = b, !.raced = c]
        BY <3>2
      <4>2. task[q] \in Task
        OBVIOUS
      <4> QED
        BY ONLY <4>1, <4>2 DEF Task
    <3> QED
      BY <3>1, <3>3
  <2>3. TasksOK'
    <3>1. Idle \in Task /\ Idle.pc = "idle"
      OBVIOUS
    <3>2. task' \in [Procs -> Task]
      <4> HIDE DEF Idle, Task
      <4> QED
        BY <1>7, <2>2, <3>1 DEF KeyChangeCommit
    <3> HIDE DEF Idle, Task
    <3> QED
      BY <2>2, <3>1, <3>2
  <2>4. publicKey' \in [AccountIds -> Keys \union {NoKey}]
    BY <1>7, <2>1 DEF KeyChangeCommit
  <2>5. \A b \in AccountIds : Exists(b) => Exists(b)'
    BY <1>7, <2>1 DEF KeyChangeCommit
  <2>6. RowsThere'
    <3> HIDE DEF Exists, Task
    <3> QED
      BY <2>2, <2>5
  <2> QED
    BY <2>3, <2>4, <2>6
<1>8. ASSUME NEW p \in Procs, DbError(p) PROVE RowsInv'
  BY <1>8 DEF DbError
<1>9. CASE UNCHANGED vars
  BY <1>9 DEF vars
<1> QED
  BY <1>1, <1>2, <1>3, <1>4, <1>5, <1>6, <1>7, <1>8, <1>9 DEF Next

(* Together. *)
LEMMA RowsInvariant == Spec => []RowsInv
  BY InitRows, RowsStep, PTL DEF Spec

(* Every variable of the account routes keeps its type.                    *)
THEOREM TypeCorrect == Spec => []TypeOK
<1>1. RowsInv => TypeOK
  BY DEF RowsInv
<1> QED
  BY <1>1, RowsInvariant, PTL

-------------------------------------------------------------------------------
(* Why a stale key acts only in a race: a request's signer is the          *)
(* account's key unless another request has replaced it since the check,   *)
(* and past the load the same is true of its oldKey.                       *)
KeyChanging == {p \in Procs : task[p].pc \in {"kc_load", "kc_unique", "kc_commit"}}
Loaded      == {p \in Procs : task[p].pc \in {"kc_unique", "kc_commit"}}

CheckedIsCurrent ==
    /\ \A p \in KeyChanging : task[p].signer = publicKey[task[p].account] \/ task[p].outdated
    /\ \A p \in Loaded : task[p].oldKey = publicKey[task[p].account] \/ task[p].raced

LEMMA CurrentStep ==
    ASSUME RowsInv, CheckedIsCurrent, [Next]_vars
    PROVE  CheckedIsCurrent'
<1> USE ConstantsAssumption DEF RowsInv, TypeOK, TasksOK, Task, Idle, Become, Exists, CheckedIsCurrent,
        KeyChanging, Loaded
<1>1. ASSUME NEW p \in Procs, NEW k \in Keys, PostNewAccount(p, k) PROVE CheckedIsCurrent'
  BY <1>1 DEF PostNewAccount
<1>2. ASSUME NEW p \in Procs, NEW only \in BOOLEAN, NewAccountLookup(p, only) PROVE CheckedIsCurrent'
  BY <1>2 DEF NewAccountLookup
<1>3. ASSUME NEW p \in Procs, NEW a \in AccountIds, NewAccountInsert(p, a) PROVE CheckedIsCurrent'
  <2>1. \A q \in KeyChanging : task[q].account # a
    BY <1>3 DEF NewAccountInsert, RowsThere
  <2> QED
    BY <1>3, <2>1 DEF NewAccountInsert
<1>4. ASSUME NEW p \in Procs, NEW a \in AccountIds, NEW k \in Keys, NEW old \in Keys, NEW new \in Keys,
             PostKeyChange(p, a, k, old, new)
      PROVE  CheckedIsCurrent'
  BY <1>4 DEF PostKeyChange
<1>5. ASSUME NEW p \in Procs, KeyChangeLoad(p) PROVE CheckedIsCurrent'
  BY <1>5 DEF KeyChangeLoad
<1>6. ASSUME NEW p \in Procs, KeyChangeUnique(p) PROVE CheckedIsCurrent'
  BY <1>6 DEF KeyChangeUnique
<1>7. ASSUME NEW p \in Procs, KeyChangeCommit(p) PROVE CheckedIsCurrent'
  <2>1. ASSUME NEW q \in KeyChanging'
        PROVE  /\ task'[q].signer = publicKey'[task'[q].account] \/ task'[q].outdated
               /\ q \in Loaded' => task'[q].oldKey = publicKey'[task'[q].account] \/ task'[q].raced
    <3>0. q \in Procs \ {p}
      <4>1. task'[p].pc = "idle"
        BY <1>7 DEF KeyChangeCommit
      <4> QED
        BY <2>1, <4>1
    <3> DEFINE over(pcs) == /\ task[p].newKey # task[p].seen
                            /\ task[q].account = task[p].account
                            /\ task[q].pc \in pcs
               out == task[q].outdated \/ over({"kc_load", "kc_unique", "kc_commit"})
               rac == task[q].raced \/ over({"kc_unique", "kc_commit"})
    <3>4. task'[q] = [task[q] EXCEPT !.outdated = out, !.raced = rac] /\ task[q] \in Task
      <4> HIDE DEF Task
      <4> QED
        BY <1>7, <3>0 DEF KeyChangeCommit
    <3>1. /\ task'[q].pc = task[q].pc /\ task'[q].account = task[q].account
          /\ task'[q].oldKey = task[q].oldKey /\ task'[q].signer = task[q].signer
          /\ task'[q].outdated = out /\ task'[q].raced = rac
      <4> HIDE DEF out, rac
      <4> QED
        BY ONLY <3>4 DEF Task
    <3>2. CASE task[p].newKey # task[p].seen /\ task[q].account = task[p].account
      <4> HIDE DEF Task
      <4> QED
        BY <2>1, <3>1, <3>2
    <3>3. CASE ~(task[p].newKey # task[p].seen /\ task[q].account = task[p].account)
      <4>1. publicKey'[task[q].account] = publicKey[task[q].account]
        BY <1>7, <2>1, <3>0, <3>1, <3>3 DEF KeyChangeCommit
      <4>2. (task[q].raced => task'[q].raced) /\ (task[q].outdated => task'[q].outdated)
        BY <3>1
      <4> QED
        BY <2>1, <3>0, <3>1, <4>1, <4>2
    <3> QED
      BY <3>2, <3>3
  <2>2. Loaded' \subseteq KeyChanging'
    OBVIOUS
  <2>3. /\ \A q \in KeyChanging' : task'[q].signer = publicKey'[task'[q].account] \/ task'[q].outdated
        /\ \A q \in Loaded' : task'[q].oldKey = publicKey'[task'[q].account] \/ task'[q].raced
    <3> HIDE DEF KeyChanging, Loaded
    <3> QED
      BY <2>1, <2>2
  <2> QED
    BY <2>3
<1>8. ASSUME NEW p \in Procs, DbError(p) PROVE CheckedIsCurrent'
  BY <1>8 DEF DbError
<1>9. CASE UNCHANGED vars
  BY <1>9 DEF vars
<1> QED
  BY <1>1, <1>2, <1>3, <1>4, <1>5, <1>6, <1>7, <1>8, <1>9 DEF Next

(* key_change replaces only the key that signed it and that its oldKey     *)
(* names, unless another request replaced that key after the signature     *)
(* check or, for oldKey, after the second load.                            *)
THEOREM OnlyCurrentKeysRoll == Spec => RollsCurrentKey
<1> DEFINE Rolls(a) == Exists(a) /\ publicKey'[a] # publicKey[a] =>
               \E p \in Procs :
                   /\ task[p].pc = "kc_commit" /\ task'[p] = Idle /\ task[p].account = a
                   /\ task[p].oldKey = publicKey[a] \/ task[p].raced
                   /\ task[p].signer = publicKey[a] \/ task[p].outdated
<1>1. ASSUME RowsInv, CheckedIsCurrent, [Next]_vars PROVE [\A a \in AccountIds : Rolls(a)]_vars
  <2> SUFFICES ASSUME Next, NEW a \in AccountIds, Exists(a), publicKey'[a] # publicKey[a]
               PROVE  Rolls(a)
    BY <1>1
  <2>1. PICK p \in Procs : (\E b \in AccountIds : NewAccountInsert(p, b)) \/ KeyChangeCommit(p)
    BY DEF Next, PostNewAccount, NewAccountLookup, PostKeyChange, KeyChangeLoad, KeyChangeUnique, DbError
  <2>2. KeyChangeCommit(p)
    BY <1>1, <2>1 DEF NewAccountInsert, Exists, RowsInv, TypeOK
  <2>3. task[p].account = a
    BY <1>1, <2>2 DEF KeyChangeCommit, RowsInv, TypeOK, TasksOK
  <2> QED
    BY <1>1, <2>2, <2>3 DEF KeyChangeCommit, RowsInv, TypeOK, TasksOK, CheckedIsCurrent, KeyChanging, Loaded
<1>2. Init => CheckedIsCurrent
  BY DEF Init, Idle, CheckedIsCurrent, KeyChanging, Loaded
<1>3. RowsInv /\ CheckedIsCurrent /\ [Next]_vars => CheckedIsCurrent'
  BY CurrentStep
<1>4. RowsInv /\ CheckedIsCurrent /\ [Next]_vars => [\A a \in AccountIds : Rolls(a)]_vars
  BY <1>1
<1> QED
  BY <1>2, <1>3, <1>4, RowsInvariant, PTL DEF Spec, RollsCurrentKey

-------------------------------------------------------------------------------
(* Why a key is shared by no more accounts than requests run at once.  The *)
(* accounts that hold a key or are about to be given it, and the accounts  *)
(* about to be created with it, are counted together; a request adds to    *)
(* the count only if nobody else holds the key, and then everything that   *)
(* is counted belongs to a request in progress.                            *)
Inserting(k) == {p \in Procs : task[p].pc = "na_insert" /\ task[p].signer = k}
Rolling(k)   == {p \in Procs : task[p].pc = "kc_commit" /\ task[p].newKey = k}
Targets(k)   == {task[p].account : p \in Rolling(k)}
Prospects(k) == HoldersOf(k) \union Targets(k)

Share(k) ==
    /\ IsFiniteSet(Prospects(k))
    /\ Cardinality(Prospects(k)) + Cardinality(Inserting(k)) <= Cardinality(Procs)
ShareInv == \A k \in Keys : Share(k)

LEMMA Finite ==
    ASSUME NEW k
    PROVE  /\ IsFiniteSet(Inserting(k)) /\ Cardinality(Inserting(k)) \in Nat
           /\ IsFiniteSet(Inserting(k)') /\ Cardinality(Inserting(k)') \in Nat
           /\ Cardinality(Procs) \in Nat
<1>1. Inserting(k) \subseteq Procs /\ Inserting(k)' \subseteq Procs
  BY DEF Inserting
<1> QED
  BY <1>1, ConstantsAssumption, FS_Subset, FS_CardinalityType

(* A step that adds nothing to the count. *)
LEMMA ShareKept ==
    ASSUME NEW k, Share(k), Prospects(k)' \subseteq Prospects(k), Inserting(k)' \subseteq Inserting(k)
    PROVE  Share(k)'
<1>1. /\ IsFiniteSet(Prospects(k)') /\ Cardinality(Prospects(k)') <= Cardinality(Prospects(k))
      /\ Cardinality(Prospects(k)) \in Nat /\ Cardinality(Prospects(k)') \in Nat
  BY FS_Subset, FS_CardinalityType DEF Share
<1>2. Cardinality(Inserting(k)') <= Cardinality(Inserting(k))
  BY Finite, FS_Subset
<1> QED
  BY <1>1, <1>2, Finite DEF Share

(* The count when every holder is the target of a request. *)
LEMMA ShareFresh ==
    ASSUME NEW k, HoldersOf(k)' \subseteq Targets(k)'
    PROVE  Share(k)'
<1>1. Rolling(k)' \subseteq Procs /\ Inserting(k)' \subseteq Procs /\ Rolling(k)' \cap Inserting(k)' = {}
  BY DEF Rolling, Inserting
<1>2. /\ IsFiniteSet(Rolling(k)') /\ Cardinality(Rolling(k)') \in Nat
      /\ IsFiniteSet(Rolling(k)' \union Inserting(k)')
      /\ Cardinality(Rolling(k)' \union Inserting(k)') <= Cardinality(Procs)
  BY <1>1, ConstantsAssumption, FS_Subset, FS_CardinalityType
<1>3. Cardinality(Rolling(k)' \union Inserting(k)')
          = Cardinality(Rolling(k)') + Cardinality(Inserting(k)') - Cardinality(Rolling(k)' \cap Inserting(k)')
  BY <1>2, Finite, FS_Union
<1>4. Cardinality(Rolling(k)' \cap Inserting(k)') = 0
  BY <1>1, FS_EmptySet
<1> DEFINE f == [q \in Rolling(k)' |-> task'[q].account]
<1>5. Prospects(k)' = Targets(k)'
  BY DEF Prospects
<1>6. f \in Surjection(Rolling(k)', Prospects(k)')
  BY <1>5 DEF Targets, Surjection
<1>7. IsFiniteSet(Prospects(k)') /\ Cardinality(Prospects(k)') <= Cardinality(Rolling(k)')
  <2> HIDE DEF f
  <2> QED
    BY <1>2, <1>6, FS_Surjection
<1>8. Cardinality(Prospects(k)') \in Nat
  BY <1>7, FS_CardinalityType
<1> QED
  BY <1>2, <1>3, <1>4, <1>7, <1>8, Finite DEF Share

LEMMA ShareStep ==
    ASSUME RowsInv, ShareInv, [Next]_vars
    PROVE  ShareInv'
<1> SUFFICES ASSUME NEW k \in Keys, Share(k) PROVE Share(k)'
  BY DEF ShareInv
<1> USE ConstantsAssumption DEF RowsInv, TypeOK, TasksOK, Task, Become
<1>1. ASSUME UNCHANGED publicKey, NEW p \in Procs, \A q \in Procs \ {p} : task'[q] = task[q],
             task'[p].pc \notin {"na_insert", "kc_commit"}
      PROVE  Share(k)'
  <2>1. Prospects(k)' \subseteq Prospects(k)
    BY <1>1 DEF Prospects, HoldersOf, Targets, Rolling
  <2>2. Inserting(k)' \subseteq Inserting(k)
    BY <1>1 DEF Inserting
  <2> QED
    BY <2>1, <2>2, ShareKept
<1>2. ASSUME NEW p \in Procs, NEW j \in Keys, PostNewAccount(p, j) PROVE Share(k)'
  BY <1>1, <1>2 DEF PostNewAccount, Idle
<1>3. ASSUME NEW p \in Procs, NEW only \in BOOLEAN, NewAccountLookup(p, only) PROVE Share(k)'
  <2>0. UNCHANGED publicKey /\ \A q \in Procs \ {p} : task'[q] = task[q]
    BY <1>3 DEF NewAccountLookup
  <2>1. CASE task' = [task EXCEPT ![p] = Idle]
    BY <1>1, <2>0, <2>1 DEF Idle
  <2>2. CASE HoldersOf(task[p].signer) = {} /\ task' = [task EXCEPT ![p] = [task[p] EXCEPT !.pc = "na_insert"]]
    <3>1. task'[p].pc = "na_insert" /\ task'[p].signer = task[p].signer
      BY <2>2
    <3>2. CASE task[p].signer = k
      <4>1. HoldersOf(k)' = {}
        BY <2>0, <2>2, <3>2 DEF HoldersOf
      <4> QED
        BY <4>1, ShareFresh
    <3>3. CASE task[p].signer # k
      <4>1. Prospects(k)' \subseteq Prospects(k)
        BY <2>0, <3>1 DEF Prospects, HoldersOf, Targets, Rolling
      <4>2. Inserting(k)' \subseteq Inserting(k)
        BY <2>0, <3>1, <3>3 DEF Inserting
      <4> QED
        BY <4>1, <4>2, ShareKept
    <3> QED
      BY <3>2, <3>3
  <2> QED
    BY <1>3, <2>1, <2>2 DEF NewAccountLookup
<1>4. ASSUME NEW p \in Procs, NEW a \in AccountIds, NewAccountInsert(p, a) PROVE Share(k)'
  <2>0. task'[p].pc = "idle" /\ \A q \in Procs \ {p} : task'[q] = task[q]
    BY <1>4 DEF NewAccountInsert, Idle
  <2>1. Targets(k)' \subseteq Targets(k)
    BY <2>0 DEF Targets, Rolling
  <2>2. CASE task[p].signer = k
    <3>1. Prospects(k)' \subseteq Prospects(k) \union {a}
      BY <1>4, <2>1 DEF NewAccountInsert, Prospects, HoldersOf
    <3>2. p \in Inserting(k) /\ Inserting(k)' = Inserting(k) \ {p}
      BY <1>4, <2>0, <2>2 DEF NewAccountInsert, Inserting
    <3>3. Cardinality(Inserting(k)') = Cardinality(Inserting(k)) - 1
      BY <3>2, Finite, FS_RemoveElement
    <3>4. /\ IsFiniteSet(Prospects(k) \union {a})
          /\ Cardinality(Prospects(k) \union {a}) \in {Cardinality(Prospects(k)), Cardinality(Prospects(k)) + 1}
          /\ Cardinality(Prospects(k)) \in Nat
      BY FS_AddElement, FS_CardinalityType DEF Share
    <3>5. IsFiniteSet(Prospects(k)') /\ Cardinality(Prospects(k)') <= Cardinality(Prospects(k) \union {a})
      BY <3>1, <3>4, FS_Subset
    <3>6. Cardinality(Prospects(k)') \in Nat
      BY <3>5, FS_CardinalityType
    <3> QED
      BY <3>3, <3>4, <3>5, <3>6, Finite DEF Share
  <2>3. CASE task[p].signer # k
    <3>1. Prospects(k)' \subseteq Prospects(k)
      BY <1>4, <2>1, <2>3 DEF NewAccountInsert, Prospects, HoldersOf
    <3>2. Inserting(k)' \subseteq Inserting(k)
      BY <2>0 DEF Inserting
    <3> QED
      BY <3>1, <3>2, ShareKept
  <2> QED
    BY <2>2, <2>3
<1>5. ASSUME NEW p \in Procs, NEW a \in AccountIds, NEW j \in Keys, NEW old \in Keys, NEW new \in Keys,
             PostKeyChange(p, a, j, old, new)
      PROVE  Share(k)'
  BY <1>1, <1>5 DEF PostKeyChange
<1>6. ASSUME NEW p \in Procs, KeyChangeLoad(p) PROVE Share(k)'
  <2>1. UNCHANGED publicKey /\ \A q \in Procs \ {p} : task'[q] = task[q]
    BY <1>6 DEF KeyChangeLoad
  <2>2. task'[p].pc \notin {"na_insert", "kc_commit"}
    BY <1>6 DEF KeyChangeLoad, Idle
  <2> QED
    BY <1>1, <2>1, <2>2
<1>7. ASSUME NEW p \in Procs, KeyChangeUnique(p) PROVE Share(k)'
  <2>0. UNCHANGED publicKey /\ \A q \in Procs \ {p} : task'[q] = task[q]
    BY <1>7 DEF KeyChangeUnique
  <2>1. CASE task' = [task EXCEPT ![p] = Idle]
    BY <1>1, <2>0, <2>1 DEF Idle
  <2>2. CASE /\ HoldersOf(task[p].newKey) \subseteq {task[p].account}
             /\ task' = [task EXCEPT ![p] = [task[p] EXCEPT !.pc = "kc_commit"]]
    <3>1. task'[p].pc = "kc_commit" /\ task'[p].newKey = task[p].newKey /\ task'[p].account = task[p].account
      BY <2>2
    <3>2. CASE task[p].newKey = k
      <4>1. p \in Rolling(k)'
        BY <3>1, <3>2 DEF Rolling
      <4>2. HoldersOf(k)' \subseteq {task'[p].account}
        BY <2>0, <2>2, <3>1, <3>2 DEF HoldersOf
      <4>3. HoldersOf(k)' \subseteq Targets(k)'
        BY <4>1, <4>2 DEF Targets
      <4> QED
        BY <4>3, ShareFresh
    <3>3. CASE task[p].newKey # k
      <4>1. Prospects(k)' \subseteq Prospects(k)
        BY <2>0, <3>1, <3>3 DEF Prospects, HoldersOf, Targets, Rolling
      <4>2. Inserting(k)' \subseteq Inserting(k)
        BY <2>0, <3>1 DEF Inserting
      <4> QED
        BY <4>1, <4>2, ShareKept
    <3> QED
      BY <3>2, <3>3
  <2> QED
    BY <1>7, <2>1, <2>2 DEF KeyChangeUnique
<1>8. ASSUME NEW p \in Procs, KeyChangeCommit(p) PROVE Share(k)'
  <2>0. task'[p].pc = "idle" /\ \A q \in Procs \ {p} :
            /\ task'[q].pc = task[q].pc /\ task'[q].signer = task[q].signer
            /\ task'[q].newKey = task[q].newKey /\ task'[q].account = task[q].account
    BY <1>8 DEF KeyChangeCommit, Idle
  <2>1. Inserting(k)' \subseteq Inserting(k) /\ Targets(k)' \subseteq Targets(k)
    BY <2>0 DEF Inserting, Targets, Rolling
  <2>2. \A a \in HoldersOf(k)' : a \in HoldersOf(k) \/ (a = task[p].account /\ task[p].newKey = k)
    BY <1>8 DEF KeyChangeCommit, HoldersOf
  <2>3. task[p].newKey = k => task[p].account \in Targets(k)
    BY <1>8 DEF KeyChangeCommit, Targets, Rolling
  <2>4. Prospects(k)' \subseteq Prospects(k)
    BY <2>1, <2>2, <2>3 DEF Prospects
  <2> QED
    BY <2>1, <2>4, ShareKept
<1>9. ASSUME NEW p \in Procs, DbError(p) PROVE Share(k)'
  BY <1>1, <1>9 DEF DbError, Idle
<1>10. CASE UNCHANGED vars
  <2>1. Prospects(k)' = Prospects(k) /\ Inserting(k)' = Inserting(k)
    BY <1>10 DEF vars, Prospects, HoldersOf, Targets, Rolling, Inserting
  <2> QED
    BY <2>1, ShareKept
<1> QED
  BY <1>2, <1>3, <1>4, <1>5, <1>6, <1>7, <1>8, <1>9, <1>10 DEF Next

LEMMA ShareInvariant == Spec => []ShareInv
<1>1. Init => ShareInv
  <2> SUFFICES ASSUME Init, NEW k \in Keys PROVE Share(k)
    BY DEF ShareInv
  <2>1. Prospects(k) = {} /\ Inserting(k) = {}
    BY ConstantsAssumption DEF Init, Idle, Prospects, HoldersOf, Targets, Rolling, Inserting
  <2> QED
    BY <2>1, Finite, FS_EmptySet DEF Share
<1>2. RowsInv /\ ShareInv /\ [Next]_vars => ShareInv'
  BY ShareStep
<1> QED
  BY <1>1, <1>2, RowsInvariant, PTL DEF Spec

(* No key belongs to more accounts than requests run at once.              *)
THEOREM KeySharersBounded == Spec => []SharersBounded
<1>1. ShareInv => SharersBounded
  <2> SUFFICES ASSUME NEW k \in Keys, Share(k) PROVE Cardinality(HoldersOf(k)) <= Cardinality(Procs)
    BY DEF ShareInv, SharersBounded
  <2>1. IsFiniteSet(HoldersOf(k)) /\ Cardinality(HoldersOf(k)) <= Cardinality(Prospects(k))
    BY FS_Subset DEF Share, Prospects
  <2>2. Cardinality(HoldersOf(k)) \in Nat /\ Cardinality(Prospects(k)) \in Nat
    BY <2>1, FS_CardinalityType DEF Share
  <2> QED
    BY <2>1, <2>2, Finite DEF Share
<1> QED
  BY <1>1, ShareInvariant, PTL

(* In particular, while requests do not overlap no two accounts share a    *)
(* key, whatever new_account and key_change are asked for.                 *)
UniqueKeys == \A a, b \in AccountIds : Exists(a) /\ publicKey[a] = publicKey[b] => a = b

THEOREM SequentialKeysUnique == ASSUME Cardinality(Procs) = 1 PROVE Spec => []UniqueKeys
<1>1. TypeOK /\ ShareInv => UniqueKeys
  <2> SUFFICES ASSUME TypeOK, ShareInv, NEW a \in AccountIds, NEW b \in AccountIds, Exists(a), publicKey[a] = publicKey[b]
               PROVE  a = b
    BY DEF UniqueKeys
  <2> DEFINE k == publicKey[a]
  <2>1. k \in Keys /\ Share(k) /\ {a, b} \subseteq Prospects(k)
    BY DEF TypeOK, Exists, ShareInv, Prospects, HoldersOf
  <2>2. Cardinality(Prospects(k)) <= 1 /\ Cardinality(Prospects(k)) \in Nat /\ IsFiniteSet(Prospects(k))
    BY <2>1, Finite, FS_CardinalityType DEF Share
  <2>3. Cardinality(Prospects(k)) = 0 => Prospects(k) = {}
    BY <2>2, FS_EmptySet
  <2>4. Cardinality(Prospects(k)) = 1 => \E x : Prospects(k) = {x}
    BY <2>2, FS_Singleton
  <2> QED
    BY <2>1, <2>2, <2>3, <2>4
<1> QED
  BY <1>1, TypeCorrect, ShareInvariant, PTL
===============================================================================
