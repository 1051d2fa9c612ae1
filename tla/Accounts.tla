------------------------------- MODULE Accounts -------------------------------
(***************************************************************************)
(* Accounts and their keys: the new-account route (look a key up, else     *)
(* insert an account), the key-change route (check the old key, check that *)
(* the new one is free, write), and the signature check of verify_jws that *)
(* ties a request to an account.                                           *)
(*                                                                         *)
(* accounts.public_key is indexed but not unique, and each route reads and *)
(* writes in separate statements, so one step of the model is one          *)
(* statement.  A JWS is the key that signed it.  A key is its canonical    *)
(* JWK, the string that public_key stores and the routes compare: the same *)
(* key material with additional JWK members is another key here.           *)
(***************************************************************************)
EXTENDS Naturals, FiniteSets

CONSTANTS AccountIds,   \* accounts that may be created
          Keys,         \* client keys (canonical_jwk strings)
          NoKey,        \* key of an account that does not exist
          NoAccount,    \* account of a request that names none
          Procs,        \* requests in progress at once
          DbErrors      \* may a database statement fail?

ASSUME ConstantsAssumption ==
    /\ NoKey \notin Keys /\ NoAccount \notin AccountIds
    /\ IsFiniteSet(Procs)
    /\ DbErrors \in BOOLEAN

VARIABLES
    publicKey,  \* accounts.public_key by account
    task        \* requests in progress

vars == <<publicKey, task>>

(* signer: key of the (outer) JWS; newKey and oldKey: key of the inner JWS *)
(* and the key its payload names; seen: the account's key as loaded;       *)
(* outdated and raced (history): that key has been replaced since the      *)
(* outer signature was checked against it, and since it was loaded.        *)
Task == [ pc       : {"idle", "na_lookup", "na_insert", "kc_load", "kc_unique", "kc_commit"},
          account  : AccountIds \union {NoAccount},
          signer   : Keys \union {NoKey},
          newKey   : Keys \union {NoKey},
          oldKey   : Keys \union {NoKey},
          seen     : Keys \union {NoKey},
          outdated : BOOLEAN,
          raced    : BOOLEAN ]

Idle == [pc |-> "idle", account |-> NoAccount, signer |-> NoKey, newKey |-> NoKey,
         oldKey |-> NoKey, seen |-> NoKey, outdated |-> FALSE, raced |-> FALSE]

Become(p, t) == task' = [task EXCEPT ![p] = t]
Exists(a)    == publicKey[a] # NoKey
HoldersOf(k) == {a \in AccountIds : publicKey[a] = k}

Init ==
    /\ publicKey = [a \in AccountIds |-> NoKey]
    /\ task = [p \in Procs |-> Idle]

-------------------------------------------------------------------------------
(* new_account: verify_jws accepts any key that comes in the jwk header. *)
PostNewAccount(p, k) ==
    /\ task[p].pc = "idle"
    /\ Become(p, [Idle EXCEPT !.pc = "na_lookup", !.signer = k])
    /\ UNCHANGED publicKey

(* The look-up by key: an existing account is returned (two of them are an *)
(* error), and a client may ask for no more than that.                     *)
NewAccountLookup(p, onlyReturnExisting) ==
    /\ task[p].pc = "na_lookup"
    /\ Become(p, IF HoldersOf(task[p].signer) # {} \/ onlyReturnExisting
                 THEN Idle ELSE [task[p] EXCEPT !.pc = "na_insert"])
    /\ UNCHANGED publicKey

(* A row with a fresh id is inserted. *)
NewAccountInsert(p, a) ==
    /\ task[p].pc = "na_insert"
    /\ ~Exists(a)
    /\ publicKey' = [publicKey EXCEPT ![a] = task[p].signer]
    /\ Become(p, Idle)

-------------------------------------------------------------------------------
(* key_change: verify_jws checks the outer signature against the key of    *)
(* the account that kid names.  The inner JWS, signed by the new key,      *)
(* names the account and the old key; whatever is wrong with its own       *)
(* signature or account is refused without a write.                        *)
PostKeyChange(p, a, k, old, new) ==
    /\ task[p].pc = "idle"
    /\ Exists(a) /\ publicKey[a] = k
    /\ Become(p, [pc |-> "kc_load", account |-> a, signer |-> k, newKey |-> new,
                  oldKey |-> old, seen |-> NoKey, outdated |-> FALSE, raced |-> FALSE])
    /\ UNCHANGED publicKey

(* Faulty variant of KeyChangeLoad: oldKey is not compared.                *)
KeyChangeLoadUnchecked(p) ==
    /\ task[p].pc = "kc_load"
    /\ Become(p, [task[p] EXCEPT !.pc = "kc_unique", !.seen = publicKey[task[p].account]])
    /\ UNCHANGED publicKey

(* The account is loaded a second time, after the nonce was consumed, and  *)
(* _verify_inner_jws compares oldKey with the loaded key.                  *)
KeyChangeLoad(p) ==
    /\ task[p].pc = "kc_load"
    /\ LET current == publicKey[task[p].account] IN
       Become(p, IF task[p].oldKey = current
                 THEN [task[p] EXCEPT !.pc = "kc_unique", !.seen = current] ELSE Idle)
    /\ UNCHANGED publicKey

(* Faulty variant of KeyChangeUnique: the new key is not looked up.        *)
KeyChangeNotUnique(p) ==
    /\ task[p].pc = "kc_unique"
    /\ Become(p, [task[p] EXCEPT !.pc = "kc_commit"])
    /\ UNCHANGED publicKey

(* The new key must not belong to another account. *)
KeyChangeUnique(p) ==
    /\ task[p].pc = "kc_unique"
    /\ Become(p, IF HoldersOf(task[p].newKey) \subseteq {task[p].account}
                 THEN [task[p] EXCEPT !.pc = "kc_commit"] ELSE Idle)
    /\ UNCHANGED publicKey

(* The ORM writes the column only if the new key differs from the loaded   *)
(* one.                                                                    *)
KeyChangeCommit(p) ==
    /\ task[p].pc = "kc_commit"
    /\ LET t == task[p]
           write == t.newKey # t.seen
           overtaken(q, pcs) == write /\ task[q].account = t.account /\ task[q].pc \in pcs
       IN
       /\ publicKey' = [publicKey EXCEPT ![t.account] = IF write THEN t.newKey ELSE @]
       /\ task' = [q \in Procs |-> IF q = p THEN Idle
                                   ELSE [task[q] EXCEPT
                           !.outdated = @ \/ overtaken(q, {"kc_load", "kc_unique", "kc_commit"}),
                           !.raced = @ \/ overtaken(q, {"kc_unique", "kc_commit"})]]

-------------------------------------------------------------------------------
(* A failed statement, a restart: the request ends without a write.        *)
DbError(p) ==
    /\ DbErrors
    /\ task[p].pc # "idle"
    /\ Become(p, Idle)
    /\ UNCHANGED publicKey

Next ==
    \E p \in Procs :
        \/ \E k \in Keys : PostNewAccount(p, k)
        \/ \E only \in BOOLEAN : NewAccountLookup(p, only)
        \/ \E a \in AccountIds : NewAccountInsert(p, a)
        \/ \E a \in AccountIds, k, old, new \in Keys : PostKeyChange(p, a, k, old, new)
        \/ KeyChangeLoad(p) \/ KeyChangeUnique(p) \/ KeyChangeCommit(p)
        \/ DbError(p)

Spec == Init /\ [][Next]_vars

-------------------------------------------------------------------------------
(* A key-change in progress names an account. *)
TasksOK ==
    /\ task \in [Procs -> Task]
    /\ \A p \in Procs : task[p].pc \in {"kc_load", "kc_unique", "kc_commit"} =>
          /\ task[p].account \in AccountIds
          /\ task[p].signer \in Keys /\ task[p].newKey \in Keys
    /\ \A p \in Procs : task[p].pc \in {"na_lookup", "na_insert"} => task[p].signer \in Keys

(* Every variable has its type. *)
TypeOK ==
    /\ publicKey \in [AccountIds -> Keys \union {NoKey}]
    /\ TasksOK

(* accounts.public_key is not unique, and both routes check and write in   *)
(* separate statements, so requests that overlap can give a key to several *)
(* accounts; but never to more accounts than requests ran at once, however *)
(* long the relay runs: a key that an account holds is not given out again.*)
SharersBounded == \A k \in Keys : Cardinality(HoldersOf(k)) <= Cardinality(Procs)

(* key_change checks the current key twice: verify_jws the signature, and  *)
(* _verify_inner_jws the oldKey, against the row as loaded then.  So a key *)
(* that was rolled away can still change something only through a request  *)
(* that another one overtook between these very checks and its commit: one *)
(* whose oldKey is stale after it loaded the account, one whose signer is  *)
(* stale after its signature was checked.                                  *)
RollsCurrentKey ==
    [][\A a \in AccountIds : Exists(a) /\ publicKey'[a] # publicKey[a] =>
          \E p \in Procs :
              /\ task[p].pc = "kc_commit" /\ task'[p] = Idle /\ task[p].account = a
              /\ task[p].oldKey = publicKey[a] \/ task[p].raced
              /\ task[p].signer = publicKey[a] \/ task[p].outdated]_vars
===============================================================================
