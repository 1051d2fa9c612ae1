-------------------------------- MODULE Nonces --------------------------------
(***************************************************************************)
(* Replay protection: the nonces table, the request path that spends a     *)
(* nonce (verify_jws, consume_nonce), the middleware that puts a fresh one *)
(* on every HEAD and POST response (generate_nonce), and the background    *)
(* loop that deletes old rows (prune_nonces, _prune_loop).                 *)
(*                                                                         *)
(* One step is one database statement with its commit.  A cutoff time is   *)
(* computed before its statement runs, and the statement may have to wait  *)
(* for the write lock: hence asOf, the time a coroutine last looked at.    *)
(***************************************************************************)
EXTENDS Naturals, FiniteSets

CONSTANTS Values,       \* nonce values; a random value is never drawn twice
          NoValue,      \* the nonce of a coroutine that carries none
          Procs,        \* requests in progress at once
          NonceMax,     \* NONCE_MAX: cap on the stored rows, 0 for none
          Ttl,          \* NONCE_TTL
          MaxTime,      \* bound on the clock
          DbErrors      \* may a database statement fail?

ASSUME ConstantsAssumption ==
    /\ NoValue \notin Values
    /\ IsFiniteSet(Values) /\ IsFiniteSet(Procs) /\ Procs # {}
    /\ NonceMax \in Nat /\ Ttl \in Nat /\ MaxTime \in Nat
    /\ DbErrors \in BOOLEAN

VARIABLES
    row,            \* state of each value's row: unissued, fresh, used, deleted
    created,        \* created_at of each row
    now,            \* the clock
    task,           \* the requests in progress
    pruner,         \* the prune loop: "asleep", "delete" (cutoff taken), "dead"
    pruneAsOf,      \* the time its cutoff was computed from
    authenticated   \* history: how often a value authenticated a request

vars == <<row, created, now, task, pruner, pruneAsOf, authenticated>>

Stored == {n \in Values : row[n] \in {"fresh", "used"}}

Task == [pc : {"idle", "consume", "count", "insert"}, nonce : Values \union {NoValue}, asOf : Nat]
Idle == [pc |-> "idle", nonce |-> NoValue, asOf |-> 0]

Become(p, t) == task' = [task EXCEPT ![p] = t]
At(pc) == [Idle EXCEPT !.pc = pc]

Init ==
    /\ row = [n \in Values |-> "unissued"]
    /\ created = [n \in Values |-> 0]
    /\ now = 0
    /\ task = [p \in Procs |-> Idle]
    /\ pruner = "asleep"
    /\ pruneAsOf = 0
    /\ authenticated = [n \in Values |-> 0]

-------------------------------------------------------------------------------
(* HEAD or POST /acme/new-nonce: the handler does nothing, the middleware  *)
(* does the rest.                                                          *)
NewNonce(p) ==
    /\ task[p].pc = "idle"
    /\ Become(p, At("count"))
    /\ UNCHANGED <<row, created, now, pruner, pruneAsOf, authenticated>>

(* Faulty variant of PostJws: the nonce is spent before the signature is   *)
(* looked at.                                                              *)
PostJwsNonceFirst(p, n, genuine) ==
    /\ task[p].pc = "idle"
    /\ Become(p, IF genuine THEN [pc |-> "consume", nonce |-> n, asOf |-> now] ELSE At("count"))
    /\ row' = [row EXCEPT ![n] = IF ~genuine /\ @ = "fresh" THEN "used" ELSE @]
    /\ UNCHANGED <<created, now, pruner, pruneAsOf, authenticated>>

(* A JWS request that carries value n, possibly one the relay never issued *)
(* or has seen before.  verify_jws checks everything else first, the       *)
(* signature last, and turns to the nonce only if the request is genuine;  *)
(* a refusal is a response too and goes to the middleware.                 *)
PostJws(p, n, genuine) ==
    /\ task[p].pc = "idle"
    /\ Become(p, IF genuine THEN [pc |-> "consume", nonce |-> n, asOf |-> now] ELSE At("count"))
    /\ UNCHANGED <<row, created, now, pruner, pruneAsOf, authenticated>>

(* Faulty variant of ConsumeNonce: the UPDATE does not ask for ~used.      *)
ConsumeNonceIgnoringUsed(p) ==
    /\ task[p].pc = "consume"
    /\ LET n == task[p].nonce
           matches == n \in Stored /\ created[n] + Ttl >= task[p].asOf
       IN
       /\ row' = [row EXCEPT ![n] = IF matches THEN "used" ELSE @]
       /\ authenticated' = [authenticated EXCEPT ![n] = IF matches THEN @ + 1 ELSE @]
    /\ Become(p, At("count"))
    /\ UNCHANGED <<created, now, pruner, pruneAsOf>>

(* consume_nonce: one conditional UPDATE.  The request goes on to its      *)
(* handler only if a row was matched; either way a response follows.       *)
ConsumeNonce(p) ==
    /\ task[p].pc = "consume"
    /\ LET n == task[p].nonce
           matches == row[n] = "fresh" /\ created[n] + Ttl >= task[p].asOf
       IN
       /\ row' = [row EXCEPT ![n] = IF matches THEN "used" ELSE @]
       /\ authenticated' = [authenticated EXCEPT ![n] = IF matches THEN @ + 1 ELSE @]
    /\ Become(p, At("count"))
    /\ UNCHANGED <<created, now, pruner, pruneAsOf>>

(* Faulty variant of CountNonces: > for >=.                                *)
CountNoncesOffByOne(p) ==
    /\ task[p].pc = "count"
    /\ Become(p, IF NonceMax > 0 /\ Cardinality(Stored) > NonceMax
                 THEN Idle ELSE [At("insert") EXCEPT !.asOf = now])
    /\ UNCHANGED <<row, created, now, pruner, pruneAsOf, authenticated>>

(* generate_nonce, first half: at the cap the header is omitted. *)
CountNonces(p) ==
    /\ task[p].pc = "count"
    /\ Become(p, IF NonceMax > 0 /\ Cardinality(Stored) >= NonceMax
                 THEN Idle ELSE [At("insert") EXCEPT !.asOf = now])
    /\ UNCHANGED <<row, created, now, pruner, pruneAsOf, authenticated>>

(* Second half: a new random value is inserted; its created_at is some     *)
(* time since the count, as the INSERT may have to wait.  (Bound: no value *)
(* is issued so late that MaxTime would stop the clock before it expires.) *)
InsertNonce(p, n) ==
    /\ task[p].pc = "insert"
    /\ row[n] = "unissued" /\ now + Ttl < MaxTime
    /\ row' = [row EXCEPT ![n] = "fresh"]
    /\ \E t \in task[p].asOf..now : created' = [created EXCEPT ![n] = t]
    /\ Become(p, Idle)
    /\ UNCHANGED <<now, pruner, pruneAsOf, authenticated>>

-------------------------------------------------------------------------------
(* _prune_loop wakes up and computes its cutoff ... *)
PruneWake ==
    /\ pruner = "asleep"
    /\ pruner' = "delete"
    /\ pruneAsOf' = now
    /\ UNCHANGED <<row, created, now, task, authenticated>>

(* Faulty variants of PruneNonces: rows at the very end of their life are  *)
(* deleted too; only used rows are deleted.                                *)
PruneAtTtl ==
    /\ pruner = "delete"
    /\ row' = [n \in Values |-> IF n \in Stored /\ created[n] + Ttl <= pruneAsOf
                                THEN "deleted" ELSE row[n]]
    /\ pruner' = "asleep"
    /\ UNCHANGED <<created, now, task, pruneAsOf, authenticated>>

PruneUsedOnly ==
    /\ pruner = "delete"
    /\ row' = [n \in Values |-> IF row[n] = "used" /\ created[n] + Ttl < pruneAsOf
                                THEN "deleted" ELSE row[n]]
    /\ pruner' = "asleep"
    /\ UNCHANGED <<created, now, task, pruneAsOf, authenticated>>

(* ... and deletes the rows older than that. *)
PruneNonces ==
    /\ pruner = "delete"
    /\ row' = [n \in Values |-> IF n \in Stored /\ created[n] + Ttl < pruneAsOf
                                THEN "deleted" ELSE row[n]]
    /\ pruner' = "asleep"
    /\ UNCHANGED <<created, now, task, pruneAsOf, authenticated>>

(* A statement fails: a request ends in a 500 without a nonce, the prune   *)
(* loop ends for good, since nothing in it catches the exception and       *)
(* nobody awaits its task.                                                 *)
DbError(p) ==
    /\ DbErrors
    /\ task[p].pc # "idle"
    /\ Become(p, Idle)
    /\ UNCHANGED <<row, created, now, pruner, pruneAsOf, authenticated>>

PruneError ==
    /\ DbErrors
    /\ pruner = "delete"
    /\ pruner' = "dead"
    /\ UNCHANGED <<row, created, now, task, pruneAsOf, authenticated>>

(* The rows outlive the process; lifespan starts a new prune loop. *)
Restart ==
    /\ task' = [p \in Procs |-> Idle]
    /\ pruner' = "asleep"
    /\ UNCHANGED <<row, created, now, pruneAsOf, authenticated>>

Tick ==
    /\ now < MaxTime
    /\ now' = now + 1
    /\ UNCHANGED <<row, created, task, pruner, pruneAsOf, authenticated>>

-------------------------------------------------------------------------------
Request(p) ==
    \/ NewNonce(p)
    \/ \E n \in Values, genuine \in BOOLEAN : PostJws(p, n, genuine)

Serve(p) == ConsumeNonce(p) \/ CountNonces(p) \/ \E n \in Values : InsertNonce(p, n)

Next ==
    \/ \E p \in Procs : Request(p) \/ Serve(p) \/ DbError(p)
    \/ PruneWake \/ PruneNonces \/ PruneError
    \/ Restart \/ Tick

Spec == Init /\ [][Next]_vars

(* Time passes, the event loop wakes the pruner whenever its sleep is over *)
(* and its statement gets the lock.  Fairness is strong because a restart  *)
(* cuts a round short: a process that is restarted for ever within a       *)
(* minute of starting never prunes, and that is excluded here.             *)
FairSpec == Spec /\ WF_vars(Tick) /\ WF_vars(PruneWake) /\ SF_vars(PruneNonces)

-------------------------------------------------------------------------------
(* A request that is about to consume a nonce carries one. *)
TasksOK ==
    /\ task \in [Procs -> Task]
    /\ \A p \in Procs : task[p].pc = "consume" => task[p].nonce \in Values

(* Every variable has its type. *)
TypeOK ==
    /\ row \in [Values -> {"unissued", "fresh", "used", "deleted"}]
    /\ created \in [Values -> Nat]
    /\ now \in Nat
    /\ TasksOK
    /\ pruner \in {"asleep", "delete", "dead"}
    /\ pruneAsOf \in Nat
    /\ authenticated \in [Values -> Nat]

(* No value authenticates two requests, however requests carrying the same *)
(* value race each other, the pruner and restarts (consume_nonce's single  *)
(* conditional UPDATE).                                                    *)
NoReplay == \A n \in Values : authenticated[n] <= 1

(* verify_jws spends a nonce only after the signature is verified: every   *)
(* used row was used by a request that was genuine, so a forged request    *)
(* cannot burn the nonce a client still holds.                             *)
NoneBurned == \A n \in Values : row[n] = "used" => authenticated[n] = 1

(* generate_nonce counts and inserts in two steps, so the table can grow   *)
(* past NONCE_MAX, but never by as many rows as there are requests in      *)
(* progress.                                                               *)
CapOvershoot ==
    NonceMax > 0 => Cardinality(Stored) <= NonceMax + Cardinality(Procs) - 1

(* prune_nonces and consume_nonce draw the same line: a row that is        *)
(* deleted unused is one that consume_nonce would refuse by now.           *)
OnlyExpiredPruned ==
    [][\A n \in Values : row[n] = "fresh" /\ row'[n] = "deleted" => created[n] + Ttl < now]_vars

(* A row is issued once, spent at most once and deleted once: no value     *)
(* comes back by any order of requests, pruning and restarts.              *)
RowsMoveForward ==
    [][\A n \in Values :
          /\ row[n] = "used" => row'[n] \in {"used", "deleted"}
          /\ row[n] = "deleted" => row'[n] = "deleted"
          /\ row[n] # "unissued" => row'[n] # "unissued" /\ created'[n] = created[n]]_vars

(* NONCE_MAX taken at its word: never more rows than that.                 *)
CapExact == NonceMax > 0 => Cardinality(Stored) <= NonceMax

(* A table at its cap drains for as long as the prune loop of main.py is   *)
(* alive: issuing resumes once the backlog has expired.                    *)
CapDrainsWhilePruning ==
    NonceMax > 0 =>
        (Cardinality(Stored) >= NonceMax) ~> (Cardinality(Stored) < NonceMax \/ pruner = "dead")
===============================================================================
