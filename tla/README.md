# A TLA+ verification of jackdaw

jackdaw is an ACME relay. Inside a private network it speaks RFC 8555 to ACME
clients, checks their challenges itself by HTTP-01, and then obtains the real
certificate from a public CA (Let's Encrypt) by DNS-01 through a DNS provider's
API. It is one asyncio process on SQLite: concurrency means interleaved
coroutines that meet in the database, in two in-memory lock maps, at the CA and
in the DNS zone. That is where tests reach least, and it is what most modules
here describe; the others follow one call (a challenge validation, a start-up)
through what the outside world can do to it.

The modules are kept beside the code: every definition that stands for code is
listed with its lines under `map` in `PROJECT.json`. Paths below are relative to
`src/src/jackdaw/`.

## The system

| Part | Code | State | Operations |
|---|---|---|---|
| Order life cycle | `routes/order.py`, `routes/challenge.py`, `routes/authz.py`, `services/ownership.py` | rows of `orders`, `authorizations` | new-order, challenge POST, finalize; POST-as-GET reads |
| Background worker | `worker.py`, `services/cert_store.py` | the same rows, `certificates` | `run_challenge`, `process_finalize`, `store_cert` |
| Start-up, shutdown | `main.py` | none of its own | sweep of processing rows, start and cancel of the loops |
| Replay nonces | `services/nonce.py`, `routes/nonce.py`, middleware in `main.py` | rows of `nonces` | `generate_nonce`, `consume_nonce`, `prune_nonces`, `_prune_loop` |
| JWS authentication | `services/jws.py` | none | resolve key and account, verify, spend the nonce |
| Accounts | `routes/account.py`, `routes/keychange.py` | rows of `accounts` | new-account, key-change |
| Upstream client | `services/le_client.py` (on gufo-acme) | `_order_urls`, a lock per domain | `order_cert`, `new_order`, `finalize_and_wait`, polling, DNS-01 hooks, `revoke_cert` |
| DNS providers | `dns/` | a lock per apex (Namecheap); the zone is outside | `set_txt`, `delete_txt` |
| Relay certificate | `services/relay_cert.py`, `serve.py` | two PEM files, the live `SSLContext` | boot, issue, two-file write, renewal loop, reload |
| HTTP-01 validator | `services/http01.py` | none | address check, fetch with retries, compare |
| Revocation | `routes/revoke.py`, `services/cert_store.py` | rows of `certificates`; the CA's revocations are outside | look-up by serial, look-up of legacy rows, forwarding |
| Database | `db/engine.py`, `migrations/` | the schema and its version row | create, reconcile, stamp, upgrade |
| The rest | `routes/{directory,cert,health,terms}.py`, `config.py`, `schemas/` | none | reads, declarations |

How they interact: a route verifies the JWS (which consumes a nonce), changes
rows, and hands a background task to the event loop; `run_challenge` calls the
HTTP-01 validator and writes the authorization and the order;
`process_finalize` calls `order_cert`, stores the certificate and publishes it
on the order. The renewal loop calls the same `order_cert` for the relay's own
name. On every HEAD and POST response the middleware issues a nonce. Nothing
that is in flight survives a restart except its rows.

What is hard: clients repeat requests, so several runs for one order overlap;
ORM objects are loaded, an `await` follows, and what is written back is the
difference to a row that may have moved on; statements can fail with "database
is locked" in tasks that nobody awaits; the process can stop between any two
commits, or between the renames of two files; the CA hands the same unfinished
order to two flows and may handle a request the client has given up; flows for
names of one zone write the same host list; a name resolves differently at
every attempt, and a server may answer a byte at a time; a start may be killed
in the middle of a migration. `PROJECT.json` lists these hazards
line by line, each with the properties that would catch it going wrong, or with a
note where the code is known to let it happen or no property reaches it.

What makes each part correct:

- orders: the CA is asked only on the strength of a validation; a valid order
  has its certificate; an invalid one says why; nothing stays `processing`;
  towards a client the status only moves forward;
- nonces: single use, spent only by genuine requests, bounded table that drains;
- accounts: a key that was rolled away acts only through a request that was
  overtaken, and how many accounts can come to share a key is bounded;
- HTTP-01: no connection to an address that was not checked, no success without
  a proof, the last attempt's problem is what the client sees, an end;
- admission and revocation: the quota is overshot by a bounded number, only owners
  revoke, an answer can be relied on;
- migrations: the version never claims too much, nothing is served on an old
  schema, an interrupted start can be repeated;
- upstream client and DNS: a challenge record stays until it is validated, no
  name's records are changed by another flow, a caller gets the certificate for
  its own CSR, both locks are always given back;
- relay certificate: no crash or failed write leaves files that are taken for a
  good pair or ends the renewals, the listener presents what is on disk, and the
  relay comes back.

## Modules

| Module | Role |
|---|---|
| `Orders` | routes, worker, certificate store, start-up sweep |
| `OrderLifecycle` | abstract specification: the promise to a client about an order |
| `OrderQuota` | admission of orders: the rate limit of new-order |
| `Revocation` | certificate rows and revoke-cert, composed with `OrderQuota` |
| `Http01` | one HTTP-01 validation with its retries |
| `Migrations` | start-up migrations of a file database, with crashes |
| `Nonces` | nonce table, JWS request path, middleware, prune loop |
| `Accounts` | new-account and key-change |
| `RelayCert` | boot, renewal, two-file write, reload, crashes |
| `Issuance` | `order_cert`, gufo's `sign`, DNS providers, the CA |
| `CertService` | abstract specification: what `order_cert` promises its callers |
| `MC...` | the instance for TLC: adds symmetry sets only |
| `...Proofs` | theorems about the module of that name |

`OrderLifecycle` is refined by `Orders` (`ImplementsLifecycle`), `CertService` by
`Issuance` (`ImplementsCertService`), and `Revocation` extends `OrderQuota`, whose orders its certificates belong to. The
others do not share variables: `Orders` sees a validation as one step with two
outcomes (`RcFetch`), which `Http01` details; it sees an issuance as one step with two outcomes
(`PfSign`), which `Issuance` details (`FairSpec` there shows that the step ends);
`RelayCert` sees it as `IssueOk`, `IssueForeign` and `IssueFail`, which are what
`CertService` allows a call: a certificate for its own CSR, one for the CSR of an
earlier call that failed, or an exception.

**Orders.** A coroutine is a slot of `task` with a program counter: first the
route's, then that of the background task the route starts. A step is one
database round trip or one await on the outside world. The atomicity is
SQLite's, as the sessions of the code use it: a SELECT holds nothing; the first
write of a session takes the write lock and COMMIT releases it, so what lies
between is one step (`AckCommit`, `RcCommit`). ORM semantics are kept, because
the races live there: an attribute is written only if it differs from the value
that was *loaded*, hence `seenAuthz` and `seenOrder`. `PostChallenge`,
`AckCommit` are `acknowledge_challenge`; `RcStart` .. `RcCommit` are
`run_challenge`; `PostFinalize`, `FinClaim` are `finalize_order`; `PfStart` ..
`PfCommit` are `process_finalize`; `Restart` is a stop at any moment followed by
`_reset_processing_orders`; `DbError` ends a coroutine at any statement.
`posts`, `proofs` and `claims` are history. An order has exactly one
authorization because `new_order` refuses anything else. The rate limit of
`new_order` is in `OrderQuota`. Not modelled: its identifier and policy checks
and those of the CSR (refusals before any write), and the
failures of row look-ups that cannot happen because rows are never deleted.

**OrderLifecycle.** The promise to a client: an order moves forward only, is issued
at most once, and becomes `valid` in the step that gives it its certificate. A
client that acknowledges a challenge twice gives that promise up (`forfeited`):
this is exactly what `Orders_one_claim` shows the code to do, and the promise
holds for every client that does not, whatever other clients do.

**OrderQuota, Revocation.** A new-order request computes the window, counts, and
inserts, with others in between; `created_at` is some time between the count and
the insert. A certificate row is found by its serial
(`indexed`), or is older than that column (`legacy`), or cannot be parsed
(`opaque`); the route looks for the first kind, then for the second. All
certificates belong to the relay's one account at the CA, so the CA revokes
whatever the relay forwards; a request the relay gave up on may be carried out
later. A client may present another certificate with the same serial, which the
CA refuses (`genuine`). `StoreCert` stands for the end of an issuance.

**Http01.** One validation; validations share no state. `Resolve` may give any
answer at any attempt. `ScanBlocked` and `ScanClear` are one iteration of the loop
over the answer each. The GET has no timeout of its own, only each wait for more
data has, so the model counts the time since something last arrived. `contacts`,
`proved` and `lastFailure` are history.

**Migrations.** One step is one statement that reaches the file. That DDL is
durable at once is how Python's sqlite3 driver and Alembic on SQLite behave;
neither is part of the repository. `Init` has every file a start may find:
none, a pre-Alembic one with any of the late columns and indexes, one at 0001,
one at head. A crash may fall between any two statements. `Reconcile` keeps the
guard for a missing table and the index that fails without one, although no
pre-Alembic file lacks a table that reconciliation names.

**Nonces.** One step is one statement. Cutoff times are taken before the
statement runs (`asOf`, `pruneAsOf`), so a slow statement works with an old
cutoff, and a new row's `created_at` is some time between the count and the
insert. A request that is not genuine goes to the middleware without touching
its nonce. Random values never repeat.

**Accounts.** One step is one statement. A JWS is the key that signed it, and a
key is the string `canonical_jwk` makes of a JWK (`_util.py:30-36`), which is what
the rows hold and the routes compare: a JWK with an additional member is another
key here and in the code, even for the same key material. `outdated` and `raced`
are history: whether the account's key has been replaced since the request's
signature was checked, and since its `oldKey` was compared.

**RelayCert.** Every call of `issue_relay_cert` makes a new key. A call that
reaches finalize has a number, which names its key, its CSR and the certificate
for that CSR; `got` is what `order_cert` returned to each call, and `strays` are
the calls cut off after the finalize was sent, whose certificate the CA may still
issue. A later call may be handed such a certificate (`IssueForeign`, the
behaviour that `Issuance_late_finalize` shows) and write it beside its own key,
since `issue_relay_cert` does not compare the two. A stray may also be an order of
a client for the relay's own name; the model has only the relay's calls, which
behave the same way. Of time only `fresh`, `due` and `expired` matter.
`IssueFail` is an issuance that raises, a temporary file that cannot be written,
or either rename failing. `init_account` can raise at boot, outside the `try`, and
in `lifespan`; both end the process. Two facts are taken from OpenSSL:
`load_cert_chain` accepts exactly matching files, and when it refuses a pair the
context has the new certificate and no key, so that no handshake succeeds until
the process is restarted (`live` is 0, `pc` is `dead`).

**Issuance.** One step is one HTTP call. `provider` is chosen once. Cloudflare
and Porkbun add and delete single records, Route 53 creates and deletes a record
set and refuses to create over one, Namecheap reads and replaces the whole host
list under a lock per apex. The CA and gufo-acme are not part of the repository
and are modelled from how the client uses them: any call may fail and may
nevertheless have been applied; unfinished orders are handed out again; a new
order is `ready` at once if the CA remembers the authorization; `finalize` is a
message that may be handled after the client has given up (`Interruptions`).
When a validation fails, `sign` raises before it clears the record, so the
record stays.

**CertService.** What is left of `Issuance` when locks, records and upstream
orders are taken away: a call is served or fails, once, with a certificate for its
domain that is given to nobody else. It would be natural to promise "for the
caller's own CSR"; the code does not keep that (`Issuance_late_finalize`), so the
promise is the one it keeps: a certificate for another call's CSR is returned only
after that call has failed.

## Runs

Passing runs:

| Run | Shows | Bounds |
|---|---|---|
| `Orders_safety` | A certificate is requested at most once per successful validation; an order without an account (a request signed by a bare `jwk`) never gets anywhere; a valid order names a stored certificate; an invalid one has a problem document; `Orders` implements `OrderLifecycle`. | 2 orders, 3 coroutines, 2 challenge POSTs each, failing statements and restarts |
| `Orders_liveness` | Without failing statements an order is `processing` only while a task works on it, and every processing order and authorization is moved on. | 1 order, 3 coroutines, 3 POSTs |
| `Nonces` | No replay, none burned, the cap overshot by fewer rows than requests, only expired rows pruned, a full table drains while the prune loop lives. | 3 values, 2 requests, cap 1, TTL 1, 3 clock ticks |
| `Accounts` | A key that is no longer current, as signer or as `oldKey`, changes something only through a request that was overtaken after the check in question; no more accounts share a key than requests run at once. | 3 accounts, 3 keys, 2 requests at once |
| `RelayCert` | No new certificate beside an old key; a fresh certificate is beside the key of the call it was returned to; the listener presents what is on disk; renewals and handshakes end only by a certificate for another call's CSR; the relay serves again; an expired certificate is replaced unless the listener is lost in that way. | 5 calls that reach finalize, 2 crashes |
| `Issuance` | Records stay until validated; only the own name is written; the order URL is at hand; `order_cert` implements `CertService`; Route 53 refuses a record only because of what an ended flow left; every flow ends. | 2 flows, 2 domains, 2 upstream orders, all providers |
| `Http01` | Connections go only to the preferred address of an answer without blocked addresses; a success was proved in its own attempt; the problem reported is the last attempt's; a validation ends unless it is fed for ever. | 4 addresses, answers of up to 3, `challenge_retries` 0 to 3, a timeout of 1 tick |
| `Migrations` | The version row is honest; only the current schema is served; a start fails only on a torn file; the relay comes back unless a file is torn. | every file a start may find, 3 crashes |
| `Revocation` | The order quota is overshot by less than the number of requests; only the owner of a certificate gets it revoked; a 200 is true and given once; no owner is refused. | 3 orders, 2 accounts, 2 new-order requests, limit 1, window 1, 4 clock ticks; 1 certificate, 1 revocation at a time |

Why the bounds are enough. Orders interact only in `Restart`, so two are enough;
three coroutines let two runs and a finalize overlap, and a second POST is what
it takes to run twice. More orders, coroutines and POSTs are covered by the
proofs. A cap of one is overshot with
two requests, and a row that is issued, expires and is pruned takes three ticks.
Two flows meet on the same name or on two names of a zone; a third adds no new
pair, and the safety properties are proved for any number. Five calls leave
room for one that is cut off, one that picks its certificate up, a torn write, its
repair and another renewal. Three attempts have a
first, a middle and a last; answers of three addresses can hide a blocked one
after both a first and an IPv4 choice. Three crashes can tear a reconciliation, a
stamp and a revision in one history. A limit of one is overshot by two requests,
and revocations meet only in what the CA has done before and does late, which one
request after the other reaches. In `Nonces` the clock
stops at `MaxTime`, so values are issued only while there is time to expire;
in `RelayCert` the last call gets its own certificate, which stays fresh and is
not followed by a crash, and a process whose renewal loop is dead may be restarted
beyond the bound on crashes.
`Issuance` may stop (`CHECK_DEADLOCK FALSE`): every flow is used once. All other
runs check for deadlock.

Symmetry is used in safety runs only, over coroutine slots, requests, accounts,
keys, certificates, flows, orders and domains: no definition distinguishes them.

Runs that refute a statement of the repository (each with an entry under
`findings`):

| Run | Statement | What happens |
|---|---|---|
| `Orders_one_claim` | "prevents duplicate runs", "exactly one request" wins the claim | A second challenge POST starts a second run, which ends after the claim and writes `ready` again; a second finalize claims again. `ClaimsBackedByProofs` is what does hold, and the statement itself if clients acknowledge once (`OneAckOneClaim`). |
| `Issuance_late_finalize` | the per-domain lock removes the hazard of finalizing an order twice | A finalize that was given up is handled late; the next flow gets `orderNotReady`, polls and returns a certificate for the first flow's CSR. `ImplementsCertService` is what does hold: the first flow had failed, and nobody else gets that certificate. |
| `Migrations_interrupted` | migration at start-up needs "no manual step" | A start killed between a revision's statement and its version row leaves a file on which every later start fails: 0002 adds its column again, 0001 creates its tables again. `FailsOnlyIfTorn` is what does hold; it takes an interruption (`UninterruptedStartsSucceed`). |

Further divergences met while modelling, which have no run of their own:

- the prune loop is said to run "for the lifetime of the process" (`main.py:54`);
  one failed DELETE ends it, and a full nonce table then stays full until a
  restart. `CapDrainsWhilePruning` is what does hold;
- "Reject if new key is already registered to a different account"
  (`routes/keychange.py:150`): look-up and write are separate statements and the
  column is not unique, so concurrent requests give accounts the same key.
  `SharersBounded` says how many;
- "a lingering TXT record is harmless" (`services/le_client.py:299`): at Route 53 it
  makes the next `set_txt` for that name fail. `RefusedByLeftoverOnly` says that
  nothing else does;
- `challenge_timeout` is "seconds per attempt" (`config.py:46`); it bounds each wait
  for data, an attempt can last as long as a server keeps sending, and the body is
  read whole before it is cut (`services/http01.py:267`). `EndsUnlessFed` excepts
  only that;
- `validate_http01` "Raises Http01ValidationError: Validation failed for any reason"
  (`services/http01.py:170`): a body with characters outside ASCII makes
  `compare_digest` raise TypeError, which is neither retried nor classified; and
  with `challenge_retries` at 0 nothing is raised and nothing was checked;
- `expires_at` is never compared with the clock (`routes/order.py:271`), while
  the repository's README says that an order can no longer be completed after 24
  hours;
- an order that failed once and is issued on a second claim keeps its `error`,
  which `db/models.py:45` says is NULL on success;
- a delayed acknowledgement takes a valid authorization of a `ready` order back
  to `processing` (`routes/challenge.py:49`) until its own run ends;
- a statement that fails in `process_finalize` outside `order_cert` leaves the
  order `processing` until the next restart (`worker.py:226`);
- of two overlapping key-changes the second overwrites a key that its `oldKey`
  no longer names (`routes/keychange.py:160`);
- "a loadable cert/key pair" (`serve.py:92`), "a usable relay certificate is on
  disk" (`serve.py:99`): `relay_cert_exists` does not compare certificate and key.
  After a torn write and a failed renewal boot falls back to a pair that does not
  load, and starts over. After `order_cert` has returned the certificate for an
  earlier call's CSR the pair on disk is fresh and does not load: every start fails
  until that certificate is due, about 60 days. `MismatchNeverTrusted` and
  `BuildFailsOnlyTorn` say that there are no other cases, `ServesAgain` that it ends;
- a renewed certificate needs no restart (`serve.py:5-7`,
  `services/relay_cert.py:131-133`): when such a pair is reloaded
  `load_cert_chain` raises outside the loop's `try` (`services/relay_cert.py:149`).
  The renewal loop is over and no handshake succeeds any more, while the health
  listener still answers. `LostOnlyByForeign` says that nothing else does this;
- "fall back to serving the existing cert" (`serve.py:103`): `init_account` is
  outside the `try` (`serve.py:111`), so that a CA or network that is down ends the
  process although the certificate on disk has days left;
- a certificate the CA has revoked already is answered with a 500 on the second
  request (`routes/revoke.py:115`), also when the first request was carried out and
  its client was told that it failed;
- a flow that fails between `new_order` and `finalize_and_wait` leaves its entry
  in `_order_urls` (`services/le_client.py:188`).

Every property of a passing run has a mutant in `PROJECT.json`: a variant of a
definition, kept in the module next to the original ("Faulty variant of ..."),
with which TLC finds the property violated.

## Fairness

- `Orders!FairSpec`: weak fairness of each coroutine. asyncio runs whatever is
  runnable, and an await on the outside ends; for the HTTP-01 fetch that is true
  only of servers that stop sending (`EndsUnlessFed`). Nothing is assumed of
  clients, of the outcome of calls, or of restarts.
- `Nonces!FairSpec`: the clock advances, the prune loop wakes up, and its
  statement runs infinitely often unless it fails; strong fairness of the
  statement excludes a process that is restarted within every single round.
- `Http01!FairSpec`: the coroutine runs, `getaddrinfo` returns, time passes, and a
  wait that is over ends. Nothing is assumed of the challenge server.
- `Migrations!FairSpec`: the process is started again whenever it stops (`restart:
  unless-stopped` in the documented deployment), and a start that is not killed
  moves on.
- `RelayCert!FairSpec`: the container restarts a process that ended, the process
  runs, and time passes for certificates in use; `init_account` and an issuance that
  are tried for ever succeed at some time, without which no relay can serve. That a
  process whose renewal loop is dead is restarted is not assumed: nothing in the
  code notices.
- `Issuance!FairSpec`: every call to a service returns or times out (httpx's
  timeouts, the bounded polling), and the CA handles what reaches it. A flow
  that waits for a lock gets no help from this.

## Proofs

Each theorem holds for every value of the constants; the only assumptions are
the `ASSUME`s of the modules (distinct null values, finite sets where cardinality
is used, numeric bounds in Nat), which TLC evaluates in every run. Six theorems
name a further hypothesis, because without it the statement is false and a run or
a weaker theorem shows by how much: `OneAckOneClaim` (clients send one
acknowledgement), `ProcessingOrdersHaveWorkers` (no statement fails),
`OwnCsrCertified` (nothing is given up half-way), and the `...OneAtATime` and
`Sequential...` theorems (requests do not overlap).

A property with a theorem and no run of its own (`CertBudget`, `LocksOwned` and the
like) is defined beside the others in its module; TLC was asked about it before it
was proved.

- **OrdersProofs.** `TypeCorrect`. `ValidOrdersHaveCerts`: with "a task about to
  publish has its certificate stored". `InvalidOrdersExplained` is inductive as
  it stands. `AnonymousOrdersNeverIssued`: with "no run of such an order is past
  the account check with a success, and no claim exists".
  `EveryClaimIsProved` is the hard one: `claims <= proofs` is not inductive. The
  invariant is a ledger: claims, plus one if the order is `ready`, plus the runs
  that have validated and not yet committed, never exceed the proofs. It needs
  that a run that has not fetched has not succeeded, and counts with the
  library's cardinality theorems. `OrdersImplementLifecycle`, the refinement: for
  an order acknowledged at most once, at most one coroutine runs for it, at most
  one claim exists, and each program counter determines the phase its rows are in
  (`SoloInv`); every step then maps to a step of the life cycle or to none.
  `ProcessingOrdersHaveWorkers`, under the assumption that no statement fails: the
  coroutine that set `processing` is still at work, since it is also the one that
  takes it away. `ClaimsWorkedOnce` and `CertsStayReachable` from "tasks have
  different claims, none of them beyond the order's counter, and a claim that is
  being stored has no row yet". `CertsWithinBudget` adds a second ledger, proofs plus
  the runs that may still succeed against the POSTs, to that of
  `EveryClaimIsProved`; with one POST the budget is one claim (`OneAckOneClaim`).
  `SettledOrdersAreFinal` comes out of the refinement: an order that is acknowledged
  once follows the life cycle, and there a final phase is left by no step.
- **NoncesProofs.** `NonceNeverReplayed` and `NonceNeverBurned` from one
  invariant that ties a row's state to the number of requests it authenticated.
  `CapOvershootBounded`: the rows, together with the requests that have counted
  and not yet inserted, stay below the bound. `UsableNeverPruned`, an action
  property: no cutoff lies in the future. `RowsNeverReturn`, and
  `CapExactOneAtATime` as the case of one request.
- **AccountsProofs.** `TypeCorrect`. `OnlyCurrentKeysRoll`, an action property: up to
  its commit a request's signer is the account's key unless the request is
  outdated, and past the load its `oldKey` is too unless it was overtaken
  (`CheckedIsCurrent`).
  `KeySharersBounded` counts: the accounts that hold a key or are about to be given
  it, together with the requests about to create one with it, never exceed the
  number of requests. `SequentialKeysUnique` is the case of one request at a time.
- **RelayCertProofs.** One inductive invariant: keys reach the disk in the order of
  their calls, a call is given its own certificate or an earlier one, a certificate
  is replaced only when it is not fresh, and the listener presents what was loaded
  last. `TornPairNeverTrusted` and `ListenerPresentsDisk` are part of it. A second
  one (`KnownPair`) says which pair boot builds on and the loop reloads: the one that
  a single call wrote, or, at boot, one that is due. From it `RenewalEndsOnlyByForeign`
  and `BootFailureExplained`. `KeyPrecedesCert`, an action property: the certificate
  file changes only to what was returned for the key already on disk.
- **IssuanceProofs.** A running flow holds the lock of its domain, and a Namecheap
  flow between read and write holds the lock of the apex and has seen the zone as
  it is; so flows have different domains and orders. From this follow
  `RecordStaysUntilValidated`, `OrderUrlNeverTaken` and the action property
  `NoLostUpdate`. `LeftoversOnlyRefuse`: every record in the zone belongs to a flow
  past `set_txt`, and if that flow were running it would hold the lock.
  `NoLockLeaks` and `NoCircularWait` read the same invariant the other way: a lock
  names a running flow behind it, and the holder of the apex lock waits for nothing.
  `NoCertTwice`: an order whose certificate was returned is valid
  and nobody else works on it. `OrderCertKeepsPromise`, the refinement of
  `CertService`: an order's CSR is that of a flow for the order's domain, and by the
  lock every earlier flow for it has ended, without a certificate if this order's
  has not been returned; so each step of a flow is a step of the service or none,
  and a restart is an `Abort`. `OwnCsrCertified`: without interruptions a caller
  gets the certificate for its own CSR, the statement that
  `Issuance_late_finalize` refutes with them.
- **Http01Proofs.** One invariant: what has been scanned holds no blocked address
  and the two choices are its first and its first IPv4 address; the loop variable
  is at its bound only in the last attempt. `ContactsAreChecked`,
  `ValidationIsProved`, `LastAttemptReported` for answers and retries of any
  length. `ContactsBounded`: an attempt that has not reached its GET has made no
  connection.
- **MigrationsProofs.** The invariant says for each program counter what the file
  holds, and that a file without its version row is torn or can be repeated.
  `UninterruptedStartsSucceed`: while nothing was cut off, what a statement is about
  to create is not there yet. `UpgradesNeverUndone`, an action property.
- **RevocationProofs.** `QuotaOvershootBounded`: orders in the window together with
  requests past the count; a window only loses orders as time passes.
  `OnlyOwnersCanRevoke`: what is sent, waited for or late was asked for by the
  owner, and rows do not change hands (`OwnershipNeverChanges`); for the same reason
  the look-up's verdict holds until the CA answers (`ForwardsOnlyForOwners`).
  `NeverFalselyRefused`: a row stays of its kind. `QuotaExactOneAtATime` is the case
  of one new-order request.

Type correctness is proved for every module (`TypeCorrect`) and model-checked
for `Orders`; the other runs spend their time on the properties above.

Only model-checked: everything that says "eventually" (`ProcessingSettles`,
`AuthzSettles`, `CapDrainsWhilePruning`, `ServesAgain`, `ExpiredReplaced`,
`EveryFlowEnds`, `EndsUnlessFed`, `ServesUnlessTorn`). Liveness under fairness and
ENABLED are beyond the prover, as are inductions over data and modules with
RECURSIVE operators; no module here has any.

## Not modelled

- Signatures, encodings, problem documents, directory and other read-only routes,
  configuration: no state, or data that no property tells apart. `http01.py`'s
  key authorization is a value here.
- The identifier, domain-policy and CSR checks of the order routes: refusals before
  any write.
- In-memory databases (tests only) and downgrades, which the relay never runs.
- A write of a DNS provider that the service applies after the client's lock is
  gone; back-off times; what `init_account` does at the CA (its success and failure
  are in `RelayCert`).

## Plan

Built in this order: `Orders` with `OrderLifecycle`, `Nonces`, `Issuance`,
`RelayCert`, `Accounts`, then `Http01`, `Migrations`, `OrderQuota` with
`Revocation`, each with its proofs. What could follow:

1. `Orders` composed with `Issuance`, so that two orders for one name go through one
   domain lock (`PfSign` becomes a flow), with the renewal loop as a third caller.
   The interface between them is one call with two outcomes, so this would restate
   `Issuance`'s properties for particular callers.
2. An abstract zone (a set of values per name) that every DNS provider implements;
   `OnlyOwnNameWritten` and `RecordPresentUntilValidated` are what it would promise.
3. An abstract nonce store (issue, spend once, expire) for `Nonces`, which would
   gather `NoReplay`, `NoneBurned` and `RowsMoveForward` in one refinement.
