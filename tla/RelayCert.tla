------------------------------- MODULE RelayCert -------------------------------
(***************************************************************************)
(* The relay's own TLS certificate: the boot sequence of serve.py (check   *)
(* what is on disk, issue if needed, build the TLS server, run lifespan),  *)
(* the daily renewal loop and the two-file write of services/relay_cert.py,*)
(* with a failure or a crash possible at each of their steps.              *)
(*                                                                         *)
(* Every call of issue_relay_cert makes a new key; a call that gets as far *)
(* as finalizing has a number, which names its key, its CSR and the        *)
(* certificate issued for that CSR.  order_cert may return the certificate *)
(* of an earlier call that gave up (CertService), so the certificate a     *)
(* call writes beside its key is not always its own.  0 is a missing file. *)
(* How long a certificate still lasts matters only against the renewal     *)
(* threshold and against expiry.                                           *)
(***************************************************************************)
EXTENDS Naturals

CONSTANTS MaxIssued,    \* bound: calls that reach finalize
          MaxCrashes    \* bound: crashes of the process

ASSUME BoundsAssumption == MaxIssued \in Nat /\ MaxCrashes \in Nat

VARIABLES
    pc,         \* where the boot sequence or the renewal loop stands
    server,     \* is the public HTTPS listener up?
    days,       \* what boot read of the certificate on disk
    diskCert,   \* fullchain.pem
    diskKey,    \* privkey.pem
    live,       \* the certificate the SSLContext presents, 0 if it has none with a key
    life,       \* remaining life of each certificate
    issued,     \* calls that reached finalize so far
    got,        \* the certificate order_cert returned to each call, 0 if it raised
    strays,     \* calls cut off whose certificate the CA may still issue
    crashes

disk == <<diskCert, diskKey>>
ca == <<issued, got, strays>>
vars == <<pc, server, days, diskCert, diskKey, live, life, issued, got, strays, crashes>>

Calls == 1..MaxIssued
Pcs == {"down", "check", "init", "issue", "finalizing", "rename_key", "rename_cert",
        "build", "lifespan", "sleep", "reload", "dead"}

(* fresh: at least RENEW_THRESHOLD_DAYS left; due: fewer, more than zero.  *)
Lives == {"fresh", "due", "expired"}

Init ==
    /\ pc = "down" /\ server = FALSE
    /\ days = "none"
    /\ diskCert = 0 /\ diskKey = 0 /\ live = 0
    /\ life = [g \in Calls |-> "fresh"]
    /\ issued = 0 /\ crashes = 0
    /\ got = [g \in Calls |-> 0]
    /\ strays = {}

(* ssl.SSLContext.load_cert_chain accepts the files only if they match. *)
Loadable == diskCert # 0 /\ diskKey = diskCert

-------------------------------------------------------------------------------
Start ==
    /\ pc = "down"
    /\ pc' = "check"
    /\ UNCHANGED <<server, days, disk, live, life, ca, crashes>>

(* _ensure_relay_cert asks relay_cert_exists and relay_cert_days_remaining,*)
(* which look at the presence of both files and the date in one of them.   *)
Check ==
    /\ pc = "check"
    /\ days' = IF diskCert = 0 \/ diskKey = 0 THEN "none" ELSE life[diskCert]
    /\ pc' = IF days' = "fresh" THEN "build" ELSE "init"
    /\ UNCHANGED <<server, disk, live, life, ca, crashes>>

(* le.init_account, outside the try of boot. *)
InitAccount ==
    /\ pc = "init"
    /\ pc' = "issue"
    /\ UNCHANGED <<server, days, disk, live, life, ca, crashes>>

(* An exception of init_account, at boot or in lifespan, ends the process, *)
(* a certificate that could have been served or not.                       *)
InitAccountRaises ==
    /\ pc \in {"init", "lifespan"}
    /\ pc' = "down" /\ live' = 0
    /\ UNCHANGED <<server, days, disk, life, ca, crashes>>

(* issue_relay_cert has made its key and CSR, and order_cert is about to   *)
(* finalize with it.                                                       *)
SendFinalize ==
    /\ pc = "issue"
    /\ issued < MaxIssued
    /\ issued' = issued + 1
    /\ pc' = "finalizing"
    /\ UNCHANGED <<server, days, disk, live, life, got, strays, crashes>>

(* order_cert returns the certificate for the CSR of call q, and           *)
(* write_relay_cert fills its temporary files.                             *)
Returns(q) ==
    /\ pc = "finalizing"
    /\ got' = [got EXCEPT ![issued] = q]
    /\ strays' = strays \ {q}
    /\ pc' = "rename_key"
    /\ UNCHANGED <<server, days, disk, live, life, issued, crashes>>

IssueOk == Returns(issued)

(* The CA had issued the certificate of an earlier call just before; the   *)
(* finalize is refused and order_cert picks that certificate up.  Nothing  *)
(* compares it with the key.  (Bound: not in the last call.)               *)
IssueForeign == issued < MaxIssued /\ \E q \in strays : Returns(q)

(* What becomes of a call that is cut off: its finalize may be on its way. *)
Outstanding == IF pc = "finalizing" THEN {strays, strays \union {issued}} ELSE {strays}

(* Faulty variants of IssueFail: boot does not try again; the renewal loop *)
(* goes on to the reload.                                                  *)
IssueFailGivesUp ==
    /\ pc = "issue" \/ (pc \in {"finalizing", "rename_key", "rename_cert"} /\ issued < MaxIssued)
    /\ strays' \in Outstanding
    /\ pc' = IF server THEN "sleep" ELSE IF days = "due" THEN "build" ELSE "dead"
    /\ UNCHANGED <<server, days, disk, live, life, issued, got, crashes>>

IssueFailReloads ==
    /\ pc = "issue" \/ (pc \in {"finalizing", "rename_key", "rename_cert"} /\ issued < MaxIssued)
    /\ strays' \in Outstanding
    /\ pc' = IF server THEN "reload" ELSE IF days = "due" THEN "build" ELSE "issue"
    /\ UNCHANGED <<server, days, disk, live, life, issued, got, crashes>>

(* order_cert raises, or writing a temporary file or one of the renames    *)
(* does (a full disk).  At boot a certificate that was still good is       *)
(* served, otherwise boot sleeps and tries again; the renewal loop waits   *)
(* for the next day.  (Bound: not in the last call.)                       *)
IssueFail ==
    /\ pc = "issue" \/ (pc \in {"finalizing", "rename_key", "rename_cert"} /\ issued < MaxIssued)
    /\ strays' \in Outstanding
    /\ pc' = IF server THEN "sleep" ELSE IF days = "due" THEN "build" ELSE "issue"
    /\ UNCHANGED <<server, days, disk, live, life, issued, got, crashes>>

(* Faulty variant of RenameKey: the certificate is renamed first. *)
RenameCertFirst ==
    /\ pc = "rename_key"
    /\ diskCert' = got[issued]
    /\ pc' = "rename_cert"
    /\ UNCHANGED <<server, days, diskKey, live, life, ca, crashes>>

(* write_relay_cert: the key, then the certificate. *)
RenameKey ==
    /\ pc = "rename_key"
    /\ diskKey' = issued
    /\ pc' = "rename_cert"
    /\ UNCHANGED <<server, days, diskCert, live, life, ca, crashes>>

(* Faulty variant of RenameCert: the renewal loop does not reload.         *)
RenameCertNoReload ==
    /\ pc = "rename_cert"
    /\ diskCert' = got[issued]
    /\ pc' = IF server THEN "sleep" ELSE "build"
    /\ UNCHANGED <<server, days, diskKey, live, life, ca, crashes>>

RenameCert ==
    /\ pc = "rename_cert"
    /\ diskCert' = got[issued]
    /\ pc' = IF server THEN "reload" ELSE "build"
    /\ UNCHANGED <<server, days, diskKey, live, life, ca, crashes>>

(* _build_tls_server: config.load() raises on a pair that does not match,  *)
(* which ends the process; the container starts it again.                  *)
Build ==
    /\ pc = "build"
    /\ live' = IF Loadable THEN diskCert ELSE 0
    /\ pc' = IF Loadable THEN "lifespan" ELSE "down"
    /\ UNCHANGED <<server, days, disk, life, ca, crashes>>

(* lifespan is through: uvicorn opens the port, the renewal loop runs.     *)
Listen ==
    /\ pc = "lifespan"
    /\ server' = TRUE
    /\ pc' = "sleep"
    /\ UNCHANGED <<days, disk, live, life, ca, crashes>>

(* Faulty variants of RenewWake: the threshold is not looked at; the loop  *)
(* goes by what boot read, not by the file.                                *)
RenewWakeAlways ==
    /\ pc = "sleep"
    /\ pc' = IF diskCert = 0 THEN "sleep" ELSE "issue"
    /\ UNCHANGED <<server, days, disk, live, life, ca, crashes>>

RenewWakeBootDays ==
    /\ pc = "sleep"
    /\ pc' = IF days \in {"fresh", "none"} THEN "sleep" ELSE "issue"
    /\ UNCHANGED <<server, days, disk, live, life, ca, crashes>>

(* renewal_loop wakes up daily and reads the certificate on disk; one that *)
(* is missing or still fresh is left for another day.                      *)
RenewWake ==
    /\ pc = "sleep"
    /\ pc' = IF diskCert = 0 THEN "sleep" ELSE IF life[diskCert] = "fresh" THEN "sleep" ELSE "issue"
    /\ UNCHANGED <<server, days, disk, live, life, ca, crashes>>

(* ssl_context.load_cert_chain, outside the loop's try.  OpenSSL installs  *)
(* the certificate, drops the key that does not fit it and refuses the new *)
(* one: a context whose reload failed can do no handshake at all.          *)
Reload ==
    /\ pc = "reload"
    /\ live' = IF Loadable THEN diskCert ELSE 0
    /\ pc' = IF Loadable THEN "sleep" ELSE "dead"
    /\ UNCHANGED <<server, days, disk, life, ca, crashes>>

-------------------------------------------------------------------------------
(* Time passes for a certificate in use.  (Bound: the last stays fresh.)   *)
Age(g) ==
    /\ g \in {diskCert, live} /\ g < MaxIssued
    /\ life[g] # "expired"
    /\ life' = [life EXCEPT ![g] = IF @ = "fresh" THEN "due" ELSE "expired"]
    /\ UNCHANGED <<pc, server, days, disk, live, ca, crashes>>

(* The process dies or is restarted: its temporary files are as good as    *)
(* lost.  (Bounds: MaxCrashes, but a process whose renewal loop is dead    *)
(* can always be restarted; not once the last call has finalized.)         *)
Crash ==
    /\ pc # "down"
    /\ (crashes < MaxCrashes \/ pc = "dead") /\ issued < MaxIssued
    /\ crashes' = IF pc = "dead" THEN crashes ELSE crashes + 1
    /\ strays' \in Outstanding
    /\ pc' = "down" /\ server' = FALSE /\ live' = 0
    /\ UNCHANGED <<days, disk, life, issued, got>>

Step == Start \/ Check \/ RenameKey \/ RenameCert \/ Build \/ RenewWake \/ Reload

Next ==
    \/ Step \/ InitAccount \/ Listen \/ InitAccountRaises
    \/ SendFinalize \/ IssueOk \/ IssueForeign \/ IssueFail
    \/ (\E g \in Calls : Age(g)) \/ Crash

Spec == Init /\ [][Next]_vars

(* The process is restarted by its container and runs; time passes; what   *)
(* is tried again and again succeeds at some time: reaching the upstream   *)
(* account, and issuing.                                                   *)
FairSpec ==
    /\ Spec
    /\ WF_vars(Step)
    /\ \A g \in Calls : WF_vars(Age(g))
    /\ SF_vars(InitAccount) /\ SF_vars(Listen)
    /\ SF_vars(SendFinalize) /\ SF_vars(IssueOk)

-------------------------------------------------------------------------------
(* Every variable has its type. *)
TypeOK ==
    /\ pc \in Pcs
    /\ server \in BOOLEAN
    /\ days \in Lives \union {"none"}
    /\ diskCert \in Nat /\ diskKey \in Nat /\ live \in Nat
    /\ life \in [Calls -> Lives]
    /\ issued \in 0..MaxIssued
    /\ got \in [Calls -> 0..MaxIssued]
    /\ strays \in SUBSET Calls
    /\ crashes \in Nat

(* write_relay_cert's promise: no crash, no failing rename and no foreign  *)
(* certificate leaves a new certificate beside an old key.                 *)
NeverNewCertOldKey == diskCert <= diskKey

(* The key on disk is beside the very certificate that order_cert returned *)
(* to the call that made it: its own, or a foreign one.                    *)
WrittenTogether == diskCert # 0 /\ got[diskKey] = diskCert

(* The certificate on disk is for another call's CSR because order_cert    *)
(* returned it so; no crash is involved.                                   *)
ForeignPair == WrittenTogether /\ diskCert # diskKey

(* A crash or a failure between the two renames leaves an old certificate  *)
(* beside a new key, but only when that certificate was due: the next boot *)
(* never takes such a pair for a good one and goes straight to issuing.    *)
(* What it may take for good is the pair that one call wrote.              *)
MismatchNeverTrusted ==
    diskCert # 0 /\ life[diskCert] = "fresh" => WrittenTogether

(* Whenever the renewal loop is at rest, new handshakes present the        *)
(* certificate on disk: no renewal waits for a restart.                    *)
LiveIsDisk == server /\ pc = "sleep" => live = diskCert /\ live # 0

(* renewal_loop reloads the pair outside its try, where an exception ends  *)
(* renewals, and all handshakes, for as long as the process lives.  No     *)
(* crash or failed write ever causes it: only order_cert returning the     *)
(* certificate of another call's CSR does.                                 *)
LostOnlyByForeign == pc = "dead" \/ (server /\ live = 0) => ForeignPair

(* _build_tls_server fails, and the process with it, in two cases only: a  *)
(* crash or failed rename tore the pair apart, its certificate is still    *)
(* good for some days, and this boot could not get a new one; or           *)
(* order_cert returned the certificate of another call's CSR.              *)
BuildFailsOnlyTorn ==
    pc = "build" /\ ~Loadable => diskCert # 0 /\ diskCert < diskKey /\ (days = "due" \/ ForeignPair)

(* What write_relay_cert says of its order: once fullchain.pem changes, it *)
(* is the certificate returned for the call whose key is on disk already.  *)
(* And no step puts an earlier key back.                                   *)
CertFollowsItsKey ==
    [][/\ diskKey <= diskKey'
       /\ diskCert' # diskCert => diskKey' = diskKey /\ diskCert' = got[diskKey]]_vars

(* If the account is reached and issuing succeeds in the end, a relay that *)
(* was stopped at any point, between the renames too, serves again: if     *)
(* order_cert returned a foreign certificate, once that one is due.        *)
ServesAgain == (pc = "down") ~> (server /\ live # 0)

(* An expired certificate is not presented for ever: it is replaced, or    *)
(* the context is lost to a foreign one.                                   *)
ExpiredReplaced ==
    (live # 0 /\ life[live] = "expired")
        ~> \/ server /\ live # 0 /\ life[live] # "expired"
           \/ pc = "dead"
================================================================================
