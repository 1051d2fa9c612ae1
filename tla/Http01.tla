-------------------------------- MODULE Http01 --------------------------------
(***************************************************************************)
(* One HTTP-01 validation (services/http01.py) as run_challenge calls it:  *)
(* up to challenge_retries attempts, each of which resolves the name       *)
(* afresh, checks every address of the answer, connects to one of them and *)
(* compares what it serves with the key authorization.  Validations share  *)
(* no state, so one is enough.                                             *)
(*                                                                         *)
(* The resolver and the challenge server are external: the resolver may    *)
(* give a different answer at every attempt, and the server may be silent, *)
(* refuse, or send its response a piece at a time.  httpx's timeout bounds *)
(* each wait for the next piece, not the request: waited is the time since *)
(* something last arrived.                                                 *)
(***************************************************************************)
EXTENDS Naturals, Sequences

CONSTANTS Addresses,    \* IP addresses the resolver may return
          V4,           \* those of family AF_INET
          Blocked,      \* those _is_blocked refuses
          NoAddress,    \* None
          MaxAnswer,    \* bound: addresses in one answer
          MaxRetries,   \* bound on challenge_retries
          Timeout       \* challenge_timeout, in ticks

ASSUME ConstantsAssumption ==
    /\ V4 \subseteq Addresses /\ Blocked \subseteq Addresses
    /\ NoAddress \notin Addresses
    /\ MaxAnswer \in Nat /\ MaxRetries \in Nat /\ Timeout \in Nat \ {0}

VARIABLES
    retries,        \* settings.challenge_retries, read once
    pc,             \* where validate_http01 stands
    attempt,        \* the loop variable; 0 before the first attempt
    answer,         \* results of getaddrinfo
    scanned,        \* addresses of the answer that passed the check so far
    chosenAny,      \* the first of them
    chosenV4,       \* the first IPv4 address of them
    waited,         \* ticks since the server last sent something
    outcome,        \* "none", "validated", or the type of the problem
    \* History.
    contacts,       \* connections made: the attempt, the answer, the address
    proved,         \* attempts in which the server returned the key authorization
    lastFailure     \* the problem of the last attempt that failed

lookup == <<answer, scanned, chosenAny, chosenV4>>
vars   == <<retries, pc, attempt, answer, scanned, chosenAny, chosenV4, waited,
            outcome, contacts, proved, lastFailure>>

Answers  == UNION {[1..n -> Addresses] : n \in 1..MaxAnswer}
Problems == {"dns", "connection", "unauthorized", "serverInternal"}

Init ==
    /\ retries \in 0..MaxRetries
    /\ pc = "head" /\ attempt = 0
    /\ answer = <<>> /\ scanned = 0 /\ chosenAny = NoAddress /\ chosenV4 = NoAddress
    /\ waited = 0
    /\ outcome = "none"
    /\ contacts = {} /\ proved = {} /\ lastFailure = "none"

-------------------------------------------------------------------------------
End(result) ==
    /\ pc' = "done"
    /\ outcome' = result

(* Faulty variants of Fail: the last failure falls through to the end of   *)
(* the loop as well; the last attempt is counted one too early.            *)
FailFallsThrough(problem) ==
    /\ lastFailure' = problem
    /\ IF attempt = retries THEN End("validated") ELSE pc' = "sleep" /\ UNCHANGED outcome

FailEarly(problem) ==
    /\ lastFailure' = problem
    /\ IF attempt + 1 >= retries THEN End(problem) ELSE pc' = "sleep" /\ UNCHANGED outcome

(* Http01ValidationError: raised again by the last attempt, otherwise the  *)
(* loop goes to sleep.                                                     *)
Fail(problem) ==
    /\ lastFailure' = problem
    /\ IF attempt = retries THEN End(problem) ELSE pc' = "sleep" /\ UNCHANGED outcome

(* The head of the retry loop.  A loop that is exhausted without a         *)
(* failure, as with challenge_retries = 0, returns like a success.         *)
LoopHead ==
    /\ pc = "head"
    /\ IF attempt < retries
       THEN /\ attempt' = attempt + 1
            /\ pc' = "resolve"
            /\ UNCHANGED outcome
       ELSE End("validated") /\ UNCHANGED attempt
    /\ UNCHANGED <<retries, lookup, waited, contacts, proved, lastFailure>>

(* getaddrinfo fails, raises something unexpected, or finds nothing. *)
ResolveFails ==
    /\ pc = "resolve"
    /\ Fail("dns")
    /\ UNCHANGED <<retries, attempt, lookup, waited, contacts, proved>>

Resolve(ans) ==
    /\ pc = "resolve"
    /\ answer' = ans
    /\ scanned' = 0 /\ chosenAny' = NoAddress /\ chosenV4' = NoAddress
    /\ pc' = "scan"
    /\ UNCHANGED <<retries, attempt, waited, outcome, contacts, proved, lastFailure>>

(* An address in one of _BLOCKED_NETWORKS, or one that cannot be parsed.   *)
IsBlocked(ip) == ip \in Blocked

(* One iteration of the loop over the results, on the next address. *)
ScanBlocked ==
    /\ pc = "scan" /\ scanned < Len(answer)
    /\ IsBlocked(answer[scanned + 1])
    /\ Fail("dns")
    /\ UNCHANGED <<retries, attempt, lookup, waited, contacts, proved>>

ScanClear ==
    /\ pc = "scan" /\ scanned < Len(answer)
    /\ ~IsBlocked(answer[scanned + 1])
    /\ LET ip == answer[scanned + 1] IN
       /\ chosenAny' = IF chosenAny = NoAddress THEN ip ELSE chosenAny
       /\ chosenV4' = IF ip \in V4 /\ chosenV4 = NoAddress THEN ip ELSE chosenV4
    /\ scanned' = scanned + 1
    /\ UNCHANGED <<retries, pc, attempt, answer, waited, outcome, contacts, proved, lastFailure>>

Target == IF chosenV4 # NoAddress THEN chosenV4 ELSE chosenAny

(* Faulty variant of Connect: the loop stops at the first IPv4 address.    *)
ConnectEarly ==
    /\ pc = "scan" /\ (scanned = Len(answer) \/ chosenV4 # NoAddress)
    /\ contacts' = contacts \union {[attempt |-> attempt, answer |-> answer, ip |-> Target]}
    /\ pc' = "get" /\ waited' = 0
    /\ UNCHANGED <<retries, attempt, lookup, outcome, proved, lastFailure>>

(* The whole answer has been checked: the GET goes to the chosen address,  *)
(* not to the name, and follows no redirect.                               *)
Connect ==
    /\ pc = "scan" /\ scanned = Len(answer)
    /\ contacts' = contacts \union {[attempt |-> attempt, answer |-> answer, ip |-> Target]}
    /\ pc' = "get" /\ waited' = 0
    /\ UNCHANGED <<retries, attempt, lookup, outcome, proved, lastFailure>>

(* Waiting for the connection, for the head or for the next piece. *)
Tick ==
    /\ pc = "get" /\ waited < Timeout
    /\ waited' = waited + 1
    /\ UNCHANGED <<retries, pc, attempt, lookup, outcome, contacts, proved, lastFailure>>

Receive ==
    /\ pc = "get" /\ waited > 0
    /\ waited' = 0
    /\ UNCHANGED <<retries, pc, attempt, lookup, outcome, contacts, proved, lastFailure>>

(* Faulty variant of GetTimesOut: the client is built without a timeout.   *)
GetNeverTimesOut ==
    /\ FALSE
    /\ Fail("connection")
    /\ UNCHANGED <<retries, attempt, lookup, waited, contacts, proved>>

(* TimeoutException, once nothing came for the whole timeout. *)
GetTimesOut ==
    /\ pc = "get" /\ waited = Timeout
    /\ Fail("connection")
    /\ UNCHANGED <<retries, attempt, lookup, waited, contacts, proved>>

(* RequestError: the connection is refused or breaks. *)
GetFails ==
    /\ pc = "get"
    /\ Fail("connection")
    /\ UNCHANGED <<retries, attempt, lookup, waited, contacts, proved>>

(* The response is complete: a status other than 200, an empty body, or    *)
(* the wrong text fails the attempt; the key authorization proves control. *)
Mismatch ==
    /\ pc = "get"
    /\ Fail("unauthorized")
    /\ UNCHANGED <<retries, attempt, lookup, waited, contacts, proved>>

(* compare_digest refuses text that is not ASCII with a TypeError, which   *)
(* the retry loop does not catch; run_challenge reports serverInternal.    *)
CompareRaises ==
    /\ pc = "get"
    /\ End("serverInternal")
    /\ UNCHANGED <<retries, attempt, lookup, waited, contacts, proved, lastFailure>>

Match ==
    /\ pc = "get"
    /\ proved' = proved \union {attempt}
    /\ End("validated")
    /\ UNCHANGED <<retries, attempt, lookup, waited, contacts, lastFailure>>

(* asyncio.sleep(challenge_retry_delay) *)
Sleep ==
    /\ pc = "sleep"
    /\ pc' = "head"
    /\ UNCHANGED <<retries, attempt, lookup, waited, outcome, contacts, proved, lastFailure>>

(* run_challenge has its answer; nothing more happens.                     *)
Done == pc = "done" /\ UNCHANGED vars

-------------------------------------------------------------------------------
(* What the relay does by itself, its resolver included. *)
Own ==
    \/ LoopHead
    \/ ResolveFails \/ (\E ans \in Answers : Resolve(ans))
    \/ ScanBlocked \/ ScanClear \/ Connect
    \/ Tick \/ GetTimesOut
    \/ Sleep

(* What the challenge server decides. *)
Server == Receive \/ GetFails \/ Mismatch \/ CompareRaises \/ Match

Next == Own \/ Server \/ Done

Spec == Init /\ [][Next]_vars

(* The event loop runs the coroutine, getaddrinfo returns, time passes and *)
(* a wait that is over ends.  Nothing is assumed of the server.            *)
FairSpec == Spec /\ WF_vars(Own)

-------------------------------------------------------------------------------
(* Every variable has its type. *)
TypeOK ==
    /\ retries \in Nat /\ attempt \in 0..retries
    /\ pc \in {"head", "resolve", "scan", "get", "sleep", "done"}
    /\ answer \in Seq(Addresses) /\ scanned \in 0..Len(answer)
    /\ chosenAny \in Addresses \union {NoAddress}
    /\ chosenV4 \in V4 \union {NoAddress}
    /\ waited \in 0..Timeout
    /\ outcome \in {"none", "validated"} \union Problems
    /\ contacts \subseteq [attempt : Nat, answer : Seq(Addresses), ip : Addresses]
    /\ proved \subseteq Nat
    /\ lastFailure \in {"none"} \union Problems

(* What _resolve_and_check's docstring says it returns: the first IPv4     *)
(* address of the answer, or the first address if there is none.           *)
IsPreferred(ip, ans) ==
    \E i \in 1..Len(ans) :
        /\ ip = ans[i]
        /\ \/ ip \in V4 /\ \A j \in 1..(i - 1) : ans[j] \notin V4
           \/ i = 1 /\ \A j \in 1..Len(ans) : ans[j] \notin V4

(* However the resolver's answers change between attempts, a connection    *)
(* only ever goes to the preferred address of an answer of its own         *)
(* attempt, and only if no address of that answer is blocked:              *)
(* _resolve_and_check looks at all of them before it picks one, and the    *)
(* GET does not resolve the name again.                                    *)
ContactsChecked ==
    \A c \in contacts :
        /\ IsPreferred(c.ip, c.answer)
        /\ \A i \in 1..Len(c.answer) : c.answer[i] \notin Blocked

(* validate_http01 returns normally only in the attempt in which the       *)
(* server returned the key authorization, on a connection it made in that  *)
(* attempt; with challenge_retries at 0 it returns without having asked.   *)
ValidatedIsProved ==
    outcome = "validated" =>
        \/ retries = 0
        \/ attempt \in proved /\ \E c \in contacts : c.attempt = attempt

(* The problem a client is shown is that of the last attempt allowed, and  *)
(* no failure is reported while attempts are left: an early attempt's      *)
(* problem never outlives a later one.                                     *)
ReportsLastAttempt ==
    outcome \in {"dns", "connection", "unauthorized"} =>
        attempt = retries /\ outcome = lastFailure

(* A validation makes at most one connection in an attempt, and no attempt *)
(* past challenge_retries: one challenge POST can make the relay knock at  *)
(* that many doors and no more, whatever the resolver answers.             *)
OneContactPerAttempt ==
    /\ \A c, d \in contacts : c.attempt = d.attempt => c = d
    /\ \A c \in contacts : c.attempt \in 1..retries

(* Every validation ends, unless a server keeps sending pieces: each       *)
(* wait for the next one has its timeout, the request has none.            *)
EndsUnlessFed == <>(pc = "done") \/ []<><<Receive>>_vars
===============================================================================
