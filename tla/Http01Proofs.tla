----------------------------- MODULE Http01Proofs -----------------------------
(* Proofs about Http01, for every set of addresses, length of answers,     *)
(* number of retries and timeout.                                          *)
EXTENDS Http01, TLAPS

(* The loop invariant of _resolve_and_check: what the two locals hold      *)
(* after the first n addresses.                                            *)
ScanInv ==
    pc = "scan" =>
        /\ Len(answer) > 0
        /\ \A i \in 1..scanned : answer[i] \notin Blocked
        /\ chosenAny = IF scanned = 0 THEN NoAddress ELSE answer[1]
        /\ chosenV4 = NoAddress => \A i \in 1..scanned : answer[i] \notin V4
        /\ chosenV4 # NoAddress => \E i \in 1..scanned :
               chosenV4 = answer[i] /\ \A j \in 1..(i - 1) : answer[j] \notin V4

(* The retry loop: where it stands says how many attempts are left.        *)
LoopInv ==
    /\ pc = "head" => attempt < retries \/ retries = 0
    /\ pc = "sleep" => attempt < retries
    /\ pc = "get" => \E c \in contacts : c.attempt = attempt
    /\ pc # "done" => outcome = "none"

IInv == TypeOK /\ ScanInv /\ LoopInv /\ ContactsChecked /\ ValidatedIsProved /\ ReportsLastAttempt

-------------------------------------------------------------------------------
LEMMA AnswersAreSequences ==
    ASSUME NEW ans \in Answers
    PROVE  ans \in Seq(Addresses) /\ Len(ans) \in Nat /\ Len(ans) > 0
<1>1. PICK n \in 1..MaxAnswer : ans \in [1..n -> Addresses]
  BY DEF Answers
<1>2. n \in Nat /\ n > 0
  BY <1>1, ConstantsAssumption
<1>3. ans \in Seq(Addresses) /\ Len(ans) = n
  BY <1>1, <1>2
<1> QED
  BY <1>2, <1>3

LEMMA InitInvariant == Init => IInv
  BY ConstantsAssumption
     DEF Init, IInv, TypeOK, ScanInv, LoopInv, ContactsChecked, ValidatedIsProved,
         ReportsLastAttempt, Problems

(* What Fail leaves behind.  Every failing action is an instance of it.    *)
LEMMA FailKeeps ==
    ASSUME IInv, NEW problem \in Problems \ {"serverInternal"}, Fail(problem),
           pc # "done", pc # "head",
           UNCHANGED <<retries, attempt, lookup, waited, contacts, proved>>
    PROVE  IInv'
<1>1. TypeOK'
  BY DEF IInv, TypeOK, Fail, End, lookup, Problems
<1>2. ScanInv' /\ LoopInv'
  BY DEF IInv, TypeOK, ScanInv, LoopInv, Fail, End, lookup
<1>3. ContactsChecked'
  BY DEF IInv, ContactsChecked, IsPreferred
<1>4. ValidatedIsProved' /\ ReportsLastAttempt'
  BY DEF IInv, LoopInv, ValidatedIsProved, ReportsLastAttempt, Fail, End, Problems
<1> QED
  BY <1>1, <1>2, <1>3, <1>4 DEF IInv

(* The address Connect uses is the preferred one of an answer that is      *)
(* clear of blocked addresses.                                             *)
LEMMA TargetIsPreferred ==
    ASSUME IInv, pc = "scan", scanned = Len(answer)
    PROVE  /\ Target \in Addresses
           /\ IsPreferred(Target, answer)
           /\ \A i \in 1..Len(answer) : answer[i] \notin Blocked
<1> USE ConstantsAssumption
<1>1. Len(answer) \in Nat /\ Len(answer) > 0 /\ answer[1] \in Addresses
  BY DEF IInv, TypeOK, ScanInv
<1>2. CASE chosenV4 = NoAddress
  <2>1. Target = answer[1] /\ \A i \in 1..Len(answer) : answer[i] \notin V4
    BY <1>1, <1>2 DEF IInv, ScanInv, Target
  <2> QED
    BY <1>1, <2>1 DEF IsPreferred, IInv, ScanInv
<1>3. CASE chosenV4 # NoAddress
  <2>1. Target = chosenV4 /\ chosenV4 \in V4
    BY <1>3 DEF Target, IInv, TypeOK
  <2>2. PICK i \in 1..Len(answer) :
            chosenV4 = answer[i] /\ \A j \in 1..(i - 1) : answer[j] \notin V4
    BY <1>3 DEF IInv, ScanInv
  <2> QED
    BY <2>1, <2>2 DEF IsPreferred, IInv, ScanInv
<1> QED
  BY <1>2, <1>3

LEMMA StepInvariant == IInv /\ [Next]_vars => IInv'
<1> SUFFICES ASSUME IInv, [Next]_vars PROVE IInv'
  OBVIOUS
<1> USE ConstantsAssumption
<1>1. CASE LoopHead
  BY <1>1 DEF LoopHead, End, lookup, IInv, TypeOK, ScanInv, LoopInv, ContactsChecked, IsPreferred,
              ValidatedIsProved, ReportsLastAttempt, Problems
<1>2. CASE ResolveFails
  BY <1>2, FailKeeps DEF ResolveFails, Problems
<1>3. ASSUME NEW ans \in Answers, Resolve(ans) PROVE IInv'
  <2>1. ans \in Seq(Addresses) /\ Len(ans) \in Nat /\ Len(ans) > 0
    BY AnswersAreSequences
  <2>2. TypeOK' /\ ScanInv' /\ LoopInv'
    BY <1>3, <2>1 DEF Resolve, IInv, TypeOK, ScanInv, LoopInv
  <2>3. ContactsChecked'
    BY <1>3 DEF Resolve, IInv, ContactsChecked, IsPreferred
  <2>4. ValidatedIsProved' /\ ReportsLastAttempt'
    BY <1>3 DEF Resolve, IInv, ValidatedIsProved, ReportsLastAttempt
  <2> QED
    BY <2>2, <2>3, <2>4 DEF IInv
<1>4. CASE ScanBlocked
  BY <1>4, FailKeeps DEF ScanBlocked, IsBlocked, Problems
<1>5. CASE ScanClear
  <2> DEFINE ip == answer[scanned + 1]
  <2>1. /\ scanned \in Nat /\ scanned + 1 \in 1..Len(answer) /\ ip \in Addresses
        /\ scanned' = scanned + 1 /\ answer' = answer /\ pc' = pc /\ pc = "scan"
        /\ ip \notin Blocked
    BY <1>5 DEF ScanClear, IsBlocked, IInv, TypeOK
  <2>2. TypeOK'
    BY <1>5, <2>1 DEF ScanClear, IsBlocked, IInv, TypeOK
  <2>3. \A i \in 1..scanned' : i \in 1..scanned \/ i = scanned + 1
    BY <2>1
  <2>4. \A i \in 1..scanned' : answer'[i] \notin Blocked
    BY <2>1, <2>3 DEF IInv, ScanInv
  <2>5. chosenAny' = IF scanned' = 0 THEN NoAddress ELSE answer'[1]
    <3>1. scanned = 0 => chosenAny' = ip /\ ip = answer[1]
      BY <1>5, <2>1 DEF ScanClear, IsBlocked, IInv, ScanInv
    <3>2. scanned # 0 => chosenAny = answer[1] /\ answer[1] \in Addresses
      BY <2>1 DEF IInv, ScanInv, TypeOK
    <3>3. scanned # 0 => chosenAny' = chosenAny
      BY <1>5, <3>2 DEF ScanClear, IsBlocked
    <3> QED
      BY <2>1, <3>1, <3>2, <3>3
  <2>6. chosenV4' = NoAddress => \A i \in 1..scanned' : answer'[i] \notin V4
    <3>1. chosenV4' = NoAddress => chosenV4 = NoAddress /\ ip \notin V4
      BY <1>5, <2>1 DEF ScanClear, IsBlocked
    <3> QED
      BY <2>1, <2>3, <3>1 DEF IInv, ScanInv
  <2>7. chosenV4' # NoAddress => \E i \in 1..scanned' :
            chosenV4' = answer'[i] /\ \A j \in 1..(i - 1) : answer'[j] \notin V4
    <3>1. CASE chosenV4 # NoAddress
      <4>1. chosenV4' = chosenV4
        BY <1>5, <3>1 DEF ScanClear, IsBlocked
      <4>2. PICK i \in 1..scanned :
                chosenV4 = answer[i] /\ \A j \in 1..(i - 1) : answer[j] \notin V4
        BY <2>1, <3>1 DEF IInv, ScanInv
      <4>3. i \in 1..scanned'
        BY <2>1
      <4> QED
        BY <2>1, <4>1, <4>2, <4>3
    <3>2. CASE chosenV4 = NoAddress /\ ip \in V4
      <4>1. chosenV4' = ip
        BY <1>5, <3>2 DEF ScanClear, IsBlocked
      <4>2. \A j \in 1..scanned : answer[j] \notin V4
        BY <2>1, <3>2 DEF IInv, ScanInv
      <4>3. (scanned + 1) - 1 = scanned /\ scanned + 1 \in 1..scanned'
        BY <2>1
      <4> QED
        BY <2>1, <4>1, <4>2, <4>3
    <3>3. CASE chosenV4 = NoAddress /\ ip \notin V4
      BY <1>5, <3>3 DEF ScanClear, IsBlocked
    <3> QED
      BY <3>1, <3>2, <3>3
  <2>8. ScanInv'
    BY <2>1, <2>4, <2>5, <2>6, <2>7 DEF ScanInv, IInv
  <2>9. LoopInv' /\ ContactsChecked' /\ ValidatedIsProved' /\ ReportsLastAttempt'
    BY <1>5 DEF ScanClear, IsBlocked, IInv, LoopInv, ContactsChecked, IsPreferred, ValidatedIsProved,
                ReportsLastAttempt
  <2> QED
    BY <2>2, <2>8, <2>9 DEF IInv
<1>6. CASE Connect
  <2>1. /\ Target \in Addresses
        /\ IsPreferred(Target, answer)
        /\ \A i \in 1..Len(answer) : answer[i] \notin Blocked
    BY <1>6, TargetIsPreferred DEF Connect
  <2>2. attempt \in Nat /\ answer \in Seq(Addresses)
    BY DEF IInv, TypeOK
  <2>3. TypeOK'
    BY <1>6, <2>1, <2>2 DEF Connect, IInv, TypeOK, lookup
  <2>4. ScanInv' /\ LoopInv'
    <3> DEFINE c == [attempt |-> attempt, answer |-> answer, ip |-> Target]
    <3>1. c \in contacts' /\ c.attempt = attempt'
      BY <1>6 DEF Connect
    <3> QED
      BY <1>6, <3>1 DEF Connect, IInv, ScanInv, LoopInv
  <2>5. ContactsChecked'
    <3> SUFFICES ASSUME NEW c \in contacts'
                 PROVE  /\ IsPreferred(c.ip, c.answer)
                        /\ \A i \in 1..Len(c.answer) : c.answer[i] \notin Blocked
      BY DEF ContactsChecked, IsPreferred
    <3>1. CASE c \in contacts
      BY <3>1 DEF IInv, ContactsChecked
    <3>2. CASE c = [attempt |-> attempt, answer |-> answer, ip |-> Target]
      BY <2>1, <3>2
    <3> QED
      BY <1>6, <3>1, <3>2 DEF Connect
  <2>6. ValidatedIsProved' /\ ReportsLastAttempt'
    BY <1>6 DEF Connect, IInv, LoopInv, ValidatedIsProved, ReportsLastAttempt
  <2> QED
    BY <2>3, <2>4, <2>5, <2>6 DEF IInv
<1>7. CASE Tick \/ Receive
  <2>0. waited' \in 0..Timeout
    BY <1>7 DEF Tick, Receive, IInv, TypeOK
  <2>1. TypeOK'
    BY <1>7, <2>0 DEF Tick, Receive, lookup, IInv, TypeOK
  <2>2. ScanInv' /\ LoopInv'
    BY <1>7 DEF Tick, Receive, lookup, IInv, ScanInv, LoopInv
  <2>3. ContactsChecked' /\ ValidatedIsProved' /\ ReportsLastAttempt'
    BY <1>7 DEF Tick, Receive, lookup, IInv, ContactsChecked, IsPreferred, ValidatedIsProved,
                ReportsLastAttempt
  <2> QED
    BY <2>1, <2>2, <2>3 DEF IInv
<1>8. CASE GetTimesOut \/ GetFails \/ Mismatch
  BY <1>8, FailKeeps DEF GetTimesOut, GetFails, Mismatch, Problems
<1>9. CASE CompareRaises
  BY <1>9 DEF CompareRaises, End, lookup, IInv, TypeOK, ScanInv, LoopInv, ContactsChecked,
              IsPreferred, ValidatedIsProved, ReportsLastAttempt, Problems
<1>10. CASE Match
  BY <1>10 DEF Match, End, lookup, IInv, TypeOK, ScanInv, LoopInv, ContactsChecked,
               IsPreferred, ValidatedIsProved, ReportsLastAttempt, Problems
<1>11. CASE Sleep
  BY <1>11 DEF Sleep, lookup, IInv, TypeOK, ScanInv, LoopInv, ContactsChecked, IsPreferred,
               ValidatedIsProved, ReportsLastAttempt
<1>12. CASE Done \/ UNCHANGED vars
  BY <1>12 DEF Done, vars, lookup, IInv, TypeOK, ScanInv, LoopInv, ContactsChecked, IsPreferred,
               ValidatedIsProved, ReportsLastAttempt
<1> QED
  BY <1>1, <1>2, <1>3, <1>4, <1>5, <1>6, <1>7, <1>8, <1>9, <1>10, <1>11, <1>12
     DEF Next, Own, Server

LEMMA Invariance == Spec => []IInv
  BY InitInvariant, StepInvariant, PTL DEF Spec

-------------------------------------------------------------------------------
(* The variables of a validation always have their types: the scan never   *)
(* runs past the answer and the attempts never past challenge_retries.     *)
THEOREM TypeCorrect == Spec => []TypeOK
<1>1. IInv => TypeOK
  BY DEF IInv
<1> QED
  BY Invariance, <1>1, PTL

(* For every resolver, however its answers change: a connection goes only  *)
(* to the preferred address of a fully checked answer.                     *)
THEOREM ContactsAreChecked == Spec => []ContactsChecked
<1>1. IInv => ContactsChecked
  BY DEF IInv
<1> QED
  BY Invariance, <1>1, PTL

(* A validation that succeeds was proved in its last attempt, unless       *)
(* challenge_retries is 0.                                                 *)
THEOREM ValidationIsProved == Spec => []ValidatedIsProved
<1>1. IInv => ValidatedIsProved
  BY DEF IInv
<1> QED
  BY Invariance, <1>1, PTL

(* A validation that fails reports the problem of the last attempt.        *)
THEOREM LastAttemptReported == Spec => []ReportsLastAttempt
<1>1. IInv => ReportsLastAttempt
  BY DEF IInv
<1> QED
  BY Invariance, <1>1, PTL

-------------------------------------------------------------------------------
(* An attempt that has not reached its GET has made no connection yet.     *)
ContactInv ==
    /\ OneContactPerAttempt
    /\ \A c \in contacts : c.attempt <= attempt
    /\ pc \in {"resolve", "scan"} => attempt > 0 /\ \A c \in contacts : c.attempt # attempt

LEMMA ContactStep == IInv /\ ContactInv /\ [Next]_vars => ContactInv'
<1> SUFFICES ASSUME IInv, ContactInv, [Next]_vars PROVE ContactInv'
  OBVIOUS
<1> USE DEF ContactInv, OneContactPerAttempt
<1>0. /\ attempt \in Nat /\ retries \in Nat /\ attempt <= retries
      /\ \A c \in contacts : c.attempt \in Nat
  BY DEF IInv, TypeOK
<1>1. CASE LoopHead
  BY <1>0, <1>1 DEF LoopHead, End
<1>2. CASE Connect
  <2> DEFINE c0 == [attempt |-> attempt, answer |-> answer, ip |-> Target]
  <2>1. /\ contacts' = contacts \union {c0} /\ c0.attempt = attempt /\ pc' = "get"
        /\ attempt' = attempt /\ retries' = retries
        /\ attempt > 0 /\ \A c \in contacts : c.attempt # attempt
    BY <1>2 DEF Connect
  <2> HIDE DEF c0
  <2> QED
    BY <1>0, <2>1
<1>3. CASE /\ UNCHANGED <<attempt, retries, contacts>>
           /\ pc' \in {"resolve", "scan"} => pc \in {"resolve", "scan"}
  BY <1>3
<1>4. [Next]_vars => LoopHead \/ Connect \/ UNCHANGED <<attempt, retries, contacts>>
  BY DEF Next, Own, Server, Resolve, ResolveFails, ScanBlocked, ScanClear, Tick, Receive,
         GetTimesOut, GetFails, Mismatch, CompareRaises, Match, Sleep, Done, vars
<1>5. [Next]_vars => LoopHead \/ (pc' \in {"resolve", "scan"} => pc \in {"resolve", "scan"})
  BY DEF Next, Own, Server, Resolve, ResolveFails, ScanBlocked, ScanClear, Connect, Tick, Receive,
         GetTimesOut, GetFails, Mismatch, CompareRaises, Match, Sleep, Done, Fail, End, vars
<1> QED
  BY <1>1, <1>2, <1>3, <1>4, <1>5

(* For every resolver and every server: at most one connection an attempt, *)
(* at most challenge_retries in all.                                       *)
THEOREM ContactsBounded == Spec => []OneContactPerAttempt
<1>1. Init => ContactInv
  BY DEF Init, ContactInv, OneContactPerAttempt
<1>2. ContactInv => OneContactPerAttempt
  BY DEF ContactInv
<1> QED
  BY <1>1, <1>2, ContactStep, Invariance, PTL DEF Spec

===============================================================================
