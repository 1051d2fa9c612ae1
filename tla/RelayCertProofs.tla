---------------------------- MODULE RelayCertProofs ----------------------------
(***************************************************************************)
(* Proofs about RelayCert, for every number of calls and crashes.          *)
(***************************************************************************)
EXTENDS RelayCert, TLAPS

(* Keys reach the disk in the order of their calls; a call is given its    *)
(* own certificate or an earlier one; and the key on disk is that of the   *)
(* current call only between the two renames.                              *)
WriteOrder ==
    /\ diskCert <= diskKey /\ diskKey <= issued
    /\ \A g \in Calls : got[g] <= g
    /\ \A q \in strays : q <= issued
    /\ pc \in {"finalizing", "rename_key"} => diskKey < issued
    /\ pc = "rename_cert" => issued # 0 /\ diskKey = issued
    /\ pc \in {"rename_key", "rename_cert"} => got[issued] # 0

(* A certificate on disk is being replaced only if it is not fresh.        *)
ReplacesOld ==
    /\ MismatchNeverTrusted
    /\ pc \in {"init", "issue", "finalizing", "rename_key", "rename_cert"} /\ diskCert # 0
           => life[diskCert] # "fresh"

(* Up to the second rename a listener presents the certificate on disk.    *)
Presented ==
    /\ server => pc \in {"sleep", "issue", "finalizing", "rename_key", "rename_cert", "reload", "dead"}
    /\ server /\ pc \in {"sleep", "issue", "finalizing", "rename_key", "rename_cert"} => live = diskCert
    /\ server /\ pc # "dead" => live # 0
    /\ pc = "lifespan" => live = diskCert /\ live # 0

IInv == TypeOK /\ WriteOrder /\ ReplacesOld /\ Presented

LEMMA InitInv == Init => IInv
<1> SUFFICES ASSUME Init PROVE IInv
  OBVIOUS
<1>1. TypeOK
  <2>1. server \in BOOLEAN
    BY DEF Init
  <2>2. life \in [Calls -> Lives]
    BY DEF Init, Lives
  <2>3. pc \in Pcs /\ days \in Lives \union {"none"}
    BY DEF Init, Pcs
  <2>4. got \in [Calls -> 0..MaxIssued] /\ strays \in SUBSET Calls
    BY BoundsAssumption DEF Init
  <2>. QED BY <2>1, <2>2, <2>3, <2>4, BoundsAssumption DEF Init, TypeOK
<1>2. ~server
  BY DEF Init
<1>3. WriteOrder
  BY DEF Init, WriteOrder, Calls
<1>4. ReplacesOld /\ Presented
  BY <1>2 DEF Init, ReplacesOld, Presented, MismatchNeverTrusted
<1>. QED BY <1>1, <1>3, <1>4 DEF IInv

(* A certificate on disk is that of a call, and so is the key beside it.   *)
LEMMA DiskCalls ==
    ASSUME IInv, diskCert # 0
    PROVE  diskCert \in Calls /\ diskKey \in Calls
BY BoundsAssumption DEF IInv, TypeOK, WriteOrder, Calls

(* order_cert returning the certificate of this or of an earlier call      *)
(* leaves the key and the certificate on disk a pair they were.            *)
LEMMA ReturnsInv ==
    ASSUME IInv, NEW q \in Calls, q <= issued, Returns(q)
    PROVE  IInv'
<1> USE BoundsAssumption DEF IInv, Returns, disk
<1>1. issued \in Calls /\ diskKey # issued
  BY DEF TypeOK, WriteOrder, Calls
<1>2. TypeOK'
  BY <1>1 DEF TypeOK, Pcs, Calls
<1>3. \A g \in Calls : got'[g] = IF g = issued THEN q ELSE got[g]
  BY DEF TypeOK
<1>4. WriteOrder'
  BY <1>1, <1>3 DEF TypeOK, WriteOrder, Calls
<1>5. diskCert # 0 => got'[diskKey] = got[diskKey]
  BY <1>1, <1>3, DiskCalls
<1>6. ReplacesOld'
  BY <1>5 DEF ReplacesOld, MismatchNeverTrusted, WrittenTogether
<1>7. Presented'
  BY DEF Presented
<1>. QED BY <1>2, <1>4, <1>6, <1>7

LEMMA StepInv == IInv /\ [Next]_vars => IInv'
<1> SUFFICES ASSUME IInv, [Next]_vars PROVE IInv'
  OBVIOUS
<1> USE BoundsAssumption, DiskCalls
    DEF IInv, TypeOK, WriteOrder, ReplacesOld, Presented, MismatchNeverTrusted, WrittenTogether,
        Loadable, disk, ca
<1>1. CASE Start
  BY <1>1 DEF Start, Pcs
<1>2. CASE Check
  BY <1>2 DEF Check, Pcs, Lives
<1>3. CASE InitAccount
  BY <1>3 DEF InitAccount, Pcs
<1>4. CASE InitAccountRaises
  BY <1>4 DEF InitAccountRaises, Pcs
<1>5. CASE SendFinalize
  <2>1. issued' \in 0..MaxIssued /\ issued' = issued + 1
    BY <1>5 DEF SendFinalize
  <2>2. \A q \in strays : q <= issued'
    BY <2>1 DEF Calls
  <2>. QED BY <1>5, <2>1, <2>2 DEF SendFinalize, Pcs
<1>6. CASE IssueOk
  <2>1. issued \in Calls /\ issued <= issued
    BY <1>6 DEF IssueOk, Returns, Calls
  <2>. QED BY <1>6, <2>1, ReturnsInv DEF IssueOk
<1>7. CASE IssueForeign
  <2>1. PICK q \in strays : Returns(q)
    BY <1>7 DEF IssueForeign
  <2>2. q \in Calls /\ q <= issued
    BY <2>1
  <2>. QED BY <2>1, <2>2, ReturnsInv
<1>8. CASE IssueFail
  <2>1. strays' \in SUBSET Calls /\ \A q \in strays' : q <= issued
    BY <1>8 DEF IssueFail, Outstanding, Calls
  <2>. QED BY <1>8, <2>1 DEF IssueFail, Pcs
<1>9. CASE RenameKey
  BY <1>9 DEF RenameKey, Pcs
<1>10. CASE RenameCert
  <2>1. issued \in Calls /\ got[issued] <= issued /\ got[issued] \in Nat
    BY <1>10 DEF RenameCert, Calls
  <2>. QED BY <1>10, <2>1 DEF RenameCert, Pcs
<1>11. CASE Build
  BY <1>11 DEF Build, Pcs
<1>12. CASE Listen
  <2>1. server' \in BOOLEAN
    BY <1>12 DEF Listen
  <2>. QED BY <1>12, <2>1 DEF Listen, Pcs
<1>13. CASE RenewWake
  BY <1>13 DEF RenewWake, Pcs
<1>14. CASE Reload
  BY <1>14 DEF Reload, Pcs
<1>15. ASSUME NEW g \in Calls, Age(g) PROVE IInv'
  BY <1>15 DEF Age, Lives
<1>16. CASE Crash
  <2>1. ~server' /\ server' \in BOOLEAN
    BY <1>16 DEF Crash
  <2>2. strays' \in SUBSET Calls /\ \A q \in strays' : q <= issued
    BY <1>16 DEF Crash, Outstanding, Calls
  <2>3. crashes' \in Nat
    BY <1>16 DEF Crash
  <2>. QED BY <1>16, <2>1, <2>2, <2>3 DEF Crash, Pcs
<1>17. CASE UNCHANGED vars
  BY <1>17 DEF vars
<1>. QED BY <1>1, <1>2, <1>3, <1>4, <1>5, <1>6, <1>7, <1>8, <1>9, <1>10, <1>11, <1>12, <1>13,
            <1>14, <1>15, <1>16, <1>17 DEF Next, Step

LEMMA Inductive == Spec => []IInv
BY InitInv, StepInv, PTL DEF Spec

(* Every variable of boot and renewal keeps its type, crashes included.    *)
THEOREM TypeCorrect == Spec => []TypeOK
<1>1. IInv => TypeOK
  BY DEF IInv
<1>. QED BY <1>1, Inductive, PTL

(* No crash, failed rename or foreign certificate leaves a new certificate *)
(* beside an old key.                                                      *)
THEOREM CertNeverAheadOfKey == Spec => []NeverNewCertOldKey
<1>1. IInv => NeverNewCertOldKey
  BY DEF IInv, WriteOrder, NeverNewCertOldKey
<1>. QED BY <1>1, Inductive, PTL

(* A pair that a crash or a failed rename tore apart is never taken for a  *)
(* fresh one: a fresh certificate is beside the key of the call that was   *)
(* given it, also when order_cert gave it another call's.                  *)
THEOREM TornPairNeverTrusted == Spec => []MismatchNeverTrusted
<1>1. IInv => MismatchNeverTrusted
  BY DEF IInv, ReplacesOld
<1>. QED BY <1>1, Inductive, PTL

(* A renewal reaches the live listener without a restart.                  *)
THEOREM ListenerPresentsDisk == Spec => []LiveIsDisk
<1>1. IInv => LiveIsDisk
  BY DEF IInv, Presented, LiveIsDisk
<1>. QED BY <1>1, Inductive, PTL

-------------------------------------------------------------------------------
(* What boot knows when it builds the server or gives up issuing, and what *)
(* the renewal loop knows when it reloads: the pair one call has written.  *)
KnownPair ==
    /\ pc = "reload" => WrittenTogether
    /\ pc = "dead" => ForeignPair
    /\ ~server /\ pc \in {"init", "issue", "finalizing", "rename_key", "rename_cert"} /\ days = "due"
           => diskCert # 0
    /\ pc = "build" => WrittenTogether \/ (days = "due" /\ diskCert # 0)

LEMMA KnownPairStep == IInv /\ KnownPair /\ [Next]_vars => KnownPair'
<1> SUFFICES ASSUME IInv, KnownPair, [Next]_vars PROVE KnownPair'
  OBVIOUS
<1> USE BoundsAssumption, DiskCalls
    DEF KnownPair, IInv, TypeOK, WriteOrder, ReplacesOld, Presented, MismatchNeverTrusted,
        WrittenTogether, ForeignPair, Loadable, disk, ca
<1>1. CASE Start
  BY <1>1 DEF Start
<1>2. CASE Check
  BY <1>2 DEF Check
<1>3. CASE InitAccount
  BY <1>3 DEF InitAccount
<1>4. CASE InitAccountRaises
  BY <1>4 DEF InitAccountRaises
<1>5. CASE SendFinalize
  BY <1>5 DEF SendFinalize
<1>6. CASE IssueOk
  BY <1>6 DEF IssueOk, Returns
<1>7. CASE IssueForeign
  BY <1>7 DEF IssueForeign, Returns
<1>8. CASE IssueFail
  BY <1>8 DEF IssueFail
<1>9. CASE RenameKey
  BY <1>9 DEF RenameKey
<1>10. CASE RenameCert
  BY <1>10 DEF RenameCert
<1>11. CASE Build
  BY <1>11 DEF Build
<1>12. CASE Listen
  BY <1>12 DEF Listen
<1>13. CASE RenewWake
  BY <1>13 DEF RenewWake
<1>14. CASE Reload
  BY <1>14 DEF Reload
<1>15. ASSUME NEW g \in Calls, Age(g) PROVE KnownPair'
  BY <1>15 DEF Age
<1>16. CASE Crash
  BY <1>16 DEF Crash
<1>17. CASE UNCHANGED vars
  BY <1>17 DEF vars
<1>. QED BY <1>1, <1>2, <1>3, <1>4, <1>5, <1>6, <1>7, <1>8, <1>9, <1>10, <1>11, <1>12, <1>13,
            <1>14, <1>15, <1>16, <1>17 DEF Next, Step

LEMMA KnownPairInvariant == Spec => []KnownPair
<1>1. Init => KnownPair
  BY DEF Init, KnownPair
<1>. QED BY <1>1, KnownPairStep, Inductive, PTL DEF Spec

(* The reload outside the loop's try raises, and takes the listener's      *)
(* certificate with it, only on a pair that one call wrote with a          *)
(* certificate of another: no crash and no failed write ends the loop.     *)
THEOREM RenewalEndsOnlyByForeign == Spec => []LostOnlyByForeign
<1>1. IInv /\ KnownPair => LostOnlyByForeign
  BY DEF KnownPair, IInv, Presented, LostOnlyByForeign
<1>. QED BY <1>1, Inductive, KnownPairInvariant, PTL

(* Boot ends the process over its files only with a torn pair that it      *)
(* could not replace, or with the certificate of another call's CSR.       *)
THEOREM BootFailureExplained == Spec => []BuildFailsOnlyTorn
<1>1. IInv /\ KnownPair => BuildFailsOnlyTorn
  BY DEF KnownPair, IInv, TypeOK, WriteOrder, BuildFailsOnlyTorn, Loadable, ForeignPair, WrittenTogether
<1>. QED BY <1>1, Inductive, KnownPairInvariant, PTL

(* The certificate file changes only to the one returned with the key that *)
(* is on disk already, and keys only move to those of later calls.         *)
THEOREM KeyPrecedesCert == Spec => CertFollowsItsKey
<1> DEFINE Follows == /\ diskKey <= diskKey'
                      /\ diskCert' # diskCert => diskKey' = diskKey /\ diskCert' = got[diskKey]
<1>1. ASSUME IInv, [Next]_vars PROVE Follows
  <2> USE <1>1 DEF IInv, TypeOK, WriteOrder, disk
  <2>1. CASE RenameKey
    BY <2>1 DEF RenameKey
  <2>2. CASE RenameCert
    BY <2>2 DEF RenameCert
  <2>3. ASSUME UNCHANGED disk PROVE Follows
    BY <2>3
  <2>. QED BY <2>1, <2>2, <2>3
           DEF Next, Step, vars, Start, Check, InitAccount, InitAccountRaises, SendFinalize, IssueOk,
               IssueForeign, Returns, IssueFail, Build, Listen, RenewWake, Reload, Age, Crash
<1>2. IInv /\ [Next]_vars => [Follows]_vars
  BY <1>1
<1>. QED BY <1>2, Inductive, PTL DEF Spec, CertFollowsItsKey
================================================================================
