--------------------------- MODULE MigrationsProofs ---------------------------
(* Proofs about Migrations, for every number of interrupted starts.        *)
EXTENDS Migrations, TLAPS

(* What the statements executed so far have left in the file.              *)
ReconciledSoFar == \A i \in 1..(step - 1) : ReconcileStatements[i] \in schema
CreatedSoFar    == \A i \in 1..(step - 1) : Created(BaselineStatements[i]) \subseteq schema

(* What each point of a start has established about the file.              *)
PointInv ==
    /\ ~versionTable => version = "none"
    /\ ~versionTable /\ "accounts" \in schema => Tables \subseteq schema
    /\ pc = "reconcile" =>
           /\ ~versionTable /\ Tables \subseteq schema
           /\ step \in 1..6 /\ ReconciledSoFar
    /\ pc \in {"stamp", "stamp_row", "baseline_row"} => Baseline \subseteq schema /\ version = "none"
    /\ pc = "stamp" => ~versionTable
    /\ pc \in {"stamp_row", "baseline_row"} => versionTable
    /\ pc = "baseline" => version = "none" /\ versionTable /\ step \in 1..9 /\ CreatedSoFar
    /\ pc \in {"authz_error", "head_row"} => version = "0001"
    /\ pc = "head_row" => "authorizations.error" \in schema
    /\ pc \in {"ready", "serving"} => version = "0002"

IInv == TypeOK /\ VersionHonest /\ FailsOnlyIfTorn /\ PointInv

-------------------------------------------------------------------------------
(* All statements of a list make up what the list is for.                  *)
LEMMA ReconcileComplete ==
    ASSUME NEW S, Tables \subseteq S, \A i \in 1..6 : ReconcileStatements[i] \in S
    PROVE  Baseline \subseteq S
<1>1. /\ ReconcileStatements[1] = "orders.error"
      /\ ReconcileStatements[2] = "certificates.serial"
      /\ ReconcileStatements[3] = "ix_accounts_public_key"
      /\ ReconcileStatements[4] = "ix_nonces_created_at"
      /\ ReconcileStatements[5] = "ix_orders_account_id"
      /\ ReconcileStatements[6] = "ix_certificates_serial"
  BY DEF ReconcileStatements
<1>2. 1 \in 1..6 /\ 2 \in 1..6 /\ 3 \in 1..6 /\ 4 \in 1..6 /\ 5 \in 1..6 /\ 6 \in 1..6
  OBVIOUS
<1>3. Indexes \subseteq S /\ LateColumns \subseteq S
  BY <1>1, <1>2 DEF Indexes, LateColumns
<1> QED
  BY <1>3 DEF Baseline

LEMMA BaselineItems ==
    /\ BaselineStatements[1] = "accounts"
    /\ BaselineStatements[2] = "certificates"
    /\ BaselineStatements[3] = "nonces"
    /\ BaselineStatements[4] = "orders"
    /\ BaselineStatements[5] = "authorizations"
    /\ BaselineStatements[6] = "ix_accounts_public_key"
    /\ BaselineStatements[7] = "ix_certificates_serial"
    /\ BaselineStatements[8] = "ix_nonces_created_at"
    /\ BaselineStatements[9] = "ix_orders_account_id"
BY DEF BaselineStatements

LEMMA BaselineComplete ==
    ASSUME NEW S, \A i \in 1..9 : Created(BaselineStatements[i]) \subseteq S
    PROVE  Baseline \subseteq S
<1>1. /\ 1 \in 1..9 /\ 2 \in 1..9 /\ 3 \in 1..9 /\ 4 \in 1..9 /\ 5 \in 1..9
      /\ 6 \in 1..9 /\ 7 \in 1..9 /\ 8 \in 1..9 /\ 9 \in 1..9
  OBVIOUS
<1>2. Tables \subseteq S
  BY <1>1, BaselineItems DEF Tables, Created
<1>3. Indexes \subseteq S
  BY <1>1, BaselineItems DEF Indexes, Created
<1>4. LateColumns \subseteq S
  BY <1>1, BaselineItems DEF LateColumns, Created
<1> QED
  BY <1>2, <1>3, <1>4 DEF Baseline

LEMMA StatementTypes ==
    /\ \A i \in 1..6 : ReconcileStatements[i] \in Current
    /\ \A i \in 1..9 : Created(BaselineStatements[i]) \subseteq Current
    /\ Len(ReconcileStatements) = 6 /\ Len(BaselineStatements) = 9
<1>1. \A i \in 1..6 : ReconcileStatements[i] \in Current
  BY DEF ReconcileStatements, Current, Baseline, Indexes, LateColumns
<1>2. \A i \in 1..9 : BaselineStatements[i] \in Tables \union Indexes
  BY DEF BaselineStatements, Tables, Indexes
<1>3. \A i \in 1..9 : Created(BaselineStatements[i]) \subseteq Current
  BY <1>2 DEF Created, Current, Baseline, LateColumns
<1> QED
  BY <1>1, <1>3 DEF ReconcileStatements, BaselineStatements

(* Every statement of the reconciliation is about one of the tables. *)
LEMMA ReconcileTables == \A i \in 1..6 : TableOf(ReconcileStatements[i]) \in Tables
<1> SUFFICES ASSUME NEW i \in 1..6 PROVE TableOf(ReconcileStatements[i]) \in Tables
  OBVIOUS
<1>1. i \in {1, 2, 3, 4, 5, 6}
  OBVIOUS
<1>2. /\ TableOf("orders.error") = "orders" /\ TableOf("ix_orders_account_id") = "orders"
      /\ TableOf("certificates.serial") = "certificates"
      /\ TableOf("ix_certificates_serial") = "certificates"
      /\ TableOf("ix_accounts_public_key") = "accounts" /\ TableOf("ix_nonces_created_at") = "nonces"
  BY DEF TableOf
<1>. QED BY <1>1, <1>2 DEF ReconcileStatements, Tables

(* On a file with all the tables a statement of the reconciliation         *)
(* succeeds.                                                               *)
LEMMA ReconcileSucceeds ==
    ASSUME Reconcile, step \in 1..6, Tables \subseteq schema
    PROVE  /\ schema' = schema \union {ReconcileStatements[step]} /\ step' = step + 1
           /\ versionTable' = versionTable /\ version' = version /\ crashes' = crashes
           /\ pc' = IF step = 6 THEN "stamp" ELSE "reconcile"
<1>1. TableOf(ReconcileStatements[step]) \in schema
  BY ReconcileTables
<1>. QED BY <1>1, StatementTypes DEF Reconcile

LEMMA InitInvariant == Init => IInv
<1> SUFFICES ASSUME Init PROVE IInv
  OBVIOUS
<1>1. TypeOK
  BY DEF Init, TypeOK, Current, Baseline
<1>2. "accounts" \in schema => Tables \subseteq schema
  BY DEF Init, Current, Baseline
<1>3. VersionHonest /\ FailsOnlyIfTorn
  BY DEF Init, VersionHonest, FailsOnlyIfTorn
<1> QED
  BY <1>1, <1>2, <1>3 DEF IInv, PointInv, Init

LEMMA StepInvariant == IInv /\ [Next]_vars => IInv'
<1> SUFFICES ASSUME IInv, [Next]_vars PROVE IInv'
  OBVIOUS
<1>1. CASE Start
  BY <1>1 DEF Start, IInv, TypeOK, VersionHonest, FailsOnlyIfTorn, PointInv
<1>2. CASE Inspect
  <2>1. ReconciledSoFar'
    BY <1>2 DEF Inspect, ReconciledSoFar
  <2> QED
    BY <1>2, <2>1 DEF Inspect, IInv, TypeOK, VersionHonest, FailsOnlyIfTorn, PointInv
<1>3. CASE Reconcile
  <2>1. /\ pc = "reconcile" /\ step \in 1..6 /\ ReconciledSoFar /\ Tables \subseteq schema
        /\ version = "none" /\ ~versionTable
    BY <1>3 DEF Reconcile, IInv, PointInv
  <2>2. /\ schema' = schema \union {ReconcileStatements[step]} /\ step' = step + 1
        /\ versionTable' = versionTable /\ version' = version /\ crashes' = crashes
        /\ pc' = IF step = 6 THEN "stamp" ELSE "reconcile"
    BY <1>3, <2>1, ReconcileSucceeds
  <2>3. TypeOK'
    BY <2>1, <2>2, StatementTypes DEF IInv, TypeOK
  <2>4. \A i \in 1..step : ReconcileStatements[i] \in schema'
    BY <2>1, <2>2 DEF ReconciledSoFar
  <2>5. ReconciledSoFar'
    BY <2>1, <2>2, <2>4 DEF ReconciledSoFar
  <2>6. step = 6 => Baseline \subseteq schema'
    <3>1. Tables \subseteq schema'
      BY <2>1, <2>2
    <3>2. step = 6 => \A i \in 1..6 : ReconcileStatements[i] \in schema'
      BY <2>4
    <3> QED
      BY <3>1, <3>2, ReconcileComplete
  <2>7. VersionHonest' /\ FailsOnlyIfTorn'
    BY <2>1, <2>2 DEF VersionHonest, FailsOnlyIfTorn
  <2>8. PointInv'
    BY <2>1, <2>2, <2>5, <2>6 DEF PointInv
  <2> QED
    BY <2>3, <2>7, <2>8 DEF IInv
<1>4. CASE StampTable
  BY <1>4 DEF StampTable, IInv, TypeOK, VersionHonest, FailsOnlyIfTorn, PointInv
<1>5. CASE StampRow
  BY <1>5 DEF StampRow, IInv, TypeOK, VersionHonest, FailsOnlyIfTorn, PointInv
<1>6. CASE Upgrade
  <2>1. CreatedSoFar'
    BY <1>6 DEF Upgrade, CreatedSoFar
  <2> QED
    BY <1>6, <2>1 DEF Upgrade, IInv, TypeOK, VersionHonest, FailsOnlyIfTorn, PointInv
<1>7. CASE CreateBaseline
  <2> DEFINE item == BaselineStatements[step]
  <2>1. /\ pc = "baseline" /\ step \in 1..9 /\ CreatedSoFar /\ version = "none" /\ versionTable
        /\ versionTable' = versionTable /\ version' = version /\ crashes' = crashes
    BY <1>7 DEF CreateBaseline, IInv, PointInv
  <2>2. CASE item \in schema
    <3>1. "accounts" \in schema
      <4>1. CASE step = 1
        BY <2>2, <4>1, BaselineItems
      <4>2. CASE step # 1
        <5>1. 1 \in 1..(step - 1)
          BY <2>1, <4>2
        <5>2. Created("accounts") \subseteq schema
          BY <2>1, <5>1, BaselineItems DEF CreatedSoFar
        <5> QED
          BY <5>2 DEF Created
      <4> QED
        BY <4>1, <4>2
    <3>2. pc' = "failed" /\ UNCHANGED <<schema, step>>
      BY <1>7, <2>2 DEF CreateBaseline
    <3> QED
      BY <2>1, <3>1, <3>2 DEF IInv, TypeOK, VersionHonest, FailsOnlyIfTorn, Torn, PointInv
  <2>3. CASE item \notin schema
    <3>1. /\ schema' = schema \union Created(item) /\ step' = step + 1
          /\ pc' = IF step = 9 THEN "baseline_row" ELSE "baseline"
      BY <1>7, <2>1, <2>3, StatementTypes DEF CreateBaseline
    <3>2. TypeOK'
      BY <2>1, <3>1, StatementTypes DEF IInv, TypeOK
    <3>3. \A i \in 1..step : Created(BaselineStatements[i]) \subseteq schema'
      BY <2>1, <3>1 DEF CreatedSoFar
    <3>4. CreatedSoFar'
      BY <2>1, <3>1, <3>3 DEF CreatedSoFar
    <3>5. step = 9 => Baseline \subseteq schema'
      BY <3>3, BaselineComplete
    <3>6. VersionHonest' /\ FailsOnlyIfTorn'
      BY <2>1, <3>1 DEF VersionHonest, FailsOnlyIfTorn
    <3> QED
      BY <2>1, <3>1, <3>2, <3>4, <3>5, <3>6 DEF IInv, PointInv
  <2> QED
    BY <2>2, <2>3
<1>8. CASE BaselineRow
  BY <1>8 DEF BaselineRow, IInv, TypeOK, VersionHonest, FailsOnlyIfTorn, PointInv
<1>9. CASE AddAuthzError
  <2>1. version = "0001" /\ Baseline \subseteq schema /\ pc = "authz_error"
    BY <1>9 DEF AddAuthzError, IInv, PointInv, VersionHonest
  <2>2. TypeOK' /\ VersionHonest' /\ FailsOnlyIfTorn'
    BY <1>9, <2>1 DEF AddAuthzError, IInv, TypeOK, Current, VersionHonest, FailsOnlyIfTorn, Torn
  <2>3. PointInv'
    BY <1>9, <2>1 DEF AddAuthzError, IInv, PointInv, Baseline
  <2> QED
    BY <2>2, <2>3 DEF IInv
<1>10. CASE HeadRow
  <2>1. schema = Current /\ version = "0001" /\ pc = "head_row"
    BY <1>10 DEF HeadRow, IInv, TypeOK, VersionHonest, PointInv, Current
  <2> QED
    BY <1>10, <2>1 DEF HeadRow, IInv, TypeOK, VersionHonest, FailsOnlyIfTorn, PointInv
<1>11. CASE Serve \/ Stop
  BY <1>11 DEF Serve, Stop, IInv, TypeOK, VersionHonest, FailsOnlyIfTorn, PointInv
<1>12. CASE Crash
  BY <1>12 DEF Crash, IInv, TypeOK, VersionHonest, FailsOnlyIfTorn, PointInv
<1>13. CASE UNCHANGED vars
  BY <1>13 DEF vars, IInv, TypeOK, VersionHonest, FailsOnlyIfTorn, Torn, PointInv,
               ReconciledSoFar, CreatedSoFar
<1> QED
  BY <1>1, <1>2, <1>3, <1>4, <1>5, <1>6, <1>7, <1>8, <1>9, <1>10, <1>11, <1>12, <1>13
     DEF Next, RunMigrations

LEMMA Invariance == Spec => []IInv
  BY InitInvariant, StepInvariant, PTL DEF Spec

-------------------------------------------------------------------------------
(* The variables of a start always have their types. *)
THEOREM TypeCorrect == Spec => []TypeOK
<1>1. IInv => TypeOK
  BY DEF IInv
<1> QED
  BY Invariance, <1>1, PTL

(* However many starts are cut off, the version row never claims more than *)
(* the file holds.                                                         *)
THEOREM VersionIsHonest == Spec => []VersionHonest
<1>1. IInv => VersionHonest
  BY DEF IInv
<1> QED
  BY Invariance, <1>1, PTL

(* No request is ever served on an incomplete schema.                      *)
THEOREM CurrentSchemaServed == Spec => []ServesCurrentSchema
<1>1. IInv => ServesCurrentSchema
  BY DEF IInv, PointInv, VersionHonest, ServesCurrentSchema
<1> QED
  BY Invariance, <1>1, PTL

(* Only a torn file makes a start fail.                                    *)
THEOREM FailureMeansTorn == Spec => []FailsOnlyIfTorn
<1>1. IInv => FailsOnlyIfTorn
  BY DEF IInv
<1> QED
  BY Invariance, <1>1, PTL

-------------------------------------------------------------------------------
(* A start that nobody cut off leaves no revision half done: what a        *)
(* statement of the baseline is about to create is not there, and the      *)
(* column of 0002 comes with its row.                                      *)
Unfinished == \A i \in 1..9 : i >= step => BaselineStatements[i] \notin schema

CalmInv ==
    crashes = 0 =>
        /\ pc # "failed"
        /\ "authorizations.error" \in schema => pc = "head_row" \/ version = "0002"
        /\ ~versionTable /\ "accounts" \notin schema => schema = {}
        /\ pc \in {"down", "inspect"} /\ versionTable => version # "none"
        /\ pc = "upgrade" /\ version = "none" => schema = {}
        /\ pc = "baseline" => Unfinished

(* The statements of the baseline create different things.                 *)
LEMMA BaselineDistinct ==
    ASSUME NEW i \in 1..9, NEW j \in 1..9, i # j
    PROVE  BaselineStatements[j] \notin Created(BaselineStatements[i])
<1>1. BaselineStatements[i] # BaselineStatements[j]
  BY DEF BaselineStatements
<1>2. BaselineStatements[j] \notin {"orders.error", "certificates.serial"}
  BY DEF BaselineStatements
<1> QED
  BY <1>1, <1>2 DEF Created

LEMMA CalmStep == IInv /\ CalmInv /\ [Next]_vars => CalmInv'
<1> SUFFICES ASSUME IInv, CalmInv, [Next]_vars, crashes' = 0 PROVE CalmInv'
  BY DEF CalmInv
<1>0. crashes = 0
  BY DEF IInv, TypeOK, Next, RunMigrations, Start, Inspect, Reconcile, StampTable, StampRow, Upgrade,
         CreateBaseline, BaselineRow, AddAuthzError, HeadRow, Serve, Stop, Crash, vars
<1>1. CASE Start \/ Inspect
  BY <1>0, <1>1 DEF Start, Inspect, CalmInv, IInv, PointInv
<1>2. CASE Reconcile
  <2>1. ReconcileStatements[step] # "authorizations.error" /\ "accounts" \in schema /\ ~versionTable
    <3>1. step \in 1..6 /\ Tables \subseteq schema /\ ~versionTable
      BY <1>2 DEF Reconcile, IInv, PointInv
    <3> QED
      BY <3>1 DEF ReconcileStatements, Tables
  <2>2. /\ schema' = schema \union {ReconcileStatements[step]} /\ versionTable' = versionTable
        /\ version' = version /\ pc = "reconcile" /\ pc' \in {"stamp", "reconcile"}
    <3>1. pc = "reconcile" /\ step \in 1..6 /\ Tables \subseteq schema
      BY <1>2 DEF Reconcile, IInv, PointInv
    <3> QED
      BY <1>2, <3>1, ReconcileSucceeds
  <2> QED
    BY <1>0, <1>2, <2>1, <2>2 DEF CalmInv
<1>3. CASE StampTable \/ StampRow
  BY <1>0, <1>3 DEF StampTable, StampRow, CalmInv, IInv, PointInv
<1>4. CASE Upgrade
  <2>1. pc' = "baseline" => schema = {} /\ schema' = schema
    BY <1>0, <1>4 DEF Upgrade, CalmInv, IInv, TypeOK
  <2>2. pc' = "baseline" => Unfinished'
    BY <2>1 DEF Unfinished
  <2> QED
    BY <1>0, <1>4, <2>2 DEF Upgrade, CalmInv, IInv, TypeOK
<1>5. CASE CreateBaseline
  <2>1. /\ pc = "baseline" /\ step \in 1..9 /\ Unfinished /\ versionTable /\ version = "none"
        /\ "authorizations.error" \notin schema
    BY <1>0, <1>5 DEF CreateBaseline, CalmInv, IInv, PointInv
  <2>2. BaselineStatements[step] \notin schema
    BY <2>1 DEF Unfinished
  <2>3. /\ schema' = schema \union Created(BaselineStatements[step]) /\ step' = step + 1
        /\ pc' \in {"baseline", "baseline_row"}
        /\ versionTable' = versionTable /\ version' = version
    BY <1>5, <2>1, <2>2 DEF CreateBaseline
  <2>4. "authorizations.error" \notin schema'
    <3>1. BaselineStatements[step] # "authorizations.error"
      BY <2>1 DEF BaselineStatements
    <3> QED
      BY <2>1, <2>3, <3>1 DEF Created
  <2>5. Unfinished'
    <3> SUFFICES ASSUME NEW j \in 1..9, j >= step' PROVE BaselineStatements[j] \notin schema'
      BY DEF Unfinished
    <3>1. j # step /\ j >= step
      BY <2>1, <2>3
    <3>2. BaselineStatements[j] \notin Created(BaselineStatements[step])
      BY <2>1, <3>1, BaselineDistinct
    <3> QED
      BY <2>1, <2>3, <3>1, <3>2 DEF Unfinished
  <2> QED
    BY <2>1, <2>3, <2>4, <2>5 DEF CalmInv
<1>6. CASE BaselineRow
  BY <1>0, <1>6 DEF BaselineRow, CalmInv, IInv, PointInv
<1>7. CASE AddAuthzError
  BY <1>0, <1>7 DEF AddAuthzError, CalmInv, IInv, PointInv
<1>8. CASE HeadRow \/ Serve \/ Stop
  BY <1>0, <1>8 DEF HeadRow, Serve, Stop, CalmInv, IInv, PointInv
<1>9. CASE Crash
  BY <1>0, <1>9 DEF Crash
<1>10. CASE UNCHANGED vars
  BY <1>10 DEF vars, CalmInv, Unfinished
<1> QED
  BY <1>1, <1>2, <1>3, <1>4, <1>5, <1>6, <1>7, <1>8, <1>9, <1>10 DEF Next, RunMigrations

(* Starts that nobody interrupts never fail, on any database that any      *)
(* release left: each of them finds no revision half done and leaves none. *)
THEOREM UninterruptedStartsSucceed == Spec => []FailsOnlyIfInterrupted
<1>1. Init => CalmInv
  <2> SUFFICES ASSUME Init PROVE CalmInv
    OBVIOUS
  <2>1. "authorizations.error" \notin Tables \union Indexes \union LateColumns
    BY DEF Tables, Indexes, LateColumns
  <2>2. "accounts" \in Tables
    BY DEF Tables
  <2> QED
    BY <2>1, <2>2 DEF Init, CalmInv, Baseline, Current
<1>2. IInv /\ CalmInv => FailsOnlyIfInterrupted
  BY DEF IInv, TypeOK, CalmInv, FailsOnlyIfInterrupted
<1> QED
  BY <1>1, <1>2, CalmStep, Invariance, PTL DEF Spec

(* Nothing a start does is ever undone by a later one.                     *)
THEOREM UpgradesNeverUndone == Spec => UpgradesOnly
<1> DEFINE Keeps == /\ schema \subseteq schema'
                    /\ versionTable => versionTable'
                    /\ version = "0001" => version' \in {"0001", "0002"}
                    /\ version = "0002" => version' = "0002"
<1>1. IInv /\ [Next]_vars => [Keeps]_vars
  <2> SUFFICES ASSUME IInv, Next PROVE Keeps
    BY DEF vars
  <2> QED
    BY DEF Next, RunMigrations, Start, Inspect, Reconcile, StampTable, StampRow, Upgrade, CreateBaseline,
           BaselineRow, AddAuthzError, HeadRow, Serve, Stop, Crash, IInv, PointInv
<1> QED
  BY <1>1, Invariance, PTL DEF Spec, UpgradesOnly

===============================================================================
