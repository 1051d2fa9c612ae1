------------------------------ MODULE Migrations ------------------------------
(***************************************************************************)
(* Bringing the database file to the current schema at start-up: init_db,  *)
(* _run_migrations and _reconcile_pre_alembic (db/engine.py) and the two   *)
(* Alembic revisions (migrations/versions).                                *)
(*                                                                         *)
(* One step is one statement that reaches the file.  Alembic and the       *)
(* sqlite3 driver are external; as they are used here, a CREATE or ALTER   *)
(* is durable the moment it is executed (the driver opens a transaction    *)
(* only for INSERT, UPDATE and DELETE, and Alembic does not count on       *)
(* transactional DDL for SQLite), while the version row is written after   *)
(* the statements of its revision.  The process may be killed between any  *)
(* two statements and is started again.                                    *)
(***************************************************************************)
EXTENDS Naturals, Sequences

CONSTANT MaxCrashes     \* bound: interrupted starts

ASSUME ConstantsAssumption == MaxCrashes \in Nat

VARIABLES
    schema,         \* tables, late columns and indexes in the file
    versionTable,   \* does alembic_version exist?
    version,        \* its row: "none", "0001" or "0002"
    pc,             \* where the start stands
    step,           \* the next statement of a list that is being executed
    crashes

vars == <<schema, versionTable, version, pc, step, crashes>>

-------------------------------------------------------------------------------
Tables == {"accounts", "certificates", "nonces", "orders", "authorizations"}
Indexes == {"ix_accounts_public_key", "ix_certificates_serial",
            "ix_nonces_created_at", "ix_orders_account_id"}
LateColumns == {"orders.error", "certificates.serial"}

(* 0001_initial: _TABLES, then _INDEXES. *)
BaselineStatements ==
    << "accounts", "certificates", "nonces", "orders", "authorizations",
       "ix_accounts_public_key", "ix_certificates_serial", "ix_nonces_created_at",
       "ix_orders_account_id" >>

(* CREATE TABLE brings the columns that were once added late with it. *)
Created(item) ==
    {item} \union (IF item = "orders" THEN {"orders.error"}
                   ELSE IF item = "certificates" THEN {"certificates.serial"} ELSE {})

(* _PRE_ALEMBIC_COLUMNS, then _PRE_ALEMBIC_INDEXES. *)
ReconcileStatements ==
    << "orders.error", "certificates.serial", "ix_accounts_public_key",
       "ix_nonces_created_at", "ix_orders_account_id", "ix_certificates_serial" >>

(* The table a late column or an index belongs to. *)
TableOf(item) ==
    CASE item \in {"orders.error", "ix_orders_account_id"} -> "orders"
      [] item \in {"certificates.serial", "ix_certificates_serial"} -> "certificates"
      [] item = "ix_accounts_public_key" -> "accounts"
      [] item = "ix_nonces_created_at" -> "nonces"

Baseline == Tables \union Indexes \union LateColumns
Current == Baseline \union {"authorizations.error"}

(* The databases a start may find: none; one that create_all and the old   *)
(* start-up hooks left, all tables there and any of the late columns and   *)
(* indexes; one that an earlier release created with Alembic; one that is  *)
(* up to date.                                                             *)
Init ==
    /\ \/ schema = {} /\ versionTable = FALSE /\ version = "none"
       \/ /\ \E late \in SUBSET (Indexes \union LateColumns) : schema = Tables \union late
          /\ versionTable = FALSE /\ version = "none"
       \/ schema = Baseline /\ versionTable = TRUE /\ version = "0001"
       \/ schema = Current /\ versionTable = TRUE /\ version = "0002"
    /\ pc = "down" /\ step = 1 /\ crashes = 0

-------------------------------------------------------------------------------
Start ==
    /\ pc \in {"down", "failed"}
    /\ pc' = "inspect"
    /\ UNCHANGED <<schema, versionTable, version, step, crashes>>

(* Faulty variant of Inspect: a database without a version is taken for a  *)
(* pre-Alembic one, whether alembic_version exists or not.                 *)
InspectByTables ==
    /\ pc = "inspect"
    /\ pc' = IF version # "none" \/ "accounts" \notin schema THEN "upgrade" ELSE "reconcile"
    /\ step' = 1
    /\ UNCHANGED <<schema, versionTable, version, crashes>>

(* The three cases of _run_migrations. *)
Inspect ==
    /\ pc = "inspect"
    /\ pc' = IF versionTable \/ "accounts" \notin schema THEN "upgrade" ELSE "reconcile"
    /\ step' = 1
    /\ UNCHANGED <<schema, versionTable, version, crashes>>

(* Faulty variant of Reconcile: columns are added without a look at the    *)
(* table.                                                                  *)
ReconcileBlindly ==
    /\ pc = "reconcile"
    /\ LET item == ReconcileStatements[step] IN
       IF TableOf(item) \notin schema \/ (item \in LateColumns /\ item \in schema)
       THEN pc' = "failed" /\ UNCHANGED <<schema, step>>
       ELSE /\ schema' = schema \union {item}
            /\ step' = step + 1
            /\ pc' = IF step = Len(ReconcileStatements) THEN "stamp" ELSE pc
    /\ UNCHANGED <<versionTable, version, crashes>>

(* _reconcile_pre_alembic: a column is added if its table is there without *)
(* it, an index created IF NOT EXISTS, which fails without its table.      *)
Reconcile ==
    /\ pc = "reconcile"
    /\ LET item == ReconcileStatements[step]
           there == TableOf(item) \in schema
       IN
       IF item \in Indexes /\ ~there
       THEN pc' = "failed" /\ UNCHANGED <<schema, step>>
       ELSE /\ schema' = IF there THEN schema \union {item} ELSE schema
            /\ step' = step + 1
            /\ pc' = IF step = Len(ReconcileStatements) THEN "stamp" ELSE pc
    /\ UNCHANGED <<versionTable, version, crashes>>

(* command.stamp creates alembic_version, then inserts the baseline's row. *)
StampTable ==
    /\ pc = "stamp"
    /\ versionTable' = TRUE
    /\ pc' = "stamp_row"
    /\ UNCHANGED <<schema, version, step, crashes>>

StampRow ==
    /\ pc = "stamp_row"
    /\ version' = "0001"
    /\ pc' = "upgrade"
    /\ UNCHANGED <<schema, versionTable, step, crashes>>

(* Faulty variant of Upgrade: the target is the baseline and not head.     *)
UpgradeToBaseline ==
    /\ pc = "upgrade"
    /\ versionTable' = TRUE
    /\ step' = 1
    /\ pc' = IF version = "none" THEN "baseline" ELSE "ready"
    /\ UNCHANGED <<schema, version, crashes>>

(* command.upgrade to head: Alembic reads the version, creates its table   *)
(* if there is no row, and runs the revisions that are missing.            *)
Upgrade ==
    /\ pc = "upgrade"
    /\ versionTable' = TRUE
    /\ step' = 1
    /\ pc' = CASE version = "none" -> "baseline"
               [] version = "0001" -> "authz_error"
               [] version = "0002" -> "ready"
    /\ UNCHANGED <<schema, version, crashes>>

(* 0001_initial, one plain CREATE after the other. *)
CreateBaseline ==
    /\ pc = "baseline"
    /\ LET item == BaselineStatements[step] IN
       IF item \in schema
       THEN pc' = "failed" /\ UNCHANGED <<schema, step>>
       ELSE /\ schema' = schema \union Created(item)
            /\ step' = step + 1
            /\ pc' = IF step = Len(BaselineStatements) THEN "baseline_row" ELSE pc
    /\ UNCHANGED <<versionTable, version, crashes>>

BaselineRow ==
    /\ pc = "baseline_row"
    /\ version' = "0001"
    /\ pc' = "authz_error"
    /\ UNCHANGED <<schema, versionTable, step, crashes>>

(* 0002_authz_error: ALTER TABLE authorizations ADD COLUMN error. *)
AddAuthzError ==
    /\ pc = "authz_error"
    /\ IF "authorizations.error" \in schema
       THEN pc' = "failed" /\ UNCHANGED schema
       ELSE schema' = schema \union {"authorizations.error"} /\ pc' = "head_row"
    /\ UNCHANGED <<versionTable, version, step, crashes>>

HeadRow ==
    /\ pc = "head_row"
    /\ version' = "0002"
    /\ pc' = "ready"
    /\ UNCHANGED <<schema, versionTable, step, crashes>>

(* The rest of lifespan's start-up, which leaves the schema alone. *)
Serve ==
    /\ pc = "ready"
    /\ pc' = "serving"
    /\ UNCHANGED <<schema, versionTable, version, step, crashes>>

(* The relay is stopped in an orderly way, to be started again later. *)
Stop ==
    /\ pc = "serving"
    /\ pc' = "down"
    /\ UNCHANGED <<schema, versionTable, version, step, crashes>>

(* The process is killed, or a statement finds the file locked. *)
Crash ==
    /\ pc \notin {"down", "failed"}
    /\ crashes < MaxCrashes
    /\ crashes' = crashes + 1
    /\ pc' = "down"
    /\ UNCHANGED <<schema, versionTable, version, step>>

-------------------------------------------------------------------------------
RunMigrations ==
    \/ Inspect \/ Reconcile \/ StampTable \/ StampRow
    \/ Upgrade \/ CreateBaseline \/ BaselineRow \/ AddAuthzError \/ HeadRow

Next == Start \/ RunMigrations \/ Serve \/ Stop \/ Crash

Spec == Init /\ [][Next]_vars

(* The container is started again whenever it stops (restart:              *)
(* unless-stopped), and a start that is not killed moves on.               *)
FairSpec == Spec /\ WF_vars(Start) /\ WF_vars(RunMigrations) /\ WF_vars(Serve)

-------------------------------------------------------------------------------
(* Every variable has its type. *)
TypeOK ==
    /\ schema \subseteq Current
    /\ versionTable \in BOOLEAN /\ version \in {"none", "0001", "0002"}
    /\ pc \in {"down", "failed", "inspect", "reconcile", "stamp", "stamp_row", "upgrade",
               "baseline", "baseline_row", "authz_error", "head_row", "ready", "serving"}
    /\ step \in Nat /\ crashes \in Nat

(* The version row never claims more than the file holds, wherever starts  *)
(* are cut off: a revision's row is written after its last statement, and  *)
(* a pre-Alembic file is reconciled before it is stamped.                  *)
VersionHonest ==
    /\ version = "0001" => Baseline \subseteq schema
    /\ version = "0002" => schema = Current

(* No request is served on a schema that lacks something the models need,  *)
(* whatever file the start found and however often it was interrupted.     *)
ServesCurrentSchema == pc = "serving" => version = "0002" /\ schema = Current

(* A file in which a revision was begun and not recorded. *)
Torn ==
    \/ versionTable /\ version = "none" /\ "accounts" \in schema
    \/ version = "0001" /\ "authorizations.error" \in schema

(* A start fails only on a torn file: everything else that interrupted     *)
(* starts leave behind, the reconciliation of an old file included, can be *)
(* done again.                                                             *)
FailsOnlyIfTorn == pc = "failed" => Torn

(* And only after a start was cut off: on any database the repository ever *)
(* produced, starts and orderly stops alone never lead to a failure.       *)
FailsOnlyIfInterrupted == pc = "failed" => crashes > 0

(* No start, not even one that fails or is cut off, undoes what an earlier *)
(* one did: nothing is dropped, and the version never goes back.           *)
UpgradesOnly ==
    [][/\ schema \subseteq schema'
       /\ versionTable => versionTable'
       /\ version = "0001" => version' \in {"0001", "0002"}
       /\ version = "0002" => version' = "0002"]_vars

(* The relay comes back to serving after every stop and every crash,       *)
(* unless a start was cut off in the middle of a revision.                 *)
ServesUnlessTorn == []<>(pc = "serving") \/ <>[]Torn

-------------------------------------------------------------------------------
(* A statement of the repository that the code does not keep.              *)

(* README.md on migrations at start-up: "so there is no manual step".  The *)
(* relay comes to serve by being started again.                            *)
NoManualStep == []<>(pc = "serving")
===============================================================================
