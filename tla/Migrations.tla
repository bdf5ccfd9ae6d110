----------------------------- MODULE Migrations -----------------------------
(***************************************************************************)
(* The two migration runners over one database: migrateDatabase of          *)
(* src/migrations/migrationRunner.ts with the service of                    *)
(* src/services/migrationService.ts, run by each instance of the            *)
(* application, and runMigrations of src/migrations/run-migrations.ts with   *)
(* the migration of add-api-key-security-fields.ts.  Both keep a table named *)
(* migrations, of different columns, and neither locks anything.            *)
(***************************************************************************)
EXTENDS Integers

CONSTANTS
    Instances,      \* runs of migrateDatabase
    Scripts,        \* runs of runMigrations
    NumMigrations,  \* migrations registered with the service, in order of timestamp
    NumPolicies,    \* statements of enable-rls.sql
    MaxMigrationFaults

MigrationIds == 1 .. NumMigrations

ASSUME MigrationAssumption == NumMigrations \in Nat /\ NumPolicies \in Nat

VARIABLES
    migTable,     \* who created the table: "none", "service" or "script"
    migRow,       \* the service's rows: the status of each migration
    scriptRow,    \* the script's row is there
    migDone,      \* the service's migrations that have taken effect
    migRuns,      \* history: how often each of them was run
    migRefused,   \* history: those that returned false or threw
    apiColumns,   \* the columns, and the indexes, of the script's migration
    apiIndexes,
    policies,     \* the statements of enable-rls.sql that were executed
    instance,     \* where each instance is
    script,       \* where each script is
    migrating,    \* history: an instance was running when another began
    migFaults

migVars == <<migTable, migRow, scriptRow, migDone, migRuns, migRefused, apiColumns, apiIndexes,
             policies, instance, script, migrating, migFaults>>
serviceTables == <<migRow, migDone, migRuns, migRefused, policies>>
scriptTables == <<scriptRow, apiColumns, apiIndexes>>

MigInit ==
    /\ migTable = "none"
    /\ migRow = [i \in MigrationIds |-> "none"]
    /\ migDone = {}
    /\ migRuns = [i \in MigrationIds |-> 0]
    /\ migRefused = {}
    /\ scriptRow = FALSE /\ apiColumns = FALSE /\ apiIndexes = FALSE
    /\ policies = {}
    /\ instance = [m \in Instances |-> [at |-> "idle", pending |-> {}, ok |-> FALSE, next |-> 1]]
    /\ script = [s \in Scripts |-> "idle"]
    /\ migrating = FALSE
    /\ migFaults = 0

Fault == migFaults < MaxMigrationFaults /\ migFaults' = migFaults + 1

-----------------------------------------------------------------------------
(* migrateDatabase                                                          *)

InstanceGoto(m, label) == instance' = [instance EXCEPT ![m].at = label]

InstanceOver(m) == InstanceGoto(m, "over")

BeginMigrateDatabase(m) ==
    /\ instance[m].at = "idle"
    /\ InstanceGoto(m, "ensure")
    /\ migrating' = (migrating \/ \E o \in Instances : instance[o].at \notin {"idle", "over"})
    /\ UNCHANGED <<migTable, serviceTables, scriptTables, script, migFaults>>

\* initialize: CREATE TABLE IF NOT EXISTS.
EnsureServiceTable(m) ==
    /\ instance[m].at = "ensure"
    /\ \/ /\ migTable' = IF migTable = "none" THEN "service" ELSE migTable
          /\ InstanceGoto(m, "list")
          /\ UNCHANGED migFaults
       \/ Fault /\ InstanceOver(m) /\ UNCHANGED migTable
    /\ UNCHANGED <<serviceTables, scriptTables, script, migrating>>

\* Mutant: the last of the pending migrations is run first.
LastPending(ids) == CHOOSE i \in ids : \A j \in ids : j <= i

NextPending(ids) == CHOOSE i \in ids : \A j \in ids : i <= j

\* getPendingMigrations; the script's table has no status to select by.
ListPending(m) ==
    LET pending == {i \in MigrationIds : migRow[i] # "applied"} IN
    /\ instance[m].at = "list"
    /\ \/ /\ migTable = "service"
          /\ instance' = [instance EXCEPT ![m].at = IF pending = {} THEN "rls" ELSE "migrate",
                                          ![m].pending = pending]
          /\ UNCHANGED migFaults
       \/ migTable = "script" /\ InstanceOver(m) /\ UNCHANGED migFaults
       \/ Fault /\ InstanceOver(m)
    /\ UNCHANGED <<migTable, serviceTables, scriptTables, script, migrating>>

\* The migration's own code, which is external, returns true, or returns false
\* or throws with or without having taken effect.
RunMigration(m) ==
    LET i == NextPending(instance[m].pending) IN
    /\ instance[m].at = "migrate"
    /\ \E ok \in BOOLEAN :
         /\ instance' = [instance EXCEPT ![m].at = "record", ![m].ok = ok]
         /\ IF ok THEN migDone' = migDone \cup {i} ELSE migDone' \in {migDone, migDone \cup {i}}
         /\ migRefused' = IF ok THEN migRefused ELSE migRefused \cup {i}
    /\ migRuns' = [migRuns EXCEPT ![i] = @ + 1]
    /\ UNCHANGED <<migTable, migRow, policies, scriptTables, script, migrating, migFaults>>

\* recordMigration, whose failure is swallowed; then the next migration, or
\* the policies, which in production are not reached after a failure.
RecordMigration(m) ==
    LET r == instance[m]
        i == NextPending(r.pending)
        recorded == [migRow EXCEPT ![i] = IF r.ok THEN "applied" ELSE "failed"]
        left == r.pending \ {i}
    IN
    /\ r.at = "record"
    /\ \/ migRow' = recorded /\ UNCHANGED migFaults
       \/ Fault /\ migRow' \in {migRow, recorded}
    /\ \E label \in IF ~ r.ok THEN {"rls", "over"} ELSE IF left = {} THEN {"rls"} ELSE {"migrate"} :
         instance' = [instance EXCEPT ![m].at = label, ![m].pending = left]
    /\ UNCHANGED <<migTable, migDone, migRuns, migRefused, policies, scriptTables, script, migrating>>

\* runRlsMigration: a statement that fails is passed over; the file may be
\* missing.
RunPolicy(m) ==
    LET k == instance[m].next IN
    /\ instance[m].at = "rls"
    /\ \/ InstanceOver(m) /\ (k = 1 \/ k > NumPolicies) /\ UNCHANGED <<policies, migFaults>>
       \/ /\ k <= NumPolicies
          /\ instance' = [instance EXCEPT ![m].next = k + 1]
          /\ \/ policies' = policies \cup {k} /\ UNCHANGED migFaults
             \/ Fault /\ policies' \in {policies, policies \cup {k}}
    /\ UNCHANGED <<migTable, migRow, migDone, migRuns, migRefused, scriptTables, script, migrating>>

\* The process ends between two statements.
InstanceDies(m) ==
    /\ instance[m].at \notin {"idle", "over"}
    /\ Fault
    /\ InstanceOver(m)
    /\ UNCHANGED <<migTable, serviceTables, scriptTables, script, migrating>>

-----------------------------------------------------------------------------
(* runMigrations of the script                                              *)

ScriptGoto(s, label) == script' = [script EXCEPT ![s] = label]

\* A failed statement, executed or not, ends the script.
ScriptFails(s) == Fault /\ ScriptGoto(s, "over")

BeginScript(s) ==
    /\ script[s] = "idle"
    /\ ScriptGoto(s, "ensure")
    /\ UNCHANGED <<migTable, serviceTables, scriptTables, instance, migrating, migFaults>>

EnsureScriptTable(s) ==
    /\ script[s] = "ensure"
    /\ \/ /\ migTable' = IF migTable = "none" THEN "script" ELSE migTable
          /\ ScriptGoto(s, "applied")
          /\ UNCHANGED migFaults
       \/ ScriptFails(s) /\ UNCHANGED migTable
    /\ UNCHANGED <<serviceTables, scriptTables, instance, migrating>>

\* isMigrationApplied
ScriptApplied(s) ==
    /\ script[s] = "applied"
    /\ \/ ScriptGoto(s, IF scriptRow THEN "over" ELSE "column") /\ UNCHANGED migFaults
       \/ ScriptFails(s)
    /\ UNCHANGED <<migTable, serviceTables, scriptTables, instance, migrating>>

\* migrate: columns that are there pass for the whole migration.
FindColumns(s) ==
    /\ script[s] = "column"
    /\ \/ ScriptGoto(s, IF apiColumns THEN "record" ELSE "alter") /\ UNCHANGED migFaults
       \/ ScriptFails(s)
    /\ UNCHANGED <<migTable, serviceTables, scriptTables, instance, migrating>>

AddColumns(s) ==
    /\ script[s] = "alter"
    /\ \/ ScriptGoto(s, "index") /\ apiColumns' = TRUE /\ UNCHANGED migFaults
       \/ ScriptFails(s) /\ apiColumns' \in {apiColumns, TRUE}
    /\ UNCHANGED <<migTable, serviceTables, scriptRow, apiIndexes, instance, migrating>>

AddIndexes(s) ==
    /\ script[s] = "index"
    /\ \/ ScriptGoto(s, "record") /\ apiIndexes' = TRUE /\ UNCHANGED migFaults
       \/ ScriptFails(s) /\ apiIndexes' \in {apiIndexes, TRUE}
    /\ UNCHANGED <<migTable, serviceTables, scriptRow, apiColumns, instance, migrating>>

\* recordMigration: the name must be new, and the service's table wants an id
\* the script does not give; either way the script ends.
RecordScript(s) ==
    /\ script[s] = "record"
    /\ \/ scriptRow' = (scriptRow \/ migTable = "script") /\ UNCHANGED migFaults
       \/ Fault /\ scriptRow' \in {scriptRow, migTable = "script"}
    /\ ScriptGoto(s, "over")
    /\ UNCHANGED <<migTable, serviceTables, apiColumns, apiIndexes, instance, migrating>>

-----------------------------------------------------------------------------
MigNext ==
    \/ \E m \in Instances :
         \/ BeginMigrateDatabase(m) \/ EnsureServiceTable(m) \/ ListPending(m) \/ RunMigration(m)
         \/ RecordMigration(m) \/ RunPolicy(m) \/ InstanceDies(m)
    \/ \E s \in Scripts :
         \/ BeginScript(s) \/ EnsureScriptTable(s) \/ ScriptApplied(s) \/ FindColumns(s)
         \/ AddColumns(s) \/ AddIndexes(s) \/ RecordScript(s)

-----------------------------------------------------------------------------
MigTypeOK ==
    /\ migTable \in {"none", "service", "script"}
    /\ migRow \in [MigrationIds -> {"none", "applied", "failed"}]
    /\ migDone \subseteq MigrationIds /\ migRefused \subseteq MigrationIds
    /\ {scriptRow, apiColumns, apiIndexes, migrating} \subseteq BOOLEAN
    /\ policies \subseteq 1 .. NumPolicies
    /\ \A m \in Instances :
         /\ instance[m].at \in {"idle", "ensure", "list", "migrate", "record", "rls", "over"}
         /\ instance[m].pending \subseteq MigrationIds
         /\ instance[m].next \in 1 .. NumPolicies + 1
    /\ script \in [Scripts -> {"idle", "ensure", "applied", "column", "alter", "index", "record", "over"}]

(* A migration takes effect only after all earlier ones have, and is        *)
(* recorded as applied only when it has; it is run again only after a       *)
(* failure or by instances that overlap.  The script's row means the        *)
(* columns, and the indexes too unless some statement failed or another     *)
(* script has yet to make them.                                             *)
MigrationsHonest ==
    /\ \A i \in MigrationIds :
         /\ i \in migDone => \A j \in 1 .. i : j \in migDone
         /\ migRow[i] = "applied" => i \in migDone
         /\ migRuns[i] > 1 => migrating \/ migFaults > 0 \/ i \in migRefused
    /\ scriptRow => apiColumns
    /\ scriptRow /\ migFaults = 0 => apiIndexes \/ \E s \in Scripts : script[s] = "index"

=============================================================================
