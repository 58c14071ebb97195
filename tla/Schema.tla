------------------------------- MODULE Schema -------------------------------
(* The start of the process: InitDB, runSchemaMigrations and               *)
(* seedInitialData (pkg/core/db.go), the column upgrades they are built on *)
(* (schema_migrate.go) and InitSuperApp (superapp.go).                     *)
(*                                                                         *)
(* A start runs one script of SQL statements on the file that is there: a  *)
(* new one, or one an older release left.  Only a CREATE TABLE of InitDB   *)
(* ends the process when it fails; any other failure is a line in the log. *)
(* The process may die between any two statements.  A table is the columns *)
(* that releases differ in, and "id" for the ones they have in common.     *)
EXTENDS Integers, Sequences, FiniteSets

CONSTANTS Files,       \* what older releases left: records of columns, roles and rows
          MaxStarts,   \* bound: starts of the process
          MaxFaults    \* bound: statements that fail without a reason of their own

ASSUME FilesAssumption == \A f \in Files : f.rows \subseteq {"teams", "users", "finops_settings"}

VARIABLES columns,  \* the file's <<table, column>> pairs
          roles,    \* the values in users.role
          rows,     \* of teams, users and finops_settings: the ones with a row
          line,     \* the next statement, 0 when the process is down
          spoilt,   \* a statement of this start failed without a reason of its own
          clean,    \* starts in a row that ran to their end unspoilt
          faults, starts

schemaVars == <<columns, roles, rows, line, spoilt, clean, faults, starts>>

-----------------------------------------------------------------------------
(* The script.                                                             *)
Create(t, cs, fatal) == [do |-> "create", table |-> t, cols |-> {"id"} \cup cs, fatal |-> fatal]
Add(t, c) == [do |-> "add", table |-> t, cols |-> {c}, fatal |-> FALSE]
Rewrite(to) == [do |-> "rewrite", table |-> "users", to |-> to, fatal |-> FALSE]
Seed(t) == [do |-> "seed", table |-> t, fatal |-> FALSE]

CoreTables == << Create("users", {}, TRUE), Create("teams", {}, TRUE), Create("user_teams", {}, TRUE),
                 Create("projects", {}, TRUE), Create("incidents", {}, TRUE) >>
SettingsTables == << Create("finops_settings", {}, TRUE), Create("user_preferences", {}, TRUE),
                     Create("saved_charts", {}, TRUE), Create("enterprise_config", {}, TRUE) >>

ColumnMigrations ==
  << Add("user_teams", "inherited_from"),
     Add("incidents", "pipeline_run_id"), Add("incidents", "browser"), Add("incidents", "os"),
     Add("incidents", "viewport"), Add("incidents", "execution_time_ms"), Add("incidents", "jira_issue_key"),
     Add("projects", "sre_routing_json"), Add("projects", "sre_workflow_json"),
     Add("incidents", "rca_status"), Add("incidents", "has_rca"),
     Add("pipeline_runs", "outcome"), Add("pipeline_runs", "finished_at"),
     Add("pipeline_runs", "execution_env"), Add("pipeline_runs", "execution_type"),
     Add("pipeline_runs", "total_tests"), Add("pipeline_runs", "passed_tests"),
     Add("pipeline_runs", "failed_tests"), Add("pipeline_runs", "skipped_tests"),
     Add("pipeline_runs", "duration_ms"), Add("pipeline_runs", "report_json") >>

RunColumns == {"branch", "outcome", "finished_at", "execution_env", "execution_type", "total_tests",
               "passed_tests", "failed_tests", "skipped_tests", "duration_ms", "report_json"}

RecordTables ==
  << Create("incident_artifacts", {}, FALSE), Create("test_execution_metrics", {}, FALSE),
     Create("ai_provider_config", {}, FALSE), Create("ai_analysis_jobs", {}, FALSE),
     Create("incident_rca_reports", {}, FALSE), Create("pipeline_runs", RunColumns, FALSE) >>

SignalAndHealingTables ==
  << Create("test_stability_stats", {}, FALSE), Create("test_quarantine_entries", {}, FALSE),
     Create("test_state_transitions", {}, FALSE), Create("external_signals", {}, FALSE),
     Create("external_signal_correlations", {}, FALSE), Create("healing_patch_submissions", {}, FALSE),
     Create("locator_healings", {}, FALSE), Create("user_team_inheritance_optouts", {}, FALSE) >>

\* Mutant of LateColumns: left to the CREATE TABLE, which older files skip.
NoLateColumns == << Add("incidents", "mcp_healed") >>
LateColumns == << Add("pipeline_runs", "branch"), Add("incidents", "mcp_healed") >>

(* The second is lower(trim(role)), for the values that occur.             *)
MigrateGlobalRoleCodes ==
  << Rewrite([r \in {"operator"} |-> "lead"]),
     Rewrite([r \in {"Operator", "Viewer"} |-> IF r = "Operator" THEN "operator" ELSE "viewer"]),
     Rewrite([r \in {"viewer"} |-> "observer"]) >>

SeedInitialData == << Seed("teams"), Seed("users"), Seed("finops_settings") >>

Script == CoreTables \o SettingsTables \o ColumnMigrations \o RecordTables \o SignalAndHealingTables
            \o LateColumns \o MigrateGlobalRoleCodes \o SeedInitialData

Serving == line = Len(Script) + 1
Has(t) == <<t, "id">> \in columns

-----------------------------------------------------------------------------
SchemaInit ==
  /\ \E f \in Files : columns = f.columns /\ roles = f.roles /\ rows = f.rows
  /\ line = 0 /\ spoilt = FALSE /\ clean = 0 /\ faults = 0 /\ starts = 0

Start ==
  /\ line = 0 /\ starts < MaxStarts
  /\ line' = 1 /\ spoilt' = FALSE /\ starts' = starts + 1
  /\ UNCHANGED <<columns, roles, rows, clean, faults>>

(* CREATE TABLE IF NOT EXISTS: a table that is there keeps its columns.    *)
RunCreate(s) ==
  /\ s.do = "create"
  /\ columns' = IF Has(s.table) THEN columns ELSE columns \cup ({s.table} \X s.cols)
  /\ UNCHANGED <<roles, rows>>

(* addColumnIfNotExists: table_info of a table that is not there is empty, *)
(* and the ALTER TABLE that follows is refused.                            *)
RunAdd(s) ==
  /\ s.do = "add"
  /\ columns' = IF Has(s.table) THEN columns \cup ({s.table} \X s.cols) ELSE columns
  /\ UNCHANGED <<roles, rows>>

RunRewrite(s) ==
  /\ s.do = "rewrite"
  /\ roles' = {IF r \in DOMAIN s.to THEN s.to[r] ELSE r : r \in roles}
  /\ UNCHANGED <<columns, rows>>

(* A default row for a table in which none was counted.                    *)
RunSeed(s, counted) ==
  /\ s.do = "seed"
  /\ rows' = rows \cup {s.table}
  /\ roles' = IF s.table = "users" /\ ~counted THEN roles \cup {"admin"} ELSE roles
  /\ UNCHANGED columns

RunStatement ==
  /\ line \in 1..Len(Script)
  /\ LET s == Script[line] IN
       RunCreate(s) \/ RunAdd(s) \/ RunRewrite(s) \/ RunSeed(s, s.table \in rows)
  /\ line' = line + 1
  /\ clean' = IF line' <= Len(Script) THEN clean ELSE IF spoilt THEN 0 ELSE clean + 1
  /\ UNCHANGED <<spoilt, faults, starts>>

(* A statement fails: the file is locked, the disk is full.  log.Fatalf    *)
(* for the tables of InitDB, a warning for the rest.  A count that fails   *)
(* is read as zero: the default row is refused if it is there still, and   *)
(* stored a second time if it had been removed.                            *)
FailStatement ==
  /\ line \in 1..Len(Script) /\ faults < MaxFaults
  /\ LET s == Script[line] IN
       /\ line' = IF s.fatal THEN 0 ELSE line + 1
       /\ UNCHANGED <<columns, roles, rows>> \/ RunSeed(s, FALSE)
  /\ spoilt' = TRUE /\ clean' = 0 /\ faults' = faults + 1
  /\ UNCHANGED starts

Die ==
  /\ line # 0
  /\ line' = 0
  /\ UNCHANGED <<columns, roles, rows, spoilt, clean, faults, starts>>

-----------------------------------------------------------------------------
(* What the statements of the other parts name.  incidents.framework,      *)
(* which locator_healing.go:391 and healing_handlers.go:65 name as well,   *)
(* is left out: no statement of the script adds it.                        *)
NamedColumns ==
  ({"users", "teams", "user_teams", "projects", "incidents", "pipeline_runs", "incident_artifacts",
    "external_signals", "external_signal_correlations", "healing_patch_submissions",
    "locator_healings", "user_team_inheritance_optouts", "test_execution_metrics",
    "ai_provider_config", "finops_settings", "user_preferences", "saved_charts"} \X {"id"})
    \cup ({"pipeline_runs"} \X RunColumns)
    \cup ({"incidents"} \X {"pipeline_run_id", "browser", "os", "viewport", "execution_time_ms",
                            "jira_issue_key", "rca_status", "has_rca", "mcp_healed"})
    \cup ({"projects"} \X {"sre_routing_json", "sre_workflow_json"})
    \cup {<<"user_teams", "inherited_from">>}

(* Whatever file a start found, and wherever earlier starts were cut short *)
(* or had statements fail that only warn, one start in which none failed   *)
(* makes every column there that a statement of the server names, with a   *)
(* row in every seeded table; and a second one leaves no legacy role.  Of  *)
(* the columns, incidents.framework is the exception: two statements name  *)
(* it (see NamedColumns), and no start makes it.                           *)
CleanStartRepairs ==
  /\ clean >= 1 => NamedColumns \subseteq columns /\ rows = {"teams", "users", "finops_settings"}
  /\ clean >= 2 => roles \cap {"operator", "viewer", "Operator", "Viewer"} = {}
=============================================================================
