---------------------------- MODULE Records_proofs ----------------------------
(* A clean start repairs the file that it finds, whatever file it is and    *)
(* however many starts, faults and deaths came before; and what is listed   *)
(* for an incident belongs to it, for any number of uploads, posts and      *)
(* connections, through any deletions, failures and restarts.               *)
EXTENDS Records, TLAPS

-----------------------------------------------------------------------------
(* The script, statement by statement.                                      *)
LEMMA ScriptLength == Len(Script) = 52
  BY DEF Script, CoreTables, SettingsTables, ColumnMigrations, RecordTables, SignalAndHealingTables,
     LateColumns, MigrateGlobalRoleCodes, SeedInitialData, Create

(* InitDB and its settings; later, the tables of the other parts.           *)
LEMMA Creates ==
  /\ \A k \in 1..9 : Script[k].do = "create"
  /\ \A k \in 31..44 : Script[k].do = "create"
  /\ \A k \in 31..44 : k = 36 \/ Script[k].table \notin {"user_teams", "incidents", "projects", "pipeline_runs"}
  /\ Script[36].table = "pipeline_runs" /\ RunColumns \subseteq Script[36].cols
<1>1. \A k \in 1..9 : Script[k].do = "create"
  BY DEF Script, CoreTables, SettingsTables, ColumnMigrations, RecordTables, SignalAndHealingTables,
     LateColumns, MigrateGlobalRoleCodes, SeedInitialData, Create
<1>2. \A k \in 31..44 : Script[k].do = "create"
  BY DEF Script, CoreTables, SettingsTables, ColumnMigrations, RecordTables, SignalAndHealingTables,
     LateColumns, MigrateGlobalRoleCodes, SeedInitialData, Create
<1>3. \A k \in 31..44 : k = 36 \/ Script[k].table \notin {"user_teams", "incidents", "projects", "pipeline_runs"}
  BY DEF Script, CoreTables, SettingsTables, ColumnMigrations, RecordTables, SignalAndHealingTables,
     LateColumns, MigrateGlobalRoleCodes, SeedInitialData, Create
<1>4. Script[36].table = "pipeline_runs" /\ RunColumns \subseteq Script[36].cols
  BY DEF Script, CoreTables, SettingsTables, ColumnMigrations, RecordTables, SignalAndHealingTables,
     LateColumns, MigrateGlobalRoleCodes, SeedInitialData, Create
<1> QED
  BY <1>1, <1>2, <1>3, <1>4

LEMMA EveryCreate ==
  \A k \in 1..9 \cup 31..44 : "id" \in Script[k].cols
<1>1. \A k \in 1..9 : "id" \in Script[k].cols
  BY DEF Script, CoreTables, SettingsTables, ColumnMigrations, RecordTables, SignalAndHealingTables,
     LateColumns, MigrateGlobalRoleCodes, SeedInitialData, Create
<1>2. \A k \in 31..44 : "id" \in Script[k].cols
  BY DEF Script, CoreTables, SettingsTables, ColumnMigrations, RecordTables, SignalAndHealingTables,
     LateColumns, MigrateGlobalRoleCodes, SeedInitialData, Create
<1> QED
  BY <1>1, <1>2

LEMMA MigrationLines ==
  /\ Script[10] = ColumnMigrations[1] /\ Script[11] = ColumnMigrations[2]
  /\ Script[12] = ColumnMigrations[3] /\ Script[13] = ColumnMigrations[4]
  /\ Script[14] = ColumnMigrations[5] /\ Script[15] = ColumnMigrations[6]
  /\ Script[16] = ColumnMigrations[7] /\ Script[17] = ColumnMigrations[8]
  /\ Script[18] = ColumnMigrations[9] /\ Script[19] = ColumnMigrations[10]
  /\ Script[20] = ColumnMigrations[11] /\ Script[21] = ColumnMigrations[12]
  /\ Script[22] = ColumnMigrations[13] /\ Script[23] = ColumnMigrations[14]
  /\ Script[24] = ColumnMigrations[15] /\ Script[25] = ColumnMigrations[16]
  /\ Script[26] = ColumnMigrations[17] /\ Script[27] = ColumnMigrations[18]
  /\ Script[28] = ColumnMigrations[19] /\ Script[29] = ColumnMigrations[20]
  /\ Script[30] = ColumnMigrations[21]
  BY DEF Script, CoreTables, SettingsTables, ColumnMigrations, RecordTables, SignalAndHealingTables,
     LateColumns, MigrateGlobalRoleCodes, SeedInitialData, Create

LEMMA Adds ==
  /\ \A k \in 10..30 : /\ Script[k].do = "add"
                       /\ Script[k].table \in {"user_teams", "incidents", "projects", "pipeline_runs"}
                       /\ Script[k].table = "pipeline_runs" => Script[k].cols \subseteq RunColumns
  /\ Script[45] = Add("pipeline_runs", "branch") /\ Script[46] = Add("incidents", "mcp_healed")
<1>1. \A k \in 1..21 : /\ ColumnMigrations[k].do = "add"
                       /\ ColumnMigrations[k].table \in {"user_teams", "incidents", "projects", "pipeline_runs"}
  BY DEF ColumnMigrations, Add
<1>2. \A k \in 1..21 : ColumnMigrations[k].table = "pipeline_runs" => ColumnMigrations[k].cols \subseteq RunColumns
  BY DEF ColumnMigrations, Add, RunColumns
<1>3. ASSUME NEW k \in 10..30 PROVE k - 9 \in 1..21 /\ Script[k] = ColumnMigrations[k - 9]
  BY MigrationLines
<1>4. Script[45] = Add("pipeline_runs", "branch") /\ Script[46] = Add("incidents", "mcp_healed")
  BY DEF Script, CoreTables, SettingsTables, ColumnMigrations, RecordTables, SignalAndHealingTables,
     LateColumns, MigrateGlobalRoleCodes, SeedInitialData, Create
<1>5. ASSUME NEW k \in 10..30
      PROVE  /\ Script[k].do = "add"
             /\ Script[k].table \in {"user_teams", "incidents", "projects", "pipeline_runs"}
             /\ Script[k].table = "pipeline_runs" => Script[k].cols \subseteq RunColumns
  BY <1>1, <1>2, <1>3
<1> QED
  BY <1>4, <1>5

LEMMA Rewrites ==
  /\ Script[47] = Rewrite([r \in {"operator"} |-> "lead"])
  /\ Script[48] = Rewrite([r \in {"Operator", "Viewer"} |-> IF r = "Operator" THEN "operator" ELSE "viewer"])
  /\ Script[49] = Rewrite([r \in {"viewer"} |-> "observer"])
<1>1. Script[47] = Rewrite([r \in {"operator"} |-> "lead"])
  BY DEF Script, CoreTables, SettingsTables, ColumnMigrations, RecordTables, SignalAndHealingTables,
     LateColumns, MigrateGlobalRoleCodes, SeedInitialData, Create
<1>2. Script[48] = Rewrite([r \in {"Operator", "Viewer"} |-> IF r = "Operator" THEN "operator" ELSE "viewer"])
  BY DEF Script, CoreTables, SettingsTables, ColumnMigrations, RecordTables, SignalAndHealingTables,
     LateColumns, MigrateGlobalRoleCodes, SeedInitialData, Create
<1>3. Script[49] = Rewrite([r \in {"viewer"} |-> "observer"])
  BY DEF Script, CoreTables, SettingsTables, ColumnMigrations, RecordTables, SignalAndHealingTables,
     LateColumns, MigrateGlobalRoleCodes, SeedInitialData, Create
<1> QED
  BY <1>1, <1>2, <1>3

LEMMA Seeds ==
  Script[50] = Seed("teams") /\ Script[51] = Seed("users") /\ Script[52] = Seed("finops_settings")
  BY DEF Script, CoreTables, SettingsTables, ColumnMigrations, RecordTables, SignalAndHealingTables,
     LateColumns, MigrateGlobalRoleCodes, SeedInitialData, Create

LEMMA Kinds ==
  ASSUME NEW k \in 1..52
  PROVE  /\ Script[k].do = "create" <=> k \in 1..9 \cup 31..44
         /\ Script[k].do = "add" <=> k \in (10..30) \cup {45, 46}
         /\ Script[k].do = "rewrite" <=> k \in 47..49
         /\ Script[k].do = "seed" <=> k \in 50..52
<1>1. k \in 1..9 \/ k \in 10..30 \/ k \in 31..44 \/ k \in {45, 46} \/ k \in 47..49 \/ k \in 50..52
  OBVIOUS
<1>2. k \in 47..49 => Script[k].do = "rewrite"
  BY Rewrites DEF Rewrite
<1>3. k \in 50..52 => Script[k].do = "seed"
  BY Seeds DEF Seed
<1>4. k \in (10..30) \cup {45, 46} => Script[k].do = "add"
  BY Adds DEF Add
<1> QED
  BY <1>1, <1>2, <1>3, <1>4, Creates

-----------------------------------------------------------------------------
(* What a statement that has run leaves behind.  An addition is refused     *)
(* while the table is missing; what creates it later has the column.        *)
Effect(k) ==
  LET s == Script[k] IN
    /\ s.do = "create" => Has(s.table)
    /\ s.do = "add" /\ Has(s.table) => {s.table} \X s.cols \subseteq columns
    /\ s.do = "seed" => s.table \in rows

Ran(n) == \A k \in 1..n - 1 : Effect(k)

LEMMA CreateEffect ==
  ASSUME NEW j \in 1..52, NEW k \in 1..j, k < j => Effect(k), RunCreate(Script[j])
  PROVE  Effect(k)'
<1> DEFINE t == Script[j].table
<1>1. /\ Script[j].do = "create" /\ rows' = rows
      /\ columns' = IF Has(t) THEN columns ELSE columns \cup ({t} \X Script[j].cols)
  BY DEF RunCreate
<1>2. j \in 1..9 \/ j \in 31..44
  BY <1>1, Kinds
<1>3. "id" \in Script[j].cols
  BY <1>2, EveryCreate
<1>4. /\ \A c \in columns : c \in columns'
      /\ \A x : Has(x)' => Has(x) \/ x = t
      /\ Has(t)'
      /\ ~Has(t) => {t} \X Script[j].cols \subseteq columns'
  BY <1>1, <1>3 DEF Has
<1>5. CASE k = j
  BY <1>1, <1>4, <1>5 DEF Effect
<1>6. CASE k < j
  <2>1. Effect(k)
    BY <1>6
  <2>2. Script[k].do = "create" => Has(Script[k].table)'
    BY <1>4, <2>1 DEF Effect, Has
  <2>3. Script[k].do = "seed" => Script[k].table \in rows'
    BY <1>1, <2>1 DEF Effect
  <2>4. ASSUME Script[k].do = "add", Has(Script[k].table)'
        PROVE  {Script[k].table} \X Script[k].cols \subseteq columns'
    <3>1. CASE Has(Script[k].table)
      BY <1>4, <2>1, <2>4, <3>1 DEF Effect
    <3>2. CASE ~Has(Script[k].table)
      <4>1. Script[k].table = t /\ ~Has(t)
        BY <1>4, <2>4, <3>2
      <4>2. k \in 10..30 /\ j \in 31..44
        BY <1>2, <1>6, <2>4, Kinds
      <4>3. t = "pipeline_runs" /\ Script[k].cols \subseteq Script[j].cols
        BY <4>1, <4>2, Adds, Creates
      <4> QED
        BY <1>4, <4>1, <4>3
    <3> QED
      BY <3>1, <3>2
  <2> QED
    BY <2>2, <2>3, <2>4 DEF Effect
<1> QED
  BY <1>5, <1>6

LEMMA AddEffect ==
  ASSUME NEW j \in 1..52, NEW k \in 1..j, k < j => Effect(k), RunAdd(Script[j])
  PROVE  Effect(k)'
<1> DEFINE t == Script[j].table
<1>1. /\ Script[j].do = "add" /\ rows' = rows
      /\ columns' = IF Has(t) THEN columns \cup ({t} \X Script[j].cols) ELSE columns
  BY DEF RunAdd
<1>2. /\ \A c \in columns : c \in columns'
      /\ \A x : Has(x)' => Has(x)
      /\ Has(t) => {t} \X Script[j].cols \subseteq columns'
  BY <1>1 DEF Has
<1>3. CASE k = j
  BY <1>1, <1>2, <1>3 DEF Effect
<1>4. CASE k < j
  <2>1. Effect(k)
    BY <1>4
  <2>2. Script[k].do = "create" => Has(Script[k].table)'
    BY <1>2, <2>1 DEF Effect, Has
  <2>3. Script[k].do = "seed" => Script[k].table \in rows'
    BY <1>1, <2>1 DEF Effect
  <2>4. Script[k].do = "add" /\ Has(Script[k].table)'
          => {Script[k].table} \X Script[k].cols \subseteq columns'
    BY <1>2, <2>1 DEF Effect
  <2> QED
    BY <2>2, <2>3, <2>4 DEF Effect
<1> QED
  BY <1>3, <1>4

LEMMA RanStep ==
  ASSUME line \in 1..52, Ran(line), RunStatement
  PROVE  Ran(line)' /\ columns \subseteq columns' /\ rows \subseteq rows'
<1>1. PICK j : j = line
  OBVIOUS
<1>2. line' = j + 1 /\ j \in 1..52
  BY <1>1 DEF RunStatement
<1>3. ASSUME NEW k \in 1..j PROVE k < j => Effect(k)
  BY <1>1, <1>3 DEF Ran
<1>4. PICK c : \/ RunCreate(Script[j]) \/ RunAdd(Script[j]) \/ RunRewrite(Script[j])
               \/ RunSeed(Script[j], c)
  BY <1>1 DEF RunStatement
<1>5. /\ columns \subseteq columns' /\ rows \subseteq rows'
      /\ \A k \in 1..j : Effect(k)'
  <2>1. CASE RunCreate(Script[j])
    <3>1. columns \subseteq columns' /\ rows \subseteq rows'
      BY <2>1 DEF RunCreate
    <3> QED
      BY <1>2, <1>3, <2>1, <3>1, CreateEffect
  <2>2. CASE RunAdd(Script[j])
    <3>1. columns \subseteq columns' /\ rows \subseteq rows'
      BY <2>2 DEF RunAdd
    <3> QED
      BY <1>2, <1>3, <2>2, <3>1, AddEffect
  <2>3. CASE RunRewrite(Script[j])
    <3>1. columns' = columns /\ rows' = rows /\ Script[j].do = "rewrite"
      BY <2>3 DEF RunRewrite
    <3>2. \A k \in 1..j : Effect(k)'
      BY <1>2, <1>3, <3>1 DEF Effect, Has
    <3> QED
      BY <3>1, <3>2
  <2>4. CASE RunSeed(Script[j], c)
    <3>1. columns' = columns /\ rows' = rows \cup {Script[j].table} /\ Script[j].do = "seed"
      BY <2>4 DEF RunSeed
    <3>2. \A k \in 1..j : Effect(k)'
      BY <1>2, <1>3, <3>1 DEF Effect, Has
    <3> QED
      BY <3>1, <3>2
  <2> QED
    BY <1>4, <2>1, <2>2, <2>3, <2>4
<1> QED
  BY <1>2, <1>5 DEF Ran

Seeded == {"teams", "users", "finops_settings"}

LEMMA TablesThere ==
  ASSUME Ran(53)
  PROVE  /\ \A k \in 1..9 \cup 31..44 : Has(Script[k].table)
         /\ \A k \in (10..30) \cup {45, 46} :
              Has(Script[k].table) => {Script[k].table} \X Script[k].cols \subseteq columns
         /\ \A k \in 50..52 : Script[k].table \in rows
<1>1. \A k \in 1..52 : Effect(k)
  BY DEF Ran
<1>2. ASSUME NEW k \in 1..9 \cup 31..44 PROVE Has(Script[k].table)
  BY <1>1, Kinds DEF Effect
<1>3. ASSUME NEW k \in (10..30) \cup {45, 46}, Has(Script[k].table)
      PROVE  {Script[k].table} \X Script[k].cols \subseteq columns
  BY <1>1, <1>3, Kinds DEF Effect
<1>4. ASSUME NEW k \in 50..52 PROVE Script[k].table \in rows
  BY <1>1, Kinds DEF Effect
<1> QED
  BY <1>2, <1>3, <1>4

LEMMA NamedTables ==
  ASSUME Ran(53)
  PROVE  {"users", "teams", "user_teams", "projects", "incidents", "pipeline_runs", "incident_artifacts",
          "external_signals", "external_signal_correlations", "healing_patch_submissions",
          "locator_healings", "user_team_inheritance_optouts", "test_execution_metrics",
          "ai_provider_config", "finops_settings", "user_preferences", "saved_charts"} \X {"id"}
           \subseteq columns
<1>1. /\ Script[1].table = "users" /\ Script[2].table = "teams" /\ Script[3].table = "user_teams"
      /\ Script[4].table = "projects" /\ Script[5].table = "incidents"
  BY DEF Script, CoreTables, SettingsTables, ColumnMigrations, RecordTables, SignalAndHealingTables,
       LateColumns, MigrateGlobalRoleCodes, SeedInitialData, Create
<1>2. /\ Script[6].table = "finops_settings" /\ Script[7].table = "user_preferences"
      /\ Script[8].table = "saved_charts"
  BY DEF Script, CoreTables, SettingsTables, ColumnMigrations, RecordTables, SignalAndHealingTables,
       LateColumns, MigrateGlobalRoleCodes, SeedInitialData, Create
<1>3. /\ Script[31].table = "incident_artifacts" /\ Script[32].table = "test_execution_metrics"
      /\ Script[33].table = "ai_provider_config" /\ Script[36].table = "pipeline_runs"
  BY DEF Script, CoreTables, SettingsTables, ColumnMigrations, RecordTables, SignalAndHealingTables,
       LateColumns, MigrateGlobalRoleCodes, SeedInitialData, Create
<1>4. /\ Script[40].table = "external_signals" /\ Script[41].table = "external_signal_correlations"
      /\ Script[42].table = "healing_patch_submissions" /\ Script[43].table = "locator_healings"
      /\ Script[44].table = "user_team_inheritance_optouts"
  BY DEF Script, CoreTables, SettingsTables, ColumnMigrations, RecordTables, SignalAndHealingTables,
       LateColumns, MigrateGlobalRoleCodes, SeedInitialData, Create
<1>5. \A k \in 1..9 \cup 31..44 : Has(Script[k].table)
  BY TablesThere
<1>6. Has("users") /\ Has("teams") /\ Has("user_teams") /\ Has("projects") /\ Has("incidents")
  BY <1>1, <1>5
<1>7. Has("finops_settings") /\ Has("user_preferences") /\ Has("saved_charts")
  BY <1>2, <1>5
<1>8. /\ Has("incident_artifacts") /\ Has("test_execution_metrics") /\ Has("ai_provider_config")
      /\ Has("pipeline_runs")
  BY <1>3, <1>5
<1>9. /\ Has("external_signals") /\ Has("external_signal_correlations")
      /\ Has("healing_patch_submissions") /\ Has("locator_healings")
      /\ Has("user_team_inheritance_optouts")
  BY <1>4, <1>5
<1> QED
  BY <1>6, <1>7, <1>8, <1>9 DEF Has

LEMMA AddedColumns ==
  ASSUME Ran(53)
  PROVE  /\ <<"user_teams", "inherited_from">> \in columns
         /\ {"projects"} \X {"sre_routing_json", "sre_workflow_json"} \subseteq columns
         /\ {"incidents"} \X {"pipeline_run_id", "browser", "os", "viewport", "execution_time_ms",
                              "jira_issue_key", "rca_status", "has_rca", "mcp_healed"} \subseteq columns
         /\ {"pipeline_runs"} \X RunColumns \subseteq columns
<1>1. Has("user_teams") /\ Has("projects") /\ Has("incidents") /\ Has("pipeline_runs")
  BY NamedTables DEF Has
<1>2. ASSUME NEW t, NEW c, NEW k \in (10..30) \cup {45, 46}, Script[k] = Add(t, c), Has(t)
      PROVE  <<t, c>> \in columns
  <2>1. Script[k].table = t /\ Script[k].cols = {c}
    BY <1>2 DEF Add
  <2>2. {t} \X {c} \subseteq columns
    BY <1>2, <2>1, TablesThere
  <2> QED
    BY <2>2
<1>3. ASSUME NEW t, NEW c, NEW i \in 1..21, ColumnMigrations[i] = Add(t, c), Has(t)
      PROVE  <<t, c>> \in columns
  <2>1. 9 + i \in 10..30 /\ Script[9 + i] = ColumnMigrations[i]
    BY MigrationLines
  <2> QED
    BY <1>2, <1>3, <2>1
<1>4. <<"user_teams", "inherited_from">> \in columns
  <2>1. ColumnMigrations[1] = Add("user_teams", "inherited_from")
    BY DEF ColumnMigrations
  <2> QED
    BY <1>1, <1>3, <2>1
<1>5. <<"projects", "sre_routing_json">> \in columns /\ <<"projects", "sre_workflow_json">> \in columns
  <2>1. /\ ColumnMigrations[8] = Add("projects", "sre_routing_json")
        /\ ColumnMigrations[9] = Add("projects", "sre_workflow_json")
    BY DEF ColumnMigrations
  <2> QED
    BY <1>1, <1>3, <2>1
<1>6. \A c \in {"pipeline_run_id", "browser", "os", "viewport", "execution_time_ms",
                "jira_issue_key", "rca_status", "has_rca"} : <<"incidents", c>> \in columns
  <2>1. /\ ColumnMigrations[2] = Add("incidents", "pipeline_run_id")
        /\ ColumnMigrations[3] = Add("incidents", "browser")
        /\ ColumnMigrations[4] = Add("incidents", "os")
        /\ ColumnMigrations[5] = Add("incidents", "viewport")
        /\ ColumnMigrations[6] = Add("incidents", "execution_time_ms")
        /\ ColumnMigrations[7] = Add("incidents", "jira_issue_key")
        /\ ColumnMigrations[10] = Add("incidents", "rca_status")
        /\ ColumnMigrations[11] = Add("incidents", "has_rca")
    BY DEF ColumnMigrations
  <2> QED
    BY <1>1, <1>3, <2>1
<1>7. \A c \in {"outcome", "finished_at", "execution_env", "execution_type", "total_tests",
                "passed_tests", "failed_tests", "skipped_tests", "duration_ms", "report_json"} :
        <<"pipeline_runs", c>> \in columns
  <2>1. /\ ColumnMigrations[12] = Add("pipeline_runs", "outcome")
        /\ ColumnMigrations[13] = Add("pipeline_runs", "finished_at")
        /\ ColumnMigrations[14] = Add("pipeline_runs", "execution_env")
        /\ ColumnMigrations[15] = Add("pipeline_runs", "execution_type")
        /\ ColumnMigrations[16] = Add("pipeline_runs", "total_tests")
        /\ ColumnMigrations[17] = Add("pipeline_runs", "passed_tests")
        /\ ColumnMigrations[18] = Add("pipeline_runs", "failed_tests")
        /\ ColumnMigrations[19] = Add("pipeline_runs", "skipped_tests")
        /\ ColumnMigrations[20] = Add("pipeline_runs", "duration_ms")
        /\ ColumnMigrations[21] = Add("pipeline_runs", "report_json")
    BY DEF ColumnMigrations
  <2> QED
    BY <1>1, <1>3, <2>1
<1>8. <<"pipeline_runs", "branch">> \in columns /\ <<"incidents", "mcp_healed">> \in columns
  BY <1>1, <1>2, Adds
<1> QED
  BY <1>4, <1>5, <1>6, <1>7, <1>8 DEF RunColumns

LEMMA AllNamed ==
  ASSUME Ran(53), rows \subseteq Seeded
  PROVE  NamedColumns \subseteq columns /\ rows = Seeded
<1>1. NamedColumns \subseteq columns
  BY NamedTables, AddedColumns DEF NamedColumns
<1>2. /\ Script[50].table = "teams" /\ Script[51].table = "users"
      /\ Script[52].table = "finops_settings"
  BY Seeds DEF Seed
<1>3. "teams" \in rows /\ "users" \in rows /\ "finops_settings" \in rows
  BY <1>2, TablesThere
<1> QED
  BY <1>1, <1>3 DEF Seeded

-----------------------------------------------------------------------------
(* What the three rewrites do to the roles, one after the other: the second *)
(* can bring back what the first has removed, from its other spelling.      *)
LEMMA RolesStep ==
  ASSUME line \in 1..52, RunStatement
  PROVE  /\ line \notin 47..49 => roles' \subseteq roles \cup {"admin"}
         /\ line = 47 => "operator" \notin roles' /\ roles' \subseteq roles \cup {"lead"}
         /\ line = 48 => /\ "Operator" \notin roles' /\ "Viewer" \notin roles'
                         /\ "operator" \in roles' => "operator" \in roles \/ "Operator" \in roles
                         /\ "viewer" \in roles' => "viewer" \in roles \/ "Viewer" \in roles
         /\ line = 49 => "viewer" \notin roles' /\ roles' \subseteq roles \cup {"observer"}
<1>1. PICK c : \/ RunCreate(Script[line]) \/ RunAdd(Script[line]) \/ RunRewrite(Script[line])
               \/ RunSeed(Script[line], c)
  BY DEF RunStatement
<1>2. CASE line \notin 47..49
  <2>1. Script[line].do # "rewrite"
    BY <1>2, Kinds
  <2>2. roles' \subseteq roles \cup {"admin"}
    BY <1>1, <2>1 DEF RunCreate, RunAdd, RunRewrite, RunSeed
  <2> QED
    BY <1>2, <2>2
<1>3. CASE line \in 47..49
  <2>1. Script[line].do = "rewrite"
    BY <1>3, Kinds
  <2> DEFINE to == Script[line].to
  <2>2. roles' = {IF r \in DOMAIN to THEN to[r] ELSE r : r \in roles}
    BY <1>1, <2>1 DEF RunCreate, RunAdd, RunRewrite, RunSeed
  <2>3. CASE line = 47
    <3>1. to = [r \in {"operator"} |-> "lead"]
      BY <2>3, Rewrites DEF Rewrite
    <3>2. roles' = {IF r = "operator" THEN "lead" ELSE r : r \in roles}
      BY <2>2, <3>1
    <3> QED
      BY <2>3, <3>2
  <2>4. CASE line = 48
    <3>1. to = [r \in {"Operator", "Viewer"} |-> IF r = "Operator" THEN "operator" ELSE "viewer"]
      BY <2>4, Rewrites DEF Rewrite
    <3>2. roles' = {IF r = "Operator" THEN "operator" ELSE IF r = "Viewer" THEN "viewer" ELSE r : r \in roles}
      BY <2>2, <3>1
    <3> QED
      BY <2>4, <3>2
  <2>5. CASE line = 49
    <3>1. to = [r \in {"viewer"} |-> "observer"]
      BY <2>5, Rewrites DEF Rewrite
    <3>2. roles' = {IF r = "viewer" THEN "observer" ELSE r : r \in roles}
      BY <2>2, <3>1
    <3> QED
      BY <2>5, <3>2
  <2> QED
    BY <1>3, <2>3, <2>4, <2>5
<1> QED
  BY <1>2, <1>3

(* The start so far, while no statement of it has failed; what the clean    *)
(* starts before it have left; and what is left of a legacy role in the     *)
(* second of them.                                                          *)
SoFar ==
  line # 0 /\ ~spoilt =>
    /\ Ran(line)
    /\ line > 48 => "Operator" \notin roles /\ "Viewer" \notin roles
    /\ line > 49 => "viewer" \notin roles

Repaired ==
  clean >= 1 => /\ NamedColumns \subseteq columns /\ rows = Seeded
                /\ {"viewer", "Operator", "Viewer"} \cap roles = {}

NoOperator ==
  clean >= 2 \/ (clean >= 1 /\ ~spoilt /\ line \in 48..52) => "operator" \notin roles

Repairing ==
  /\ line \in 0..53 /\ clean \in Nat /\ spoilt \in BOOLEAN /\ rows \subseteq Seeded
  /\ SoFar /\ Repaired /\ NoOperator

LEMMA RunRepairs ==
  ASSUME Repairing, RunStatement
  PROVE  Repairing'
<1>1. /\ line \in 1..52 /\ line' = line + 1 /\ spoilt' = spoilt
      /\ clean' = IF line' <= 52 THEN clean ELSE IF spoilt THEN 0 ELSE clean + 1
  BY ScriptLength DEF RunStatement
<1>2. /\ clean \in Nat /\ spoilt \in BOOLEAN /\ rows \subseteq Seeded
      /\ SoFar /\ Repaired /\ NoOperator
  BY DEF Repairing
<1>3. columns \subseteq columns' /\ rows \subseteq rows' /\ rows' \subseteq Seeded
  <2>1. PICK c : \/ RunCreate(Script[line]) \/ RunAdd(Script[line]) \/ RunRewrite(Script[line])
                 \/ RunSeed(Script[line], c)
    BY DEF RunStatement
  <2>2. columns \subseteq columns' /\ rows \subseteq rows' /\ rows' \subseteq rows \cup {Script[line].table}
    BY <2>1 DEF RunCreate, RunAdd, RunRewrite, RunSeed
  <2>3. rows' = rows \/ Script[line].do = "seed"
    BY <2>1 DEF RunCreate, RunAdd, RunRewrite, RunSeed
  <2>4. Script[line].do = "seed" => Script[line].table \in Seeded
    BY <1>1, Kinds, Seeds DEF Seed, Seeded
  <2> QED
    BY <1>2, <2>2, <2>3, <2>4
<1>4. line' \in 0..53 /\ clean' \in Nat /\ spoilt' \in BOOLEAN
  BY <1>1, <1>2
<1>5. SoFar'
  <2>1. SUFFICES ASSUME ~spoilt
                 PROVE  /\ Ran(line)'
                        /\ line' > 48 => "Operator" \notin roles' /\ "Viewer" \notin roles'
                        /\ line' > 49 => "viewer" \notin roles'
    BY <1>1 DEF SoFar
  <2>2. /\ Ran(line)
        /\ line > 48 => "Operator" \notin roles /\ "Viewer" \notin roles
        /\ line > 49 => "viewer" \notin roles
    BY <1>1, <1>2, <2>1 DEF SoFar
  <2>3. Ran(line)'
    BY <1>1, <2>2, RanStep
  <2>4. line' > 48 => "Operator" \notin roles' /\ "Viewer" \notin roles'
    BY <1>1, <2>2, RolesStep
  <2>5. line' > 49 => "viewer" \notin roles'
    BY <1>1, <2>2, RolesStep
  <2> QED
    BY <2>3, <2>4, <2>5
<1>6. Repaired'
  <2>1. SUFFICES ASSUME clean' >= 1
                 PROVE  /\ NamedColumns \subseteq columns' /\ rows' = Seeded
                        /\ {"viewer", "Operator", "Viewer"} \cap roles' = {}
    BY DEF Repaired, NamedColumns, RunColumns
  <2>2. CASE clean >= 1
    <3>1. /\ NamedColumns \subseteq columns /\ rows = Seeded
          /\ {"viewer", "Operator", "Viewer"} \cap roles = {}
      BY <1>2, <2>2 DEF Repaired
    <3>2. {"viewer", "Operator", "Viewer"} \cap roles' = {}
      BY <1>1, <3>1, RolesStep
    <3> QED
      BY <1>3, <3>1, <3>2
  <2>3. CASE ~(clean >= 1)
    <3>1. line' = 53 /\ ~spoilt
      BY <1>1, <1>2, <2>1, <2>3
    <3>2. /\ Ran(line)'
          /\ "Operator" \notin roles' /\ "Viewer" \notin roles' /\ "viewer" \notin roles'
      BY <1>1, <1>5, <3>1 DEF SoFar
    <3>3. Ran(53)'
      BY <3>1, <3>2 DEF Ran
    <3>4. NamedColumns' \subseteq columns' /\ rows' = Seeded
      <4>1. (Ran(53) /\ rows \subseteq Seeded => NamedColumns \subseteq columns /\ rows = Seeded)'
        BY AllNamed, PTL
      <4> QED
        BY <1>3, <3>3, <4>1 DEF Seeded
    <3> QED
      BY <3>2, <3>4 DEF NamedColumns, RunColumns
  <2> QED
    BY <2>2, <2>3
<1>7. NoOperator'
  <2>1. SUFFICES ASSUME clean' >= 2 \/ (clean' >= 1 /\ ~spoilt /\ line' \in 48..52)
                 PROVE  "operator" \notin roles'
    BY <1>1 DEF NoOperator
  <2>2. clean >= 1
    BY <1>1, <1>2, <2>1
  <2>3. "Operator" \notin roles
    BY <1>2, <2>2 DEF Repaired
  <2>4. line = 47 \/ "operator" \notin roles
    <3>1. CASE clean >= 2
      BY <1>2, <3>1 DEF NoOperator
    <3>2. CASE ~(clean >= 2)
      <4>1. ~spoilt /\ line \in 47..52
        BY <1>1, <1>2, <2>1, <2>2, <3>2
      <4> QED
        BY <1>2, <2>2, <4>1 DEF NoOperator
    <3> QED
      BY <3>1, <3>2
  <2> QED
    BY <1>1, <2>3, <2>4, RolesStep
<1> QED
  BY <1>3, <1>4, <1>5, <1>6, <1>7 DEF Repairing, Seeded

LEMMA StartRepairs ==
  ASSUME Repairing, Start
  PROVE  Repairing'
<1>1. line' = 1 /\ spoilt' = FALSE /\ UNCHANGED <<columns, roles, rows, clean>>
  BY DEF Start
<1>2. clean \in Nat /\ rows \subseteq Seeded /\ Repaired /\ NoOperator
  BY DEF Repairing
<1>3. SoFar'
  BY <1>1 DEF SoFar, Ran
<1>4. Repaired'
  BY <1>1, <1>2 DEF Repaired, NamedColumns, RunColumns, Seeded
<1>5. NoOperator'
  BY <1>1, <1>2 DEF NoOperator
<1>6. line' \in 0..53 /\ clean' \in Nat /\ rows' \subseteq Seeded
  BY <1>1, <1>2
<1>7. spoilt' \in BOOLEAN
  BY <1>1
<1> QED
  BY <1>3, <1>4, <1>5, <1>6, <1>7 DEF Repairing, Seeded

LEMMA FailRepairs ==
  ASSUME Repairing, FailStatement
  PROVE  Repairing'
<1>1. line \in 1..52 /\ line' \in 0..53 /\ spoilt' = TRUE /\ clean' = 0
  BY ScriptLength DEF FailStatement
<1>2. SoFar' /\ Repaired' /\ NoOperator'
  BY <1>1 DEF SoFar, Repaired, NoOperator
<1>3. rows' \subseteq Seeded
  <2>1. UNCHANGED rows \/ RunSeed(Script[line], FALSE)
    BY DEF FailStatement
  <2>2. Script[line].do = "seed" => Script[line].table \in Seeded
    BY <1>1, Kinds, Seeds DEF Seed, Seeded
  <2> QED
    BY <2>1, <2>2 DEF Repairing, RunSeed
<1> QED
  BY <1>1, <1>2, <1>3 DEF Repairing, Seeded

LEMMA DieRepairs ==
  ASSUME Repairing, Die
  PROVE  Repairing'
<1>1. line' = 0 /\ UNCHANGED <<columns, roles, rows, spoilt, clean>>
  BY DEF Die
<1>2. SoFar' /\ Repaired' /\ NoOperator'
  BY <1>1 DEF Repairing, SoFar, Repaired, NoOperator, NamedColumns, RunColumns, Seeded
<1> QED
  BY <1>1, <1>2 DEF Repairing, Seeded

LEMMA OthersRepair ==
  ASSUME Repairing, UNCHANGED <<columns, roles, rows, line, spoilt, clean>>
  PROVE  Repairing'
<1>1. SoFar'
  BY DEF Repairing, SoFar, Ran, Effect, Has
<1>2. Repaired' /\ NoOperator'
  BY DEF Repairing, Repaired, NoOperator, NamedColumns, RunColumns, Seeded
<1> QED
  BY <1>1, <1>2 DEF Repairing, Seeded

(* What each action of the requests leaves alone.                           *)
LEMMA SchemaKept ==
  ASSUME [Next]_vars, ~StartUp, ~Crash
  PROVE  UNCHANGED <<columns, roles, rows, line, spoilt, clean>>
<1>1. UNCHANGED vars \/ UNCHANGED schemaVars => UNCHANGED <<columns, roles, rows, line, spoilt, clean>>
  BY DEF vars, schemaVars
<1>2. ASSUME NEW u, SaveSteps(u) \/ \E i \in 1..MaxIncidents : UploadArtifact(u, i)
      PROVE  UNCHANGED schemaVars
  BY <1>2 DEF SaveSteps, OpenFile, WriteFile, InsertArtifact, UploadArtifact
<1>3. ASSUME NEW u, FailSave(u) PROVE UNCHANGED <<columns, roles, rows, line, spoilt, clean>>
  BY <1>3 DEF FailSave
<1>4. ASSUME NEW p, CorrelateSteps(p) \/ PostSignal(p) PROVE UNCHANGED schemaVars
  BY <1>4 DEF CorrelateSteps, PostSignal, QueryIncidents, Correlate, CloseRows, StoreSignal
<1>5. ASSUME NEW pr, NEW t, NEW i, Ingest(pr, t) \/ Delete(i) PROVE UNCHANGED schemaVars
  BY <1>5 DEF Ingest, Delete
<1> QED
  BY <1>1, <1>2, <1>3, <1>4, <1>5 DEF Next

LEMMA RepairingStep == Repairing /\ [Next]_vars => Repairing'
<1> SUFFICES ASSUME Repairing, [Next]_vars PROVE Repairing'
  OBVIOUS
<1>1. CASE StartUp
  BY <1>1, StartRepairs, RunRepairs, FailRepairs DEF StartUp
<1>2. CASE Crash
  BY <1>2, DieRepairs DEF Crash
<1>3. CASE ~StartUp /\ ~Crash
  BY <1>3, SchemaKept, OthersRepair
<1> QED
  BY <1>1, <1>2, <1>3

(* Whatever file the program finds, whose seeded tables alone can have      *)
(* rows, and however its starts are cut short or spoilt: after one clean    *)
(* start every column the statements name is there, and every default row;  *)
(* after two in a row no user has a legacy role.                            *)
THEOREM CleanStarts == Spec => []CleanStartRepairs
<1>1. Init => Repairing
  <2>1. ASSUME Init PROVE line = 0 /\ clean = 0 /\ spoilt = FALSE /\ rows \subseteq Seeded
    <3>1. PICK f \in Files : rows = f.rows
      BY <2>1 DEF Init, SchemaInit
    <3>2. rows \subseteq Seeded
      BY <3>1, FilesAssumption DEF Seeded
    <3> QED
      BY <2>1, <3>2 DEF Init, SchemaInit
  <2> QED
    BY <2>1 DEF Repairing, SoFar, Repaired, NoOperator
<1>2. Repairing /\ [Next]_vars => Repairing'
  BY RepairingStep
<1>3. Repairing => CleanStartRepairs
  BY DEF Repairing, Repaired, NoOperator, CleanStartRepairs, Seeded
<1> QED
  BY <1>1, <1>2, <1>3, PTL DEF Spec

-----------------------------------------------------------------------------
(* What is shown for an incident.                                           *)

(* Ids are never used twice, so the serial of a row is its id.              *)
Stored ==
  /\ sequence \in Nat /\ ingested = sequence
  /\ DOMAIN incidents \subseteq 1..sequence
  /\ \A i \in DOMAIN incidents : incidents[i].serial = i

(* Rows come under new ids, and go; the ones that stay keep what they say.  *)
LEMMA StoredStep ==
  ASSUME Stored, [Next]_vars
  PROVE  /\ Stored' /\ sequence <= sequence'
         /\ \A i \in DOMAIN incidents' : i <= sequence => i \in DOMAIN incidents /\ incidents'[i] = incidents[i]
<1>1. CASE \E pr \in Projects, t \in Times : Ingest(pr, t)
  <2>1. PICK pr, t : Ingest(pr, t)
    BY <1>1
  <2>2. /\ sequence' = sequence + 1 /\ ingested' = ingested + 1
        /\ DOMAIN incidents' = DOMAIN incidents \cup {sequence + 1}
        /\ \A i \in DOMAIN incidents' :
             incidents'[i] = IF i = sequence + 1 THEN [project |-> pr, at |-> t, serial |-> ingested + 1]
                                                 ELSE incidents[i]
    BY <2>1 DEF Ingest, Store
  <2> QED
    BY <2>2 DEF Stored
<1>2. CASE \E i \in DOMAIN incidents : Delete(i)
  <2>1. PICK k \in DOMAIN incidents : Delete(k)
    BY <1>2
  <2>2. /\ UNCHANGED <<sequence, ingested>>
        /\ DOMAIN incidents' = DOMAIN incidents \ {k}
        /\ \A i \in DOMAIN incidents' : incidents'[i] = incidents[i]
    BY <2>1 DEF Delete, Forget
  <2> QED
    BY <2>2 DEF Stored
<1>3. CASE UNCHANGED <<incidents, sequence, ingested>>
  BY <1>3 DEF Stored
<1>4. ASSUME NEW u, SaveSteps(u) \/ FailSave(u) \/ \E i \in 1..MaxIncidents : UploadArtifact(u, i)
      PROVE  UNCHANGED <<incidents, sequence, ingested>>
  BY <1>4 DEF SaveSteps, OpenFile, WriteFile, InsertArtifact, FailSave, UploadArtifact
<1>5. ASSUME NEW p, CorrelateSteps(p) \/ PostSignal(p) PROVE UNCHANGED <<incidents, sequence, ingested>>
  BY <1>5 DEF CorrelateSteps, PostSignal, QueryIncidents, Correlate, CloseRows, StoreSignal
<1>6. StartUp \/ Crash \/ UNCHANGED vars => UNCHANGED <<incidents, sequence, ingested>>
  BY DEF StartUp, Crash, vars, recordVars
<1> QED
  BY <1>1, <1>2, <1>3, <1>4, <1>5, <1>6 DEF Next

(* Uploads.  One that was accepted knows its incident, and nothing but      *)
(* uploads to an incident is ever under its name.                           *)
UploadSteps == {"idle", "refused", "saving", "writing", "adrift", "written", "done", "lost"}
UploadState == [pc : UploadSteps, incident : Nat, serial : Nat]
Uploading(u) == upload[u].pc \notin {"idle", "refused"}

Accepted(u) == Uploading(u) => upload[u].serial = upload[u].incident /\ upload[u].incident \in 1..sequence
OfUpload(a) ==
  /\ a.upload \in Uploads /\ upload[a.upload].pc = "done"
  /\ a.incident = upload[a.upload].incident /\ a.name = FileName[a.upload]
OfPath(x, text) ==
  text \in {None, Mixed} \/ (text \in Uploads /\ Uploading(text) /\ Path(text) = x)

Saved ==
  /\ upload \in [Uploads -> UploadState]
  /\ \A u \in Uploads : Accepted(u)
  /\ \A a \in artifacts : OfUpload(a)
  /\ \A x \in DOMAIN blobs : OfPath(x, blobs[x])

(* An upload that has its file to itself has it whole once it is written,   *)
(* and nobody else has that file open.                                      *)
Alone(v) == \A w \in Uploads \ {v} : Path(w) = Path(v) => ~HasOpen(w)
Filed(v) == upload[v].pc \in {"written", "done"} => Path(v) \in DOMAIN blobs /\ blobs[Path(v)] = v
Owned ==
  \A v \in own : /\ v \in Uploads /\ upload[v].pc \in {"writing", "written", "done", "lost"}
                 /\ Alone(v) /\ Filed(v)

(* An upload under way keeps its incident, one that is done stays done.     *)
Goes(v) ==
  /\ upload'[v] \in UploadState
  /\ Uploading(v) => /\ upload'[v].pc \notin {"idle", "refused"}
                     /\ upload'[v].incident = upload[v].incident /\ upload'[v].serial = upload[v].serial
  /\ upload[v].pc = "done" => upload'[v].pc = "done"

(* A step of one upload's goroutine leaves its incident alone.              *)
LEMMA MovesOne ==
  ASSUME upload \in [Uploads -> UploadState],
         NEW u \in Uploads, NEW pc \in UploadSteps, Moves(u, pc)
  PROVE  /\ upload' \in [Uploads -> UploadState]
         /\ upload'[u].pc = pc
         /\ \A v \in Uploads : /\ v # u => upload'[v] = upload[v]
                               /\ upload'[v].incident = upload[v].incident
                               /\ upload'[v].serial = upload[v].serial
                               /\ Path(v)' = Path(v)
<1>1. upload' = [upload EXCEPT ![u] = [upload[u] EXCEPT !.pc = pc]]
  BY DEF Moves
<1>2. [upload[u] EXCEPT !.pc = pc] \in UploadState
  BY DEF UploadState
<1>3. /\ [upload[u] EXCEPT !.pc = pc].pc = pc
      /\ [upload[u] EXCEPT !.pc = pc].incident = upload[u].incident
      /\ [upload[u] EXCEPT !.pc = pc].serial = upload[u].serial
  BY DEF UploadState
<1>4. \A v \in Uploads : upload'[v] = IF v = u THEN [upload[u] EXCEPT !.pc = pc] ELSE upload[v]
  BY <1>1
<1>5. upload' \in [Uploads -> UploadState]
  BY <1>1, <1>2
<1> QED
  BY <1>3, <1>4, <1>5 DEF Path

LEMMA MoverGoes ==
  ASSUME upload \in [Uploads -> UploadState], NEW u \in Uploads, NEW pc \in UploadSteps, Moves(u, pc),
         upload[u].pc # "done", Uploading(u) => pc \notin {"idle", "refused"}
  PROVE  \A v \in Uploads : Goes(v)
<1>1. /\ upload' \in [Uploads -> UploadState] /\ upload'[u].pc = pc
      /\ \A v \in Uploads : /\ v # u => upload'[v] = upload[v]
                            /\ upload'[v].incident = upload[v].incident
                            /\ upload'[v].serial = upload[v].serial
  BY MovesOne
<1> QED
  BY <1>1 DEF Goes, Uploading

(* While uploads go on, what is recorded of them stays right.               *)
LEMMA GoesOn ==
  ASSUME Saved, sequence \in Nat, sequence' \in Nat, sequence <= sequence',
         upload' \in [Uploads -> UploadState], \A v \in Uploads : Goes(v),
         \A v \in Uploads : Uploading(v) \/ Accepted(v)',
         \A a \in artifacts' \ artifacts : OfUpload(a)',
         \A x \in DOMAIN blobs' : (x \in DOMAIN blobs /\ blobs'[x] = blobs[x]) \/ OfPath(x, blobs[x])'
  PROVE  Saved'
<1>1. ASSUME NEW v \in Uploads PROVE Accepted(v)'
  BY DEF Saved, Accepted, Goes, Uploading
<1>2. ASSUME NEW a \in artifacts' PROVE OfUpload(a)'
  <2>1. CASE a \in artifacts
    <3>1. OfUpload(a)
      BY <2>1 DEF Saved
    <3>2. Goes(a.upload) /\ Uploading(a.upload)
      BY <3>1 DEF OfUpload, Uploading
    <3> QED
      BY <3>1, <3>2 DEF OfUpload, Goes
  <2> QED
    BY <1>2, <2>1
<1>3. ASSUME NEW x \in DOMAIN blobs' PROVE OfPath(x, blobs[x])'
  <2>1. CASE x \in DOMAIN blobs /\ blobs'[x] = blobs[x]
    <3>1. OfPath(x, blobs[x])
      BY <2>1 DEF Saved
    <3> QED
      BY <2>1, <3>1 DEF OfPath, Goes, Uploading, Path
  <2> QED
    BY <1>3, <2>1
<1> QED
  BY <1>1, <1>2, <1>3 DEF Saved

LEMMA AcceptSaved ==
  ASSUME Stored, Saved, Owned, NEW u \in Uploads, NEW i, UploadArtifact(u, i)
  PROVE  Saved' /\ Owned'
<1>1. /\ upload[u].pc = "idle" /\ UNCHANGED <<sequence, blobs, own, artifacts>>
      /\ \/ /\ i \in DOMAIN incidents
            /\ upload' = [upload EXCEPT ![u] = [pc |-> "saving", incident |-> i, serial |-> incidents[i].serial]]
         \/ Moves(u, "refused")
  BY DEF UploadArtifact, Admitted
<1>2. /\ upload' \in [Uploads -> UploadState]
      /\ upload'[u].pc \in {"saving", "refused"}
      /\ upload'[u].pc = "saving" => upload'[u].incident \in 1..sequence /\ upload'[u].serial = upload'[u].incident
      /\ \A v \in Uploads \ {u} : upload'[v] = upload[v]
  <2>1. CASE Moves(u, "refused")
    BY <2>1, MovesOne DEF Saved, UploadSteps
  <2>2. CASE /\ i \in DOMAIN incidents
             /\ upload' = [upload EXCEPT ![u] = [pc |-> "saving", incident |-> i, serial |-> incidents[i].serial]]
    <3>1. i \in 1..sequence /\ incidents[i].serial = i /\ sequence \in Nat
      BY <2>2 DEF Stored
    <3>2. [pc |-> "saving", incident |-> i, serial |-> incidents[i].serial] \in UploadState
      BY <3>1 DEF UploadSteps, UploadState
    <3> QED
      BY <2>2, <3>1, <3>2 DEF Saved
  <2> QED
    BY <1>1, <2>1, <2>2
<1>3. Saved'
  <2>1. \A v \in Uploads : Goes(v)
    BY <1>1, <1>2 DEF Saved, Goes, Uploading
  <2>2. \A v \in Uploads : Uploading(v) \/ Accepted(v)'
    BY <1>1, <1>2 DEF Saved, Accepted, Uploading
  <2>3. sequence \in Nat
    BY DEF Stored
  <2> QED
    BY <1>1, <1>2, <2>1, <2>2, <2>3, GoesOn
<1>4. ASSUME NEW v \in own PROVE v \in Uploads /\ upload'[v] = upload[v] /\ Alone(v)' /\ Filed(v)'
  <2>1. v \in Uploads \ {u} /\ upload'[v] = upload[v]
    BY <1>1, <1>2 DEF Owned
  <2>2. Alone(v)'
    BY <1>2, <2>1 DEF Owned, Alone, HasOpen, Path
  <2>3. Filed(v)'
    BY <1>1, <2>1 DEF Owned, Filed, Path
  <2> QED
    BY <2>1, <2>2, <2>3
<1>5. Owned'
  BY <1>1, <1>4 DEF Owned
<1> QED
  BY <1>3, <1>5

(* The steps of the goroutine.                                              *)
LEMMA OpenSaved ==
  ASSUME Stored, Saved, Owned, NEW u \in Uploads, OpenFile(u)
  PROVE  Saved' /\ Owned'
<1>1. /\ Moves(u, "writing") /\ upload[u].pc = "saving" /\ UNCHANGED <<sequence, artifacts>>
      /\ own' = (own \ Sharing(u)) \cup (IF \E v \in Sharing(u) : HasOpen(v) THEN {} ELSE {u})
      /\ DOMAIN blobs' = DOMAIN blobs \cup {Path(u)} /\ blobs'[Path(u)] = None
      /\ \A x \in DOMAIN blobs \ {Path(u)} : blobs'[x] = blobs[x]
  BY DEF OpenFile, Store
<1>2. /\ upload' \in [Uploads -> UploadState] /\ upload'[u].pc = "writing"
      /\ \A v \in Uploads : (v # u => upload'[v] = upload[v]) /\ Path(v)' = Path(v)
  BY <1>1, MovesOne DEF Saved, UploadSteps
<1>3. Saved'
  <2>1. \A v \in Uploads : Goes(v)
    BY <1>1, MoverGoes DEF Saved, UploadSteps
  <2>2. \A v \in Uploads : Uploading(v) \/ Accepted(v)'
    BY <1>1, <1>2 DEF Saved, Accepted, Uploading
  <2>3. \A x \in DOMAIN blobs' : (x \in DOMAIN blobs /\ blobs'[x] = blobs[x]) \/ OfPath(x, blobs[x])'
    BY <1>1 DEF OfPath
  <2>4. sequence \in Nat
    BY DEF Stored
  <2> QED
    BY <1>1, <1>2, <2>1, <2>2, <2>3, <2>4, GoesOn
<1>4. ASSUME NEW v \in own'
      PROVE  v \in Uploads /\ upload'[v].pc \in {"writing", "written", "done", "lost"} /\ Alone(v)' /\ Filed(v)'
  <2>1. CASE v = u /\ ~\E w \in Sharing(u) : HasOpen(w)
    <3>1. Alone(v)
      BY <2>1 DEF Alone, Sharing, HasOpen
    <3>2. Alone(v)'
      BY <1>2, <2>1, <3>1 DEF Alone, HasOpen
    <3> QED
      BY <1>2, <2>1, <3>2 DEF Filed
  <2>2. CASE v \in own \ Sharing(u)
    <3>1. /\ v \in Uploads \ {u} /\ upload'[v] = upload[v] /\ Alone(v) /\ Filed(v)
          /\ upload[v].pc \in {"writing", "written", "done", "lost"}
      BY <1>1, <1>2, <2>2 DEF Owned
    <3>2. Path(v) # Path(u)
      BY <2>2, <3>1 DEF Sharing
    <3>3. Alone(v)'
      BY <1>2, <3>1, <3>2 DEF Alone, HasOpen
    <3>4. Filed(v)'
      BY <1>1, <1>2, <3>1, <3>2 DEF Filed
    <3> QED
      BY <3>1, <3>3, <3>4
  <2> QED
    BY <1>1, <2>1, <2>2
<1>5. Owned'
  BY <1>4 DEF Owned
<1> QED
  BY <1>3, <1>5

LEMMA WriteSaved ==
  ASSUME Stored, Saved, Owned, NEW u \in Uploads, WriteFile(u)
  PROVE  Saved' /\ Owned'
<1>1. /\ Moves(u, "written") /\ upload[u].pc \in {"writing", "adrift"} /\ UNCHANGED <<sequence, own, artifacts>>
      /\ \A x \in DOMAIN blobs \ {Path(u)} : x \in DOMAIN blobs' /\ blobs'[x] = blobs[x]
      /\ upload[u].pc = "adrift" => UNCHANGED blobs
      /\ upload[u].pc = "writing" => /\ DOMAIN blobs' = DOMAIN blobs \cup {Path(u)}
                                     /\ blobs'[Path(u)] \in {u, Mixed}
                                     /\ u \in own => blobs'[Path(u)] = u
  BY DEF WriteFile, Store, HasOpen
<1>2. /\ upload' \in [Uploads -> UploadState] /\ upload'[u].pc = "written"
      /\ \A v \in Uploads : (v # u => upload'[v] = upload[v]) /\ Path(v)' = Path(v)
  BY <1>1, MovesOne DEF Saved, UploadSteps
<1>3. Saved'
  <2>1. \A v \in Uploads : Goes(v)
    BY <1>1, MoverGoes DEF Saved, UploadSteps
  <2>2. \A v \in Uploads : Uploading(v) \/ Accepted(v)'
    BY <1>1, <1>2 DEF Saved, Accepted, Uploading
  <2>3. \A x \in DOMAIN blobs' : (x \in DOMAIN blobs /\ blobs'[x] = blobs[x]) \/ OfPath(x, blobs[x])'
    BY <1>1, <1>2 DEF OfPath, Uploading
  <2>4. sequence \in Nat
    BY DEF Stored
  <2> QED
    BY <1>1, <1>2, <2>1, <2>2, <2>3, <2>4, GoesOn
<1>4. ASSUME NEW v \in own
      PROVE  v \in Uploads /\ upload'[v].pc \in {"writing", "written", "done", "lost"} /\ Alone(v)' /\ Filed(v)'
  <2>1. v \in Uploads /\ Alone(v) /\ Filed(v) /\ upload[v].pc \in {"writing", "written", "done", "lost"}
    BY DEF Owned
  <2>2. Alone(v)'
    BY <1>2, <2>1 DEF Alone, HasOpen
  <2>3. CASE v = u
    BY <1>1, <1>2, <2>1, <2>2, <2>3 DEF Filed
  <2>4. CASE v # u
    <3>1. Path(v) # Path(u)
      BY <1>1, <2>1, <2>4 DEF Alone, HasOpen
    <3>2. Filed(v)'
      BY <1>1, <1>2, <2>1, <2>4, <3>1 DEF Filed
    <3> QED
      BY <1>2, <2>1, <2>2, <2>4, <3>2
  <2> QED
    BY <2>3, <2>4
<1>5. Owned'
  BY <1>1, <1>4 DEF Owned
<1> QED
  BY <1>3, <1>5

(* A save that fails takes the file away from everybody who has it open,    *)
(* and then it was nobody's own.                                            *)
LEMMA FailSaved ==
  ASSUME Stored, Saved, Owned, NEW u \in Uploads, FailSave(u)
  PROVE  Saved' /\ Owned'
<1>1. sequence \in Nat /\ UNCHANGED <<sequence, own, artifacts>>
  BY DEF Stored, FailSave
<1>2. CASE HasOpen(u)
  <2>1. /\ DOMAIN blobs' = DOMAIN blobs \ {Path(u)} /\ \A x \in DOMAIN blobs' : blobs'[x] = blobs[x]
        /\ upload' = [v \in Uploads |->
             [upload[v] EXCEPT !.pc = IF v = u THEN "lost"
                                      ELSE IF @ = "writing" /\ Path(v) = Path(u) THEN "adrift" ELSE @]]
    BY <1>2 DEF FailSave, Forget
  <2>2. ASSUME NEW v \in Uploads
        PROVE  /\ upload'[v] \in UploadState
               /\ upload'[v].incident = upload[v].incident /\ upload'[v].serial = upload[v].serial
               /\ upload'[v].pc = IF v = u THEN "lost"
                                  ELSE IF upload[v].pc = "writing" /\ Path(v) = Path(u) THEN "adrift" ELSE upload[v].pc
    <3>1. upload[v] \in UploadState
      BY DEF Saved
    <3> QED
      BY <2>1, <3>1 DEF UploadState, UploadSteps
  <2>3. upload' \in [Uploads -> UploadState] /\ \A v \in Uploads : Path(v)' = Path(v)
    <3>1. DOMAIN upload' = Uploads /\ upload' = [v \in Uploads |-> upload'[v]]
      BY <2>1
    <3> QED
      BY <2>2, <3>1 DEF Path
  <2>4. Saved'
    <3>1. \A v \in Uploads : Goes(v)
      BY <1>2, <2>2 DEF Goes, Uploading, HasOpen
    <3>2. \A v \in Uploads : Uploading(v) \/ Accepted(v)'
      BY <1>2, <2>2 DEF Accepted, Uploading, HasOpen
    <3> QED
      BY <1>1, <2>1, <2>3, <3>1, <3>2, GoesOn
  <2>5. ASSUME NEW v \in own
        PROVE  v \in Uploads /\ upload'[v].pc \in {"writing", "written", "done", "lost"} /\ Alone(v)' /\ Filed(v)'
    <3>1. v \in Uploads /\ Alone(v) /\ Filed(v) /\ upload[v].pc \in {"writing", "written", "done", "lost"}
      BY DEF Owned
    <3>2. v # u => Path(v) # Path(u)
      BY <1>2, <3>1 DEF Alone
    <3>3. Alone(v)'
      <4>1. ASSUME NEW w \in Uploads \ {v}, Path(w) = Path(v) PROVE ~HasOpen(w)'
        <5>1. upload[w].pc \notin {"writing", "adrift"}
          BY <3>1, <4>1 DEF Alone, HasOpen
        <5> QED
          BY <2>2, <5>1 DEF HasOpen
      <4> QED
        BY <2>3, <3>1, <4>1 DEF Alone
    <3>4. upload'[v].pc = IF v = u THEN "lost" ELSE upload[v].pc
      BY <2>2, <3>1, <3>2
    <3>5. Filed(v)'
      BY <2>1, <2>3, <3>1, <3>2, <3>4 DEF Filed
    <3> QED
      BY <3>1, <3>3, <3>4, <3>5
  <2>6. Owned'
    BY <1>1, <2>5 DEF Owned
  <2> QED
    BY <2>4, <2>6
<1>3. CASE ~HasOpen(u)
  <2>1. Moves(u, "lost") /\ upload[u].pc = "saving" /\ UNCHANGED blobs
    BY <1>3 DEF FailSave
  <2>2. /\ upload' \in [Uploads -> UploadState] /\ upload'[u].pc = "lost"
        /\ \A v \in Uploads : (v # u => upload'[v] = upload[v]) /\ Path(v)' = Path(v)
    BY <2>1, MovesOne DEF Saved, UploadSteps
  <2>3. Saved'
    <3>1. \A v \in Uploads : Goes(v)
      BY <2>1, MoverGoes DEF Saved, UploadSteps
    <3>2. \A v \in Uploads : Uploading(v) \/ Accepted(v)'
      BY <2>1, <2>2 DEF Saved, Accepted, Uploading
    <3> QED
      BY <1>1, <2>1, <2>2, <3>1, <3>2, GoesOn
  <2>4. Owned'
    <3>1. ASSUME NEW v \in own PROVE v \in Uploads /\ upload'[v] = upload[v] /\ Alone(v)' /\ Filed(v)'
      <4>1. v \in Uploads \ {u} /\ upload'[v] = upload[v] /\ Alone(v) /\ Filed(v)
        BY <2>1, <2>2 DEF Owned
      <4>2. Alone(v)'
        BY <2>2, <4>1 DEF Alone, HasOpen
      <4> QED
        BY <2>1, <2>2, <4>1, <4>2 DEF Filed
    <3> QED
      BY <1>1, <3>1 DEF Owned
  <2> QED
    BY <2>3, <2>4
<1> QED
  BY <1>2, <1>3

LEMMA InsertSaved ==
  ASSUME Stored, Saved, Owned, NEW u \in Uploads, InsertArtifact(u)
  PROVE  Saved' /\ Owned'
<1>1. PICK pc \in {"done", "lost"} :
        /\ Moves(u, pc)
        /\ artifacts' = artifacts \/ (pc = "done" /\ artifacts' = artifacts \cup
                          {[incident |-> upload[u].incident, name |-> FileName[u], upload |-> u]})
  BY DEF InsertArtifact
<1>2. upload[u].pc = "written" /\ UNCHANGED <<sequence, blobs, own>>
  BY DEF InsertArtifact
<1>3. /\ upload' \in [Uploads -> UploadState] /\ upload'[u].pc = pc
      /\ \A v \in Uploads : /\ v # u => upload'[v] = upload[v]
                            /\ upload'[v].incident = upload[v].incident
                            /\ Path(v)' = Path(v)
  BY <1>1, MovesOne DEF Saved, UploadSteps
<1>4. Saved'
  <2>1. \A v \in Uploads : Goes(v)
    BY <1>1, <1>2, MoverGoes DEF Saved, UploadSteps
  <2>2. \A v \in Uploads : Uploading(v) \/ Accepted(v)'
    BY <1>2, <1>3 DEF Saved, Accepted, Uploading
  <2>3. \A a \in artifacts' \ artifacts : OfUpload(a)'
    BY <1>1, <1>3 DEF OfUpload
  <2>4. sequence \in Nat
    BY DEF Stored
  <2> QED
    BY <1>2, <1>3, <2>1, <2>2, <2>3, <2>4, GoesOn
<1>5. ASSUME NEW v \in own
      PROVE  v \in Uploads /\ upload'[v].pc \in {"writing", "written", "done", "lost"} /\ Alone(v)' /\ Filed(v)'
  <2>1. v \in Uploads /\ Alone(v) /\ Filed(v) /\ upload[v].pc \in {"writing", "written", "done", "lost"}
    BY DEF Owned
  <2>2. Alone(v)'
    BY <1>1, <1>3, <2>1 DEF Alone, HasOpen
  <2>3. Filed(v)'
    BY <1>2, <1>3, <2>1 DEF Filed
  <2> QED
    BY <1>1, <1>3, <2>1, <2>2, <2>3
<1>6. Owned'
  BY <1>2, <1>5 DEF Owned
<1> QED
  BY <1>4, <1>6

LEMMA CrashSaved ==
  ASSUME Stored, Saved, Owned, Crash
  PROVE  Saved' /\ Owned'
<1>1. /\ sequence \in Nat /\ UNCHANGED <<sequence, blobs, own, artifacts>>
      /\ upload' = [u \in Uploads |-> IF upload[u].pc \in {"saving", "writing", "adrift", "written"}
                                        THEN [upload[u] EXCEPT !.pc = "lost"] ELSE upload[u]]
  BY DEF Crash, Stored
<1>2. ASSUME NEW v \in Uploads
      PROVE  /\ upload'[v] \in UploadState
             /\ upload'[v].incident = upload[v].incident /\ upload'[v].serial = upload[v].serial
             /\ upload'[v] = upload[v]
                  \/ (upload'[v].pc = "lost" /\ Uploading(v) /\ upload[v].pc # "done")
             /\ ~HasOpen(v)'
  <2>1. upload[v] \in UploadState
    BY DEF Saved
  <2> QED
    BY <1>1, <2>1 DEF UploadState, UploadSteps, Uploading, HasOpen
<1>3. upload' \in [Uploads -> UploadState] /\ \A v \in Uploads : Path(v)' = Path(v)
  BY <1>1, <1>2 DEF Path
<1>4. Saved'
  <2>1. \A v \in Uploads : Goes(v)
    BY <1>2 DEF Goes, Uploading
  <2>2. \A v \in Uploads : Uploading(v) \/ Accepted(v)'
    BY <1>1, <1>2 DEF Saved, Accepted, Uploading
  <2> QED
    BY <1>1, <1>3, <2>1, <2>2, GoesOn
<1>5. ASSUME NEW v \in own
      PROVE  v \in Uploads /\ upload'[v].pc \in {"writing", "written", "done", "lost"} /\ Alone(v)' /\ Filed(v)'
  <2>1. v \in Uploads /\ Filed(v) /\ upload[v].pc \in {"writing", "written", "done", "lost"}
    BY DEF Owned
  <2>2. Alone(v)'
    BY <1>2 DEF Alone
  <2>3. Filed(v)'
    BY <1>1, <1>2, <1>3, <2>1 DEF Filed
  <2> QED
    BY <1>2, <2>1, <2>2, <2>3
<1>6. Owned'
  BY <1>1, <1>5 DEF Owned
<1> QED
  BY <1>4, <1>6

(* Everybody else at most lengthens the sequence of ids.                    *)
LEMMA SavedStep ==
  ASSUME Stored, Saved, Owned, [Next]_vars
  PROVE  Saved' /\ Owned'
<1>1. CASE \E u \in Uploads : SaveSteps(u) \/ FailSave(u)
  BY <1>1, OpenSaved, WriteSaved, InsertSaved, FailSaved DEF SaveSteps
<1>2. CASE \E u \in Uploads : \E i \in 1..MaxIncidents : UploadArtifact(u, i)
  BY <1>2, AcceptSaved
<1>3. CASE Crash
  BY <1>3, CrashSaved
<1>4. CASE UNCHANGED <<upload, blobs, own, artifacts>>
  <2>1. sequence \in Nat /\ sequence' \in Nat /\ sequence <= sequence'
    BY StoredStep DEF Stored
  <2>2. ASSUME NEW v \in Uploads PROVE Goes(v) /\ (Uploading(v) \/ Accepted(v)')
    BY <1>4 DEF Saved, Goes, Accepted, Uploading
  <2>3. upload' \in [Uploads -> UploadState]
    BY <1>4 DEF Saved
  <2>4. Saved'
    BY <1>4, <2>1, <2>2, <2>3, GoesOn
  <2>5. Owned'
    BY <1>4 DEF Owned, Alone, Filed, HasOpen, Path
  <2> QED
    BY <2>4, <2>5
<1>5. ASSUME NEW p, CorrelateSteps(p) \/ PostSignal(p) PROVE UNCHANGED <<upload, blobs, own, artifacts>>
  BY <1>5 DEF CorrelateSteps, PostSignal, QueryIncidents, Correlate, CloseRows, StoreSignal
<1>6. ASSUME NEW pr, NEW t, NEW i, Ingest(pr, t) \/ Delete(i) PROVE UNCHANGED <<upload, blobs, own, artifacts>>
  BY <1>6 DEF Ingest, Delete
<1>7. StartUp \/ UNCHANGED vars => UNCHANGED <<upload, blobs, own, artifacts>>
  BY DEF StartUp, vars, recordVars
<1> QED
  BY <1>1, <1>2, <1>3, <1>4, <1>5, <1>6, <1>7 DEF Next

(* Signals.  What a post is working through, and what it has recorded, are  *)
(* failures of its project and time, unless they have been deleted since.   *)
Correct(p, i) ==
  /\ post[p].pc # "idle" /\ i \in 1..sequence
  /\ i \in DOMAIN incidents => /\ incidents[i].project = post[p].project
                               /\ incidents[i].at - post[p].at \in -15..15

PostSteps == {"idle", "stored", "refused", "reading", "done", "cut"}
PostState == [pc : PostSteps, project : Projects \cup {None}, at : Times \cup {0}, todo : SUBSET Nat]

Correlated ==
  /\ post \in [Posts -> PostState]
  /\ \A p \in Posts : \A i \in post[p].todo : Correct(p, i)
  /\ \A c \in correlations : c[1] \in Posts /\ Correct(c[1], c[2])

(* A post that is under way keeps its project and time.                     *)
KeepsPost(p) ==
  post[p].pc # "idle" => /\ post'[p].pc # "idle"
                         /\ post'[p].project = post[p].project /\ post'[p].at = post[p].at

LEMMA CorrectStays ==
  ASSUME Stored, [Next]_vars, NEW p, NEW i, Correct(p, i), KeepsPost(p)
  PROVE  Correct(p, i)'
<1>1. /\ sequence \in Nat /\ sequence' \in Nat /\ sequence <= sequence'
      /\ \A j \in DOMAIN incidents' : j <= sequence => j \in DOMAIN incidents /\ incidents'[j] = incidents[j]
  BY StoredStep DEF Stored
<1>2. i \in 1..sequence'
  BY <1>1 DEF Correct
<1>3. ASSUME i \in DOMAIN incidents'
      PROVE  incidents'[i].project = post'[p].project /\ incidents'[i].at - post'[p].at \in -15..15
  <2>1. i \in DOMAIN incidents /\ incidents'[i] = incidents[i]
    BY <1>1, <1>3 DEF Correct
  <2> QED
    BY <2>1 DEF Correct, KeepsPost
<1> QED
  BY <1>2, <1>3 DEF Correct, KeepsPost

(* A step that keeps every post, gives none but p new failures to work      *)
(* through, all of them correct, and records none but those of a post.      *)
LEMMA PostsCorrelated ==
  ASSUME Stored, Correlated, [Next]_vars, post' \in [Posts -> PostState],
         \A p \in Posts : KeepsPost(p),
         \A p \in Posts : \A i \in post'[p].todo \ post[p].todo : Correct(p, i)',
         \A c \in correlations' \ correlations : c[1] \in Posts /\ c[2] \in post[c[1]].todo
  PROVE  Correlated'
<1>1. ASSUME NEW p \in Posts, NEW i \in post'[p].todo PROVE Correct(p, i)'
  <2>1. CASE i \in post[p].todo
    BY <2>1, CorrectStays DEF Correlated
  <2>2. CASE i \notin post[p].todo
    BY <1>1, <2>2
  <2> QED
    BY <2>1, <2>2
<1>2. ASSUME NEW c \in correlations' PROVE c[1] \in Posts /\ Correct(c[1], c[2])'
  <2>1. c[1] \in Posts /\ Correct(c[1], c[2])
    BY <1>2 DEF Correlated
  <2> QED
    BY <2>1, CorrectStays
<1> QED
  BY <1>1, <1>2 DEF Correlated, PostState

(* The step of one post.                                                    *)
LEMMA OnePost ==
  ASSUME Correlated, NEW q \in Posts, NEW s \in PostState, post' = [post EXCEPT ![q] = s],
         post[q].pc # "idle" => s.pc # "idle" /\ s.project = post[q].project /\ s.at = post[q].at
  PROVE  /\ post' \in [Posts -> PostState]
         /\ \A p \in Posts : KeepsPost(p)
         /\ post'[q] = s /\ \A p \in Posts \ {q} : post'[p] = post[p]
<1>1. post' \in [Posts -> PostState] /\ post'[q] = s /\ \A p \in Posts \ {q} : post'[p] = post[p]
  BY DEF Correlated
<1> QED
  BY <1>1 DEF KeepsPost

LEMMA SignalCorrelated ==
  ASSUME Stored, Correlated, [Next]_vars, NEW q \in Posts, PostSignal(q)
  PROVE  Correlated'
<1>1. PICK pr \in Projects, t \in Times : StoreSignal(q, pr, t)
  BY DEF PostSignal
<1> DEFINE s == [pc |-> IF Has("external_signals") THEN "stored" ELSE "refused",
                 project |-> pr, at |-> t, todo |-> {}]
<1>2. s \in PostState /\ s.todo = {}
  BY DEF PostState, PostSteps
<1>3. post' = [post EXCEPT ![q] = s] /\ post[q].pc = "idle" /\ UNCHANGED correlations
  BY <1>1 DEF StoreSignal
<1> HIDE DEF s
<1>4. /\ post' \in [Posts -> PostState]
      /\ \A p \in Posts : KeepsPost(p)
      /\ post'[q] = s /\ \A p \in Posts \ {q} : post'[p] = post[p]
  BY <1>2, <1>3, OnePost
<1>5. \A p \in Posts : post'[p].todo \ post[p].todo = {}
  BY <1>2, <1>4
<1> QED
  BY <1>3, <1>4, <1>5, PostsCorrelated

LEMMA CorrelateCorrelated ==
  ASSUME Stored, Correlated, [Next]_vars, NEW q \in Posts, CorrelateSteps(q)
  PROVE  Correlated'
<1>1. post[q] \in PostState
  BY DEF Correlated
<1>2. CASE QueryIncidents(q)
  <2> DEFINE s == [post[q] EXCEPT !.pc = "reading", !.todo = Matches(q)]
  <2>1. post' = [post EXCEPT ![q] = s] /\ post[q].pc = "stored" /\ UNCHANGED <<incidents, sequence, correlations>>
    BY <1>2, Zenon DEF QueryIncidents
  <2>2. Matches(q) \subseteq 1..sequence
    BY DEF Matches, Stored
  <2>3. /\ s \in PostState /\ s.pc = "reading" /\ s.todo = Matches(q)
        /\ s.project = post[q].project /\ s.at = post[q].at
    <3>1. Matches(q) \in SUBSET Nat
      BY <2>2 DEF Stored
    <3> QED
      BY <1>1, <3>1 DEF PostState, PostSteps
  <2> HIDE DEF s
  <2>4. /\ post' \in [Posts -> PostState]
        /\ \A p \in Posts : KeepsPost(p)
        /\ post'[q] = s /\ \A p \in Posts \ {q} : post'[p] = post[p]
    BY <2>1, <2>3, OnePost
  <2>5. \A i \in Matches(q) : Correct(q, i)'
    <3>1. /\ post'[q].pc # "idle" /\ post'[q].project = post[q].project /\ post'[q].at = post[q].at
          /\ UNCHANGED <<incidents, sequence>>
      BY <2>1, <2>3, <2>4
    <3>2. ASSUME NEW i \in Matches(q) PROVE Correct(q, i)'
      <4>1. /\ incidents[i].project = post[q].project
            /\ incidents[i].at - post[q].at \in -15..15
        BY DEF Matches
      <4> QED
        BY <2>2, <3>1, <4>1 DEF Correct
    <3> QED
      BY <3>2
  <2>6. \A p \in Posts : \A i \in post'[p].todo \ post[p].todo : Correct(p, i)'
    BY <2>3, <2>4, <2>5
  <2> QED
    BY <2>1, <2>4, <2>6, PostsCorrelated
<1>3. CASE \E i \in post[q].todo : Correlate(q, i)
  <2>1. PICK i \in post[q].todo : Correlate(q, i)
    BY <1>3
  <2> DEFINE s == [post[q] EXCEPT !.todo = @ \ {i}]
  <2>2. post' = [post EXCEPT ![q] = s]
    BY <2>1, Zenon DEF Correlate
  <2>3. \A c \in correlations' \ correlations : c = <<q, i>>
    BY <2>1 DEF Correlate
  <2>4. /\ s \in PostState /\ s.todo = post[q].todo \ {i}
        /\ s.pc = post[q].pc /\ s.project = post[q].project /\ s.at = post[q].at
    BY <1>1 DEF PostState
  <2> HIDE DEF s
  <2>5. /\ post' \in [Posts -> PostState]
        /\ \A p \in Posts : KeepsPost(p)
        /\ post'[q] = s /\ \A p \in Posts \ {q} : post'[p] = post[p]
    BY <2>2, <2>4, OnePost
  <2>6. \A p \in Posts : post'[p].todo \ post[p].todo = {}
    BY <2>4, <2>5
  <2>7. \A c \in correlations' \ correlations : c[1] \in Posts /\ c[2] \in post[c[1]].todo
    BY <2>1, <2>3
  <2> QED
    BY <2>5, <2>6, <2>7, PostsCorrelated
<1>4. CASE CloseRows(q)
  <2> DEFINE s == [post[q] EXCEPT !.pc = "done"]
  <2>1. post' = [post EXCEPT ![q] = s] /\ UNCHANGED correlations
    BY <1>4, Zenon DEF CloseRows
  <2>2. /\ s \in PostState /\ s.todo = post[q].todo /\ s.pc = "done"
        /\ s.project = post[q].project /\ s.at = post[q].at
    BY <1>1 DEF PostState, PostSteps
  <2> HIDE DEF s
  <2>3. /\ post' \in [Posts -> PostState]
        /\ \A p \in Posts : KeepsPost(p)
        /\ post'[q] = s /\ \A p \in Posts \ {q} : post'[p] = post[p]
    BY <2>1, <2>2, OnePost
  <2>4. \A p \in Posts : post'[p].todo \ post[p].todo = {}
    BY <2>2, <2>3
  <2> QED
    BY <2>1, <2>3, <2>4, PostsCorrelated
<1> QED
  BY <1>2, <1>3, <1>4 DEF CorrelateSteps

LEMMA CrashCorrelated ==
  ASSUME Stored, Correlated, [Next]_vars, Crash
  PROVE  Correlated'
<1>1. /\ UNCHANGED correlations
      /\ post' = [p \in Posts |-> IF post[p].pc \in {"stored", "reading"}
                                    THEN [post[p] EXCEPT !.pc = "cut", !.todo = {}] ELSE post[p]]
  BY DEF Crash
<1>2. ASSUME NEW p \in Posts
      PROVE  post'[p] \in PostState /\ KeepsPost(p) /\ post'[p].todo \subseteq post[p].todo
  <2>1. post[p] \in PostState
    BY DEF Correlated
  <2> QED
    BY <1>1, <2>1 DEF PostState, PostSteps, KeepsPost
<1>3. post' \in [Posts -> PostState]
  BY <1>1, <1>2
<1> QED
  BY <1>1, <1>2, <1>3, PostsCorrelated

LEMMA CorrelatedStep ==
  ASSUME Stored, Correlated, [Next]_vars
  PROVE  Correlated'
<1>1. CASE \E p \in Posts : CorrelateSteps(p)
  BY <1>1, CorrelateCorrelated
<1>2. CASE \E p \in Posts : PostSignal(p)
  BY <1>2, SignalCorrelated
<1>3. CASE Crash
  BY <1>3, CrashCorrelated
<1>4. CASE UNCHANGED <<post, correlations>>
  <2>1. \A p \in Posts : KeepsPost(p) /\ post'[p].todo = post[p].todo
    BY <1>4 DEF KeepsPost
  <2>2. post' \in [Posts -> PostState]
    BY <1>4 DEF Correlated
  <2> QED
    BY <1>4, <2>1, <2>2, PostsCorrelated
<1>5. ASSUME NEW u, SaveSteps(u) \/ FailSave(u) \/ \E i \in 1..MaxIncidents : UploadArtifact(u, i)
      PROVE  UNCHANGED <<post, correlations>>
  BY <1>5 DEF SaveSteps, OpenFile, WriteFile, InsertArtifact, FailSave, UploadArtifact
<1>6. ASSUME NEW pr, NEW t, NEW i, Ingest(pr, t) \/ Delete(i) PROVE UNCHANGED <<post, correlations>>
  BY <1>6 DEF Ingest, Delete
<1>7. StartUp \/ UNCHANGED vars => UNCHANGED <<post, correlations>>
  BY DEF StartUp, vars, recordVars
<1> QED
  BY <1>1, <1>2, <1>3, <1>4, <1>5, <1>6, <1>7 DEF Next

(* What is listed for an incident was uploaded to that very failure; its    *)
(* file is there, whole, unless another upload of that name to it opened it *)
(* at the same time or later, and never holds a thing of another failure;   *)
(* and what is listed as correlated with a signal is a failure of the       *)
(* signal's project and time: for any number of uploads of any names, of    *)
(* posts and of connections, and through any deletions, failed statements   *)
(* and deaths.                                                              *)
THEOREM ShownBelongs == Spec => []ShownAsUploaded
<1>1. Init => Stored /\ Saved /\ Owned /\ Correlated
  <2>1. Init => Stored
    BY DEF Init, Stored
  <2>2. ASSUME Init PROVE Saved /\ Owned
    <3>1. \A u \in Uploads : upload[u] = Idle /\ upload[u].pc = "idle"
      BY <2>2 DEF Init, Idle
    <3>2. upload \in [Uploads -> UploadState]
      BY <2>2 DEF Init, Idle, UploadSteps, UploadState
    <3>3. artifacts = {} /\ own = {} /\ DOMAIN blobs = {}
      BY <2>2 DEF Init
    <3> QED
      BY <3>1, <3>2, <3>3 DEF Saved, Owned, Accepted, Uploading
  <2>3. ASSUME Init PROVE Correlated
    <3>1. post \in [Posts -> PostState] /\ \A p \in Posts : post[p].todo = {}
      BY <2>3 DEF Init, Unposted, PostState, PostSteps
    <3>2. correlations = {}
      BY <2>3 DEF Init
    <3> QED
      BY <3>1, <3>2 DEF Correlated
  <2> QED
    BY <2>1, <2>2, <2>3
<1>2. Stored /\ Saved /\ Owned /\ Correlated /\ [Next]_vars => (Stored /\ Saved /\ Owned /\ Correlated)'
  BY StoredStep, SavedStep, CorrelatedStep
<1>3. Stored /\ Saved /\ Owned /\ Correlated => ShownAsUploaded
  <2> SUFFICES ASSUME Stored, Saved, Owned, Correlated PROVE ShownAsUploaded
    OBVIOUS
  <2> DEFINE OfFailure(i) == {u \in Uploads : upload[u].serial = incidents[i].serial}
  <2>1. ASSUME NEW i \in DOMAIN incidents, NEW a \in Listed(i)
        PROVE  /\ a.upload \in OfFailure(i)
               /\ a.upload \in own => <<i, a.name>> \in DOMAIN blobs /\ blobs[<<i, a.name>>] = a.upload
               /\ <<i, a.name>> \in DOMAIN blobs => blobs[<<i, a.name>>] \in {None, Mixed} \cup OfFailure(i)
    <3>1. a \in artifacts /\ a.incident = i
      BY <2>1 DEF Listed
    <3>2. OfUpload(a)
      BY <3>1 DEF Saved
    <3>3. Uploading(a.upload) /\ Path(a.upload) = <<i, a.name>>
      BY <3>1, <3>2 DEF OfUpload, Uploading, Path
    <3>4. incidents[i].serial = i
      BY DEF Stored
    <3>5. a.upload \in OfFailure(i)
      BY <3>1, <3>2, <3>3, <3>4 DEF OfUpload, Saved, Accepted
    <3>6. a.upload \in own => <<i, a.name>> \in DOMAIN blobs /\ blobs[<<i, a.name>>] = a.upload
      BY <3>2, <3>3 DEF Owned, Filed, OfUpload
    <3>7. ASSUME NEW w \in Uploads, Uploading(w), Path(w) = <<i, a.name>> PROVE w \in OfFailure(i)
      BY <3>4, <3>7 DEF Saved, Accepted, Path
    <3>8. <<i, a.name>> \in DOMAIN blobs => blobs[<<i, a.name>>] \in {None, Mixed} \cup OfFailure(i)
      <4> HIDE DEF OfFailure
      <4> QED
        BY <3>7 DEF Saved, OfPath
    <3> QED
      BY <3>5, <3>6, <3>8
  <2>2. ASSUME NEW c \in ListedCorrelations
        PROVE  /\ incidents[c[2]].project = post[c[1]].project
               /\ incidents[c[2]].at - post[c[1]].at \in -15..15
    BY DEF ListedCorrelations, Correlated, Correct
  <2> QED
    BY <2>1, <2>2 DEF ShownAsUploaded
<1> QED
  BY <1>1, <1>2, <1>3, PTL DEF Spec

==============================================================================
