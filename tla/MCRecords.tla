----------------------------- MODULE MCRecords ------------------------------
(* Files of three ages: none; the tables of InitDB alone, with roles of    *)
(* before the migration; and pipeline_runs from before its later columns.  *)
EXTENDS Records, TLC

OldTables ==
  {"users", "teams", "user_teams", "projects", "incidents", "finops_settings", "enterprise_config"}
NewFile == [columns |-> {}, roles |-> {}, rows |-> {}]
OldFile == [columns |-> OldTables \X {"id"}, roles |-> {"admin", "operator", "Operator", "viewer", "Viewer"},
            rows |-> {"teams", "users", "finops_settings"}]
RunsFile == [columns |-> ((OldTables \cup {"incident_artifacts", "pipeline_runs"}) \X {"id"})
                           \cup {<<"pipeline_runs", "outcome">>},
             roles |-> {"admin", "viewer"}, rows |-> {"teams", "users", "finops_settings"}]
MCFiles == {NewFile, OldFile, RunsFile}
MCNewFile == {NewFile}

(* Two uploads of one name.                                                *)
MCFileName == [u \in Uploads |-> "shot"]
UploadSymmetry == Permutations(Uploads)
MCTimes == {0, 30}
=============================================================================
