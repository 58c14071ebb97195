----------------------------- MODULE MCWorkflow -----------------------------
(* Two plugins, each of which has a column, and three drawings.            *)
EXTENDS WorkflowPlan, TLC

CONSTANTS a1, a2, v1

MCPaths == {"slack", "jira"}
MCAdmins == {a1, a2}
AdminSymmetry == Permutations(MCAdmins)
MCViews == {v1}
MCValues == {"v2"}
MCKeys == {"KEY"}
MCTriggerOn == [p \in MCPaths |-> {"502"}]
MCShipped == [p \in MCPaths |->
  [status |-> "active", autoRun |-> p = "slack", routingEnabled |-> TRUE, config |-> Blank]]
MCAlerts == {{"502"}, {"flaky"}}

Both == [entries |-> [p \in MCPaths |-> IF p = "slack" THEN "v1" ELSE Blank],
         legacy |-> [p \in MCPaths |-> Blank]]
Columns == [entries |-> <<>>, legacy |-> [p \in MCPaths |-> IF p = "slack" THEN "v1" ELSE Blank]]
Nothing == [entries |-> <<>>, legacy |-> [p \in MCPaths |-> Blank]]
MCRoutings == {Both, Columns, Nothing}

(* Two branches that meet in one action; a loop; a loop that is a draft.   *)
Diamond == [enabled |-> TRUE, entry |-> "s",
  nodes |-> "s" :> Trigger @@ "x" :> Action("slack") @@ "y" :> Condition("and", {"502"}) @@ "z" :> Action("slack"),
  edges |-> <<Edge("s", "x", ""), Edge("s", "y", ""), Edge("x", "z", ""), Edge("y", "z", "true")>>]
Loop == [enabled |-> TRUE, entry |-> "s",
  nodes |-> "s" :> Trigger @@ "x" :> Action("slack"),
  edges |-> <<Edge("s", "x", ""), Edge("x", "s", "")>>]
Draft == [Loop EXCEPT !.enabled = FALSE]
MCCanvas == {Diamond, Loop, Draft}
=============================================================================
