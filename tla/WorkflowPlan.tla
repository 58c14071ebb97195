---------------------------- MODULE WorkflowPlan ----------------------------
(* The dry run of the workflow editor (pkg/integrations/workflow_engine.go), *)
(* a recursion of its own, beside the walk that runs a workflow.             *)
EXTENDS Workflow

(* What a dry run has passed and listed so far.                            *)
Ids(d) == DOMAIN d.nodes \cup {d.entry} \cup {d.edges[i].to : i \in DOMAIN d.edges}
PathsOf(d) == {d.nodes[n].path : n \in {m \in DOMAIN d.nodes : d.nodes[m].type = "action"}}
Plans(d) == [visited : SUBSET Ids(d), actions : Seq(PathsOf(d))]

Passed(d, n, allowed, plan) ==
  [visited |-> plan.visited \cup {n},
   actions |-> IF n \in DOMAIN d.nodes /\ d.nodes[n].type = "action" /\ d.nodes[n].path \in allowed
               THEN Append(plan.actions, d.nodes[n].path) ELSE plan.actions]

(* The loop over a node's successors: each is walked with what the one     *)
(* before it has left.                                                     *)
WalkEach(walk, ns, plan) ==
  LET After[i \in 0 .. Len(ns)] == IF i = 0 THEN plan ELSE walk[ns[i]][After[i - 1]]
  IN  After[Len(ns)]

(* walkPlan, by how deep it may still go: no deeper than there are nodes.  *)
WalkPlan(d, alert, allowed) ==
  LET Walk[depth \in 0 .. Cardinality(Ids(d))] ==
        [n \in Ids(d) |-> [plan \in Plans(d) |->
           IF depth = 0 \/ n \in plan.visited THEN plan
           ELSE WalkEach(Walk[depth - 1], Successors(d, n, alert), Passed(d, n, allowed, plan))]]
  IN  Walk

PlanExecution(d, alert, allowed) ==
  WalkPlan(d, alert, allowed)[Cardinality(Ids(d))][d.entry][[visited |-> {}, actions |-> <<>>]].actions

(* The editor's dry run tells what will happen: the actions a workflow has *)
(* run when it ends are those that the simulation lists for its alert, in  *)
(* their order and as often, without the ones whose manifest is missing.   *)
(* Two separate recursions, one of them interleaved with every change an   *)
(* administrator can make, give one list.  So for one allow-list and one   *)
(* set of facts: the editor has no field for an alert's console logs.  A   *)
(* plugin disabled since the document was checked is on both lists.        *)
PlanIsRun ==
  job.step = "walked" =>
    job.ran = Those(PlanExecution(job.doc, job.alert, job.context.allowed), DOMAIN registries[job.reg])
=============================================================================
