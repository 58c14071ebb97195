------------------------------ MODULE Workflow ------------------------------
(* A gateway's remediation: the visual workflow (pkg/integrations          *)
(* workflow.go and workflow_engine.go, pkg/api/server/workflow_handlers.go *)
(* and runbooks_handlers.go), the alert rules (engine.go), what a gateway  *)
(* routes where (pkg/core/project_routing.go, project_handlers.go), and    *)
(* what an integration sends (runners.go), over the registry.              *)
(*                                                                         *)
(* One alert is followed at a time.  Its context is read in two statements *)
(* when the delivery arrives, its workflow when the incident has been      *)
(* stored, and the nodes are walked one at a time, while administrators    *)
(* change all three.  An alert is the set of facts that conditions and     *)
(* triggers ask for.                                                       *)
(* Environment variables, which override both the gateway's and the        *)
(* manifest's values, are taken to be unset.                               *)
EXTENDS Registry

(* A manifest's path is named after its integration.                      *)
CONSTANTS Alerts,      \* sets of facts
          Keys,        \* the Jira projects that alerts name
          TriggerOn,   \* [Paths -> sets of facts]
          Canvas,      \* documents drawn by users
          Routings     \* what users save for a gateway: [entries, legacy]

Blank == "blank"
DefaultChannel == "general"
NoDoc == [enabled |-> FALSE, entry |-> "none", nodes |-> <<>>, edges |-> <<>>]

VARIABLES gateway,   \* projects: its routing entries and legacy columns
          stored,    \* projects.sre_workflow_json
          save,      \* the document a request has checked and will store
          job        \* the alert followed

workflowVars == <<gateway, stored, save, job>>
vars == <<registryVars, workflowVars>>

-----------------------------------------------------------------------------
(* Documents.                                                              *)
Trigger == [type |-> "trigger"]
Condition(op, facts) == [type |-> "condition", op |-> op, of |-> facts]
Action(p) == [type |-> "action", path |-> p]
Edge(from, to, when) == [from |-> from, to |-> to, when |-> when]

(* A document was JSON: its nodes and edges are finite in number.          *)
IsDocument(d) ==
  IsFiniteSet(DOMAIN d.nodes) /\ d.edges \in Seq({d.edges[i] : i \in DOMAIN d.edges})
ASSUME CanvasAssumption == \A d \in Canvas : IsDocument(d)

(* Every template is a trigger, a condition and actions in a row.          *)
Template(op, facts, first, then) ==
  [enabled |-> TRUE, entry |-> "start",
   nodes |-> [n \in {"start", "cond", "first"} \cup (IF then = Blank THEN {} ELSE {"then"}) |->
                CASE n = "start" -> Trigger [] n = "cond" -> Condition(op, facts)
                  [] n = "first" -> Action(first) [] n = "then" -> Action(then)],
   edges |-> <<Edge("start", "cond", ""), Edge("cond", "first", "true")>>
               \o (IF then = Blank THEN <<>> ELSE <<Edge("first", "then", "")>>)]

RunbookCatalog ==
  {Template("text", {"502"}, "k8s", "slack"),
   Template("tag", {"flaky"}, "slack", "jira"),
   Template("tag", {"perf"}, "datadog", "slack"),
   Template("or", {"oom", "crashloop"}, "k8s", Blank),
   Template("text", {"timeout"}, "webhook", Blank)}

(* EvaluateCondition, for conditions one level deep.                       *)
Holds(c, alert) ==
  CASE c.op = "and" -> c.of # {} /\ c.of \subseteq alert
    [] OTHER -> c.of \cap alert # {}

(* The elements of s that are in S, in their order.                        *)
Those(s, S) ==
  LET Among[i \in 0 .. Len(s)] ==
        IF i = 0 THEN <<>> ELSE IF s[i] \in S THEN Append(Among[i - 1], s[i]) ELSE Among[i - 1]
  IN  Among[Len(s)]

OutgoingEdges(d, n, when) ==
  LET leaves == {i \in DOMAIN d.edges : d.edges[i].from = n /\ d.edges[i].when = when}
      picked == Those(d.edges, {d.edges[i] : i \in leaves})
  IN  [i \in DOMAIN picked |-> picked[i].to]

(* A name that no node has leads nowhere.                                  *)
Successors(d, n, alert) ==
  IF n \notin DOMAIN d.nodes THEN <<>>
  ELSE IF d.nodes[n].type = "condition"
       THEN OutgoingEdges(d, n, IF Holds(d.nodes[n], alert) THEN "true" ELSE "false")
       ELSE OutgoingEdges(d, n, "")

Targets(d, ns) == {d.edges[i].to : i \in {j \in DOMAIN d.edges : d.edges[j].from \in ns}}
Reachable(d, n) ==
  LET Within[k \in 0 .. Len(d.edges)] ==
        IF k = 0 THEN Targets(d, {n}) ELSE Within[k - 1] \cup Targets(d, Within[k - 1])
  IN  Within[Len(d.edges)]
HasCycle(d) == \E n \in {d.entry} \cup Reachable(d, d.entry) : n \in Reachable(d, n)

(* validateWorkflow.  An empty allow-list is no restriction here; when the *)
(* workflow runs it forbids every action.                                  *)
ValidateWorkflow(d, known, allowed) ==
  /\ d.entry \in DOMAIN d.nodes /\ d.nodes[d.entry].type = "trigger"
  /\ ~HasCycle(d)
  /\ \A n \in DOMAIN d.nodes :
       d.nodes[n].type = "action" =>
         /\ d.nodes[n].path \in DOMAIN known
         /\ IsActiveForRouting(known[d.nodes[n].path])
         /\ allowed # {} => d.nodes[n].path \in allowed
  /\ \A i \in DOMAIN d.edges : {d.edges[i].from, d.edges[i].to} \subseteq DOMAIN d.nodes

IsWorkflowActive(d) == d.enabled /\ d.entry # "none" /\ DOMAIN d.nodes # {}

-----------------------------------------------------------------------------
(* Slack, Jira and Teams have a column each in projects, beside the        *)
(* entries; ProjectAlertContext takes an entry's value before a column's.  *)
FromGateway == {"slack", "jira", "teams"}
Column == FromGateway \cap Paths

Routed(g, p) ==
  IF p \in DOMAIN g.entries /\ g.entries[p] # Blank THEN g.entries[p]
  ELSE IF p \in Column THEN g.columns[p] ELSE Blank

Allowed(g) ==
  IF DOMAIN g.entries # {} THEN DOMAIN g.entries ELSE {p \in Column : g.columns[p] # Blank}

(* SyncLegacyRoutingColumns; what the form sends for a column without entry. *)
SyncedColumns(r) ==
  [p \in Column |-> IF p \in DOMAIN r.entries /\ r.entries[p] # Blank THEN r.entries[p] ELSE r.legacy[p]]

(* A context: the value of each integration, and the paths that may run.   *)
ProjectAlertContext(g) == [to |-> [p \in Paths |-> Routed(g, p)], allowed |-> Allowed(g)]

(* No gateway could be read: no value, and the nil list, which forbids     *)
(* nothing.                                                                *)
Unread == [to |-> [p \in Paths |-> Blank], allowed |-> Paths]

(* The columns that the delivery has read first are put over the values.   *)
NotOverlaid(columns, to) == to  \* mutant of Overlaid: the columns are not put over
Overlaid(columns, to) ==
  [p \in Paths |-> IF p \in Column /\ columns[p] # Blank THEN columns[p] ELSE to[p]]

(* The key that an alert names stands in for a gateway's missing one.      *)
Keyed(to, key) == [p \in DOMAIN to |-> IF p = "jira" /\ to[p] = Blank THEN key ELSE to[p]]

-----------------------------------------------------------------------------
(* The runners, by what they take their destination from.  Slack, Jira and *)
(* Teams put the gateway's value before the manifest's; the others never   *)
(* look at the gateway, although its form offers them fields too           *)
(* (routing_schema.go).  Without a value nothing is sent, except that      *)
(* Slack has a default channel.  Kubernetes is never called.               *)
FromManifest == {"pagerduty", "opsgenie", "victorops", "webhook", "datadog"}
MailOrDispatch == {"sendgrid", "smtp", "github"}

MergedConfig(p, m, to) == IF to[p] # Blank THEN to[p] ELSE m.config

Destination(p, m, to) ==
  CASE p \in FromGateway ->
         IF MergedConfig(p, m, to) = Blank /\ p = "slack" THEN DefaultChannel ELSE MergedConfig(p, m, to)
    [] p \in FromManifest \cup MailOrDispatch -> m.config
    [] OTHER -> Blank

RunManifest(p) ==
  LET m == registries[job.reg][p]
  IN  [job EXCEPT !.ran = Append(@, p), !.sent = @ \cup {<<p, Destination(p, m, job.context.to)>>}]

NoJob == [step |-> "none"]

Init ==
  /\ InitRegistry
  /\ gateway \in {[entries |-> r.entries, columns |-> SyncedColumns(r)] : r \in Routings}
  /\ stored = NoDoc
  /\ save = NoDoc
  /\ job = NoJob

(* Projects: POST and PUT.  Entries must be of plugins active for routing. *)
SaveProject(r) ==
  /\ engine # 0 /\ Requested
  /\ \A p \in DOMAIN r.entries :
       p \in DOMAIN registries[engine] /\ IsActiveForRouting(registries[engine][p])
  /\ gateway' = [entries |-> r.entries, columns |-> SyncedColumns(r)]
  /\ UNCHANGED <<pluginVars, faults, stored, save, job>>

(* PUT .../workflow and POST /api/runbooks/apply ask the same of a document *)
(* that is enabled; a draft is stored as it is.  When the gateway cannot   *)
(* be read, nothing is restricted.                                         *)
PutWorkflow(d) ==
  /\ engine # 0 /\ save = NoDoc /\ Requested
  /\ \/ (d.enabled => ValidateWorkflow(d, registries[engine], Allowed(gateway))) /\ UNCHANGED faults
     \/ (d.enabled => ValidateWorkflow(d, registries[engine], {})) /\ Fails
  /\ save' = d
  /\ UNCHANGED <<pluginVars, gateway, stored, job>>

ApplyRunbook == \E d \in RunbookCatalog : PutWorkflow(d)

SaveProjectWorkflow ==
  /\ save # NoDoc
  /\ stored' = save
  /\ save' = NoDoc
  /\ UNCHANGED <<registryVars, gateway, job>>

ClearProjectWorkflow ==
  /\ stored # NoDoc
  /\ stored' = NoDoc
  /\ UNCHANGED <<registryVars, gateway, save, job>>

-----------------------------------------------------------------------------
(* The delivery arrives.  Its key's gateway is read, of which the columns  *)
(* are kept (what more it said, asked has for the property); an error here *)
(* refuses the delivery.                                                   *)
ReadColumns(alert) ==
  /\ job = NoJob
  /\ job' = [step |-> "arrived", alert |-> alert, asked |-> gateway]
  /\ UNCHANGED <<registryVars, gateway, stored, save>>

(* By its name the gateway is read again, as it is by now, or is not: an   *)
(* error is not told.                                                      *)
ReadContext ==
  /\ job.step = "arrived"
  /\ \E c \in {ProjectAlertContext(gateway), Unread} :
       /\ job' = [step |-> "stored", alert |-> job.alert, asked |-> job.asked,
                  context |-> [to |-> Overlaid(job.asked.columns, c.to), allowed |-> c.allowed]]
       /\ \/ c = ProjectAlertContext(gateway) /\ UNCHANGED faults
          \/ c = Unread /\ Fails
  /\ UNCHANGED <<pluginVars, requests, gateway, stored, save>>

(* RunPostIngestRemediation: the engine and the workflow of this moment,   *)
(* the alert's own key or an earlier alert's, or none.                     *)
RunPostIngestRemediation ==
  /\ job.step = "stored" /\ engine # 0
  /\ \E key \in {Blank} \cup Keys :
       LET context == [to |-> Keyed(job.context.to, key), allowed |-> job.context.allowed]
       IN  job' = IF IsWorkflowActive(stored)
                  THEN [step |-> "walk", alert |-> job.alert, asked |-> job.asked, context |-> context, reg |-> engine,
                        ran |-> <<>>, sent |-> {}, todo |-> <<stored.entry>>, doc |-> stored, visited |-> {}]
                  ELSE [step |-> "rules", alert |-> job.alert, asked |-> job.asked, context |-> context, reg |-> engine,
                        ran |-> <<>>, sent |-> {}, todo |-> {}]
  /\ UNCHANGED <<registryVars, gateway, stored, save>>

(* walk: the next node, in the order of the recursion.                     *)
Runs(n) ==
  /\ job.doc.nodes[n].type = "action"
  /\ job.doc.nodes[n].path \in job.context.allowed \cap DOMAIN registries[job.reg]

\* Mutant of VisitNode: a node is not marked as visited.
VisitNodeAgain ==
  /\ job.step = "walk" /\ job.todo # <<>>
  /\ LET n == Head(job.todo)
     IN  job' = [(IF n \in DOMAIN job.doc.nodes /\ Runs(n) THEN RunManifest(job.doc.nodes[n].path) ELSE job)
                   EXCEPT !.todo = Successors(job.doc, n, job.alert) \o Tail(job.todo)]
  /\ UNCHANGED <<registryVars, gateway, stored, save>>

VisitNode ==
  /\ job.step = "walk" /\ job.todo # <<>>
  /\ LET n == Head(job.todo)
     IN  job' = IF n \in job.visited THEN [job EXCEPT !.todo = Tail(@)]
                ELSE [(IF n \in DOMAIN job.doc.nodes /\ Runs(n) THEN RunManifest(job.doc.nodes[n].path) ELSE job)
                        EXCEPT !.visited = @ \cup {n}, !.todo = Successors(job.doc, n, job.alert) \o Tail(@)]
  /\ UNCHANGED <<registryVars, gateway, stored, save>>

EndWalk ==
  /\ job.step = "walk" /\ job.todo = <<>>
  /\ job' = [job EXCEPT !.step = "walked"]
  /\ UNCHANGED <<registryVars, gateway, stored, save>>

(* EvaluateAlertRules picks the manifests; each is then a job of its own,  *)
(* which reads its manifest when it runs.                                  *)
Matches(p) ==
  /\ p \in DOMAIN registries[job.reg]
  /\ registries[job.reg][p].status = "active" /\ registries[job.reg][p].autoRun
  /\ p \in job.context.allowed
  /\ TriggerOn[p] \cap job.alert # {}

EvaluateAlertRules ==
  /\ job.step = "rules"
  /\ job' = [job EXCEPT !.step = "fan", !.todo = {p \in Paths : Matches(p)}]
  /\ UNCHANGED <<registryVars, gateway, stored, save>>

RunMatch ==
  /\ job.step = "fan" /\ job.todo # {}
  /\ \E p \in job.todo : job' = [RunManifest(p) EXCEPT !.todo = @ \ {p}]
  /\ UNCHANGED <<registryVars, gateway, stored, save>>

(* The job is over; the next alert is followed.                            *)
EndJob ==
  /\ job.step = "walked" \/ (job.step = "fan" /\ job.todo = {})
  /\ job' = NoJob
  /\ UNCHANGED <<registryVars, gateway, stored, save>>

Restart ==
  /\ RestartRegistry
  /\ save' = NoDoc /\ job' = NoJob
  /\ UNCHANGED <<gateway, stored>>

Next ==
  \/ RegistryStep /\ UNCHANGED workflowVars
  \/ \E r \in Routings : SaveProject(r)
  \/ \E d \in Canvas : PutWorkflow(d)
  \/ ApplyRunbook \/ SaveProjectWorkflow \/ ClearProjectWorkflow
  \/ \E a \in Alerts : ReadColumns(a)
  \/ ReadContext
  \/ RunPostIngestRemediation \/ VisitNode \/ EndWalk
  \/ EvaluateAlertRules \/ RunMatch \/ EndJob \/ Restart

Spec == Init /\ [][Next]_vars

-----------------------------------------------------------------------------
(* What Slack, Jira and Teams are sent goes where the gateway said when    *)
(* the alert arrived, whatever has been saved since for the gateway or the *)
(* plugin, and though the second read of the gateway may fail or find it   *)
(* changed, and an alert may bring a key of its own: another team's        *)
(* channel is never used.  Which plugins run has no such promise: a failed *)
(* read allows them all.                                                   *)
SentWhereRouted ==
  "sent" \in DOMAIN job =>
    \A s \in job.sent :
      s[1] \in Column /\ Routed(job.asked, s[1]) # Blank => s[2] = Routed(job.asked, s[1])
=============================================================================
