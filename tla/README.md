# Verification of QA Capsule (community edition)

TLA+ models of the parts of QA Capsule where concurrency, failures and ordering
decide whether the product is right, the TLC configurations that check them on
small instances, and TLAPS proofs of their main properties for every value of
the constants. Every definition is translated from the Go code under `src/`;
`PROJECT.json` names the lines each one stands for.

    tlc -workers 2 -config MCIngestQueue.cfg MCIngestQueue
    tlapm IngestQueue_proofs.tla

## 1. The system

QA Capsule is one Go process with an SQLite database (a pool of two
connections, `pkg/core/db.go:32`). CI jobs post test reports to a webhook; the
server stores an incident per failure, tags flaky tests, closes incidents when
a test passes again, and starts automatic remediations.

| component | state | operations | interacts with |
|---|---|---|---|
| Webhook and ingest queue (`core/ingest_queue.go`, `server/webhook_handlers.go`) | a channel of batches, three atomic counters | parse and enqueue (202/503), take, process, count | handlers send, ingest workers receive |
| Alert processing (`core/ingest.go`, `processIngestBatch`) | tables `incidents`, `test_execution_metrics`, `pipeline_runs` | deduplicate, auto-resolve, classify, insert, reconcile flaky tags, finalize the run | shares the tables with every other worker and with the users who resolve and delete incidents; hands every new incident to the remediation |
| Report parsing (`core/parser.go`, `unified_reporter.go`, `unified_report.go`) | none | JSON, JUnit and merged reports to alerts and a test matrix | feeds the queue |
| Pipeline runs (`core/execution.go`, `server/execution_handlers.go`) | one row per run: outcome, flags, totals, the report as JSON | upsert when a batch is done, patch of the flags | ingest workers against leads who edit flags |
| Flaky and performance detection (`core/ingest.go`, `performance.go`, `fingerprint.go`) | metric samples | pass/fail oscillation, timing baseline | called from alert processing |
| Remediation pool and alert rules (`integrations/async.go`, `engine.go`, `core/remediation.go`) | a channel of jobs, 32 workers | enqueue, run, fan out one job per matching manifest | ingest workers and handlers send; jobs send to their own pool |
| Workflow engine (`integrations/workflow.go`, `workflow_engine.go`, `server/workflow_handlers.go`, `runbooks_handlers.go`) | a graph per gateway, in its row | validate, store, dry run, execute | runs inside a remediation job; its actions are manifests of the registry |
| Plugin registry and runners (`integrations/registry.go`, `runners.go`) | manifests in memory and on disk | load, update, toggle, execute | called by rules, workflows and users |
| Teams and access (`core/teams_membership.go`, `server/team_handlers.go`) | a forest of teams, memberships, opt-outs | create, move, delete, assign, inherit, remove | requests of several administrators |
| Artifacts (`service/artifacts.go`, `storage/local.go`) | blobs and their rows | answer, save in the background, list | incidents that come and go |
| External signals (`core/external_signals.go`) | signals and what they correlate with | store, correlate | incidents; the two connections of the pool |
| Schema (`core/db.go`, `schema_migrate.go`, `superapp.go`) | the columns, roles and seed rows of the file | a script of statements at every start | everything that names a column |
| Self-healing (`core/locator_healing.go`, `server/mcp_heal.go`, `healing_handlers.go`) | none | find the test, find a new locator, rewrite the test, propose | agents over MCP, the web interface, a language model |
| GitOps remediation (`core/gitops_remediation.go`, `healing_repo.go`) | patch submissions, records of interventions | submit, six calls to GitHub, link | GitHub, incidents |
| Quarantine (`pkg/quarantine`) | stability statistics and entries per test | record a transition, quarantine, lift | switched off in this edition: `InitSuperApp` leaves the engine nil |
| AI analysis (`pkg/ai`) | a provider's configuration | call a model | self-healing |
| Authentication, rate limits (`server/ratelimit.go`, `jwt.go`) | windows per client, tokens | allow, sign, verify | every request |
| Reports, DORA, FinOps, charts, health, preferences; command line tools; web UI | none of their own | queries, clients | |

What is hard: no request of this server opens a transaction that spans its
statements. Several ingest workers run the statements of `ProcessAlert` against
the same rows; users and administrators change those rows meanwhile; a CI
system posts the same report again, in any order; the process may die between
any two statements and the queue is in memory; every statement error is logged
and ignored; two bounded channels feed one another, and a pool of two
connections feeds everybody. A manifest exists in memory and in a file, a blob
and its row are written apart, and GitHub's answer may be lost though it did
what it was asked.

What makes each part right:

* queue: nothing that was answered 202 is duplicated, forgotten or starved
  while the process lives, a refusal happens only at a full queue, and the
  counters tell the truth;
* alert processing: no failure disappears by deduplication, no run gets two
  open incidents of a test, repeated failures end up tagged, a pass closes what
  was open, an alert is remediated with its own Jira key;
* pipeline runs: a failure is never overwritten, and an edit of the flags
  changes the flags and nothing else;
* remediation pool: no job is dropped, run twice or left waiting for ever;
* workflow and registry: the plan a user is shown is what is executed, a
  notification goes where the gateway said when the alert came, a change that
  was answered with success is on the disk;
* teams: no team below itself, an opt-out holds, a direct membership stays one;
* records: what is listed for an incident was uploaded for, or fired around,
  that very failure; a start that nothing disturbed repairs the schema;
* self-healing: a broken locator is not proposed as its own replacement, a
  proposal removes the failure it is for, two tools give one answer;
* remediation: one request makes at most one pull request, with what it was
  asked for, and a submission is linked to its own code's pull request.

## 2. What is modelled

| module | models | role |
|---|---|---|
| `BatchDelivery` | what the queue promises a client | abstract specification |
| `IngestQueue` | channel, handlers, workers, counters, crash | implements `BatchDelivery` |
| `IngestPipeline` | `processIngestBatch` and `ProcessAlert`, statement by statement, users, crashes, failing statements, time | core of the system |
| `RemediationPool` | `RunRemediationAsync`, its workers, the fan-out of `EvaluateAlertRules` | stands alone: its callers are the ends of `IngestPipeline`'s `Launch` |
| `PipelineRun` | one row of `pipeline_runs`: the upsert of a batch, the requests that patch the flags | the whole row; `IngestPipeline` has its outcome only |
| `Registry` | manifests in files and in memory, reloads, updates, crashes | the ground `Workflow` stands on |
| `Workflow` | validation, storage and walk of a gateway's graph; the alert rules; where a runner sends | composes with `Registry` (EXTENDS), all steps interleaved |
| `WorkflowPlan` | the dry run of the editor | a recursive function of depth, node and plan beside `Workflow` (EXTENDS), which it is compared with |
| `Teams` | the tree, memberships, inheritance and opt-outs, statement by statement | stands alone |
| `Schema` | the script a start runs on a database file of any age | the ground `Records` stands on |
| `Records` | incidents with their artifacts and correlated signals, the connection pool | composes with `Schema` (EXTENDS): only tables a start left can be written |
| `LocatorHealing` | the search for a test, a new locator, a rewritten test; the tools that offer them | pure algorithms over all small inputs |
| `RemediationPR` | what `CreateRemediationPR` promises a reviewer | abstract specification |
| `Healing` | the six calls to GitHub, the tables of submissions and interventions, lost answers, crashes | implements `RemediationPR` |
| `*_proofs` | the TLAPS proofs about the module they are named after | |
| `MC*` | the values of the constants, nothing else | |

Operators whose comment begins with "Mutant of" are the variants of an action a
plausible bug would produce. They are not part of any specification;
`PROJECT.json` pairs each of them with the property that rules it out.

### IngestQueue

`handler[r]` follows `EnqueueIngest` and the webhook handler: `Send` is the
`select` that succeeds, `Accept` the later `atomic.AddInt64` and the 202,
`Refuse` the `default` case. A worker goes `receive`, `process`, `decrement`,
`count` as in `ingestWorker`. The gauge is raised after the send, so a worker
may lower it first: the model has that interleaving, and `GaugeExact` says by
how much the gauge is off at any moment. `Crash` empties the channel and the
workers, and starts the process again; handlers in flight get no answer.

### IngestPipeline

A step is one SQL statement (or the loop over the rows it returned, one row at
a time), because that is what SQLite makes atomic. `pc[w]` names the next
statement, `work[w]` the local variables that live across statements: the ids
still to update, the routing map's Jira key, the flaky verdict.

* data: a test is its normalized name; a name also has a form (plain, with a
  reporter's prefix, tagged `[FLAKY]`), since the duplicate check compares
  forms. A batch is the sequence of alerts to process and the matrix of all
  cases; `JSONBatch` and `JUnitBatch` build them the way the two parsers do.
* A report also has summary counts (`counted`: `report.Summary.Failed` or
  `.Flaky` is above zero), and a test the status `flaky`: each of them fails the run
  (`ReportFails`, `ingest_queue.go:107,112`), whether or not a case does.
* `Failures`, `Duplicates`, `Resolvable` are the three queries. `work[w].upto` is a
  ghost, the newest row there was when the pass's query ran: what `PassCloses`
  may ask of that pass.
  `FlakyVerdicts` is `isFlakyTest`: after the query for prior failures it reads
  the pass/fail history, which is over-approximated (any history that holds
  both may be read as alternating).
* `StatementFails` is every error path: the code logs and goes on, so a failed
  read is an empty result and a failed write is no write.
* `Age` moves the 48 hour window over the oldest row; `Crash` keeps the tables.
* left out: `resolved_by` and the free texts, the `[PERF]` branch (its baseline
  is asked for under another fingerprint than samples are stored under, so it
  is never taken), the quarantine gate (off in this edition).

### RemediationPool

The job of an alert is `<<a, 0>>`, the job of its n-th matching manifest
`<<a, n>>`. A caller (ingest worker or `healing_handlers.go:1087`) hands over an
alert and waits at the channel when it is full. A worker that runs the job of
an alert under alert rules sends a job per match, to the channel it receives
from. What a manifest does is not modelled; `Mode` and `Matches` are inputs.

### PipelineRun

A batch's upsert is one statement (`Finalize`). A request goes `load`, `update`,
then either `insert` or `read` and `write`, one SQL statement each, as
`handleExecutionFlagPatch` and `UpdatePipelineFlags` do; `existing[p]` and
`read[p]` are its local copies of the flags and of the report. The totals and the
tests of the report are named by the batch they come from, which is what tells
a consistent row from a mixed one. `Insert` is refused by the UNIQUE constraint
when a batch or another request created the row first. The environment may be
stored as `UNKNOWN`, the type never is (`TypeOrReal`). Left out: commit, branch
and time stamps. Three ghosts say what the promise of a partial update is worth:
`meant` is what env and type were last asked for or sent, `overtaken[p]` the
dimensions set by others since request `p` loaded the row (all of them if its load
failed), `undone` those which a request wrote back over a newer value.

### Registry and Workflow

`registries` holds every object `LoadRegistry` built since the start, since a job
that began with one of them keeps it; `engine` is the one new jobs get. An
update asks (`AskUpdate`), changes the object under its lock (`Update`), then opens
with truncation and writes the file, still under the lock; a crash in between
leaves a `Torn` file, which the next load skips. `LoadRegistry` reads file by
file with no lock on the old object. With `AutoReload`, the default of
`config.yaml:28` and the setting of the run, every view of the list of plugins begins a
reload (`BeginReload`), several at once, and the last to finish is the engine. The
ghost `crossed` holds the manifests the engine has from a reload that read them while
an update of them was under way.

A delivery reads the gateway twice: its columns at once (`ReadColumns`,
`webhook_handlers.go:42`) and the rest later (`ReadContext`, `project_routing.go:16`).
`Overlaid` is what `webhook_handlers.go:149-161` makes of the two: the columns win over
the entries of the map. When the second read fails (`Unread`), the map has the columns
only and the list of allowed plugins is nil, which allows all of them. `Keyed` is
the Jira key an alert brings, kept where the gateway names none. A job then reads
the stored graph once the incident is stored (`RunPostIngestRemediation`), and a
manifest when its node is visited; administrators save gateways, graphs and
plugins at every point in between. `VisitNode` is `walk` in `workflow_engine.go` with
an explicit stack, `WalkPlan` the other recursion, the one of the dry run: the
property `PlanIsRun` compares the two. `WalkPlan` counts how deep it may still go, from
the number of names in the document; the code has no such limit, and `WalkUnfolds`
(section 4) proves that it is never felt. An alert is the set of facts conditions ask
for. `Destination` is the choice of target in `runners.go`.

### Teams

Each session has one request in progress; `req[s].op` names the statement it is
at and the other fields are its local variables. `Climb` is one SELECT of
`isTeamDescendant`, `NextDescendant` to `Inherit` are the four statements of
`PropagateMembershipToDescendants` for one descendant. Every one of them may fail, and
the handlers do with the error what the code does, mostly nothing: a climb that
cannot read answers "not a descendant" (`team_handlers.go:331`), an opt-out or a direct
membership that cannot be read does not exist (`teams_membership.go:80,89`), an opt-out
that cannot be inserted is answered with success (`:130`). `TreeAdmins` create and delete
teams, `Movers` move them, `MemberAdmins` change members, any number of each. Ghosts
tell what interleavings and failures do: `suspect` holds the teams that were moved on a
broken or an overtaken walk, `req[s].late` the questions of a propagation that failed
or whose answer has changed since, `astray` the rows such a propagation wrote,
or a removal left behind, in spite of an opt-out.
`Descendants` is what the recursive `walk` collects, as the least set of rows that holds
the children of the team and of its own members: so it is defined, and can be
proved about, on a tree with a loop as well, where `walk` does not return.
Foreign keys are not enforced by this program, so a deleted team leaves
its children and memberships behind, and so does the model.

### Schema and Records

`Script` is the list of statements a start runs, in their order, with the columns
that releases differ in; `line` is the next one. `RunCreate` does nothing for a
table that exists, `RunAdd` fails when its table does not, which is a line in the
log. `NamedColumns` are the ones the running server's statements name. Once
`Serving`, `Records` stores and deletes incidents under an upload (answered at
once, saved by a goroutine: `OpenFile`, `WriteFile`, `InsertArtifact`) and a post of the
monitoring system (`StoreSignal`, `QueryIncidents`, a `Correlate` per row,
`CloseRows`). A result set holds its connection until `CloseRows`. An incident has a
`serial` besides its id, a ghost that tells a reused id from the old one. Files are
named by incident and upload name alone (`storage/local.go:29`), so uploads of one name
to one incident write one file: whoever opens it truncates it, two writers at once leave
it `Mixed`, and a failed save removes it (`:37`). The ghost `own` holds the uploads whose
file nobody else has opened since they did.

### LocatorHealing

One operator per function. A value of an attribute is the set of its words, so
that "contains" is inclusion; a locator is a form, a tag and a value; a test is
a sequence of assignments and keywords; a page is a sequence of elements. The
language model is an input: switched off, failing, or any locator.
`HandlePropose` returns the set of responses, because the language model's
script is any of the inputs. Patterns of frameworks other than Robot, JSON
rendering and the wording of prompts are left out. So are the branches for a
service that is nil (`healing_handlers.go:138`): `InitSuperApp` (`superapp.go:39`) sets it
at every start that gets as far as serving.

### Healing

`call[c]` holds the local variables of a request and the call it will make next.
`BranchCreated`, `FilePut` and `PRCreated` are what GitHub does; `AnswerLost` lets it
do so without the request hearing of it. A branch is named after the second of
the request, so two requests may ask for one branch: the second one is refused.
`Published` maps the state to `RemediationPR`: a pull request's file, as it stands on
its branch.

## 3. What the runs show

All counters that bound a run are constants and occur in guards: `MaxCrashes`,
`MaxDeliveries`, `MaxErrors`, `MaxUserActions`, `MaxAged`, `MaxNow` (seconds on the
clock), `MaxPatches`, `MaxPushes`, `MaxFaults`, `MaxDeletions`, `MaxTeams`, `MaxRequests`,
`MaxStarts`, `MaxIncidents`, `MaxBegun` (starts and requests together), `MaxScanned` (files
a search reads; the code's own limit, made small). Deadlock is checked in `teams` and
`workflow`; in the other runs deliveries, requests or cases are finite and a server with
nothing to do stops.

| run | instance | shows |
|---|---|---|
| `queue` | 4 deliveries, 2 workers, channel of 1, 1 crash | `InOnePlace`, `GaugeExact`, `Conservation`, `AnswerMatchesFate`; refinement of `BatchDelivery`; everything accepted is processed or lost in a crash |
| `pipeline` | 2 workers, two batches that share a failing test (JSON with keys, JUnit with a prefix and a pass), each posted up to twice, a crash, one row leaving the window | `FlakyTagged`, `RepairedOnFinish`, `NoFailureSwallowed`, `OwnKeyWins` |
| `pipeline_live` | 2 workers; a report with a flaky and a failed case of one test, posted up to twice, and the next run, where it passes; one failing statement, one user action | `OneOpenPerWorker`, `OutcomeFaithful`, `PassCloses`; every batch finishes, every incident is handed on |
| `remediation` | 2 slots, channel of 1, 2 callers, 4 alerts of which one fans out threefold | `RunOnce`, `NeverDropped`; every job of a handed alert runs |
| `remediation_deadlock` | the same, three alerts that fan out | violated: `EveryJobRuns`, all slots wait to send to the full channel they serve |
| `pipelinerun` | 2 batches (one fails), upserted any number of times, 3 requests (env only, type only, both), one failing statement | `OutcomeFollows`, `ReportFollows`, `FlagsAsMeant` |
| `healing` | 2 requests at once, 2 codes for a file, 2 submissions, 2 seconds, a push by others, a failing call, lost answer or crash, an incident deleted | `PublishedAtomically` (refinement of `RemediationPR`), `LinkedPatchIsProposed`, `HealedHasRecord` |
| `locators` | 86,542 cases: 12 messages, 37 tests, 12 answers of the model, pages from logs, errors and sources; two-file repositories; scripts | `RepeatsOnlyIfPresent`, `ProposalRemovesFailure`, `ToolsAgree` |
| `teams` | 3 teams ever, 1 user, two managers who both move teams and change members, a third session that creates and deletes teams, 4 requests, a failing statement or a stop of the server | `LoopsAreOvertaken`, `OptOutHonoured`, `DirectKept` |
| `workflow` | 2 plugins, 2 administrators, reloads as shipped (`AutoReload`), 3 drawings (a diamond, a loop, a draft), the templates, 3 gateways, 2 alerts (one with a key), 3 requests to the registry, reloads among them, a crash or failing statement | `PlanIsRun`, `SentWhereRouted`, `AnsweredIsSaved` |
| `records` | files of 3 ages, 3 starts, 1 fault, then 2 incidents, two uploads of one name, a post, 2 connections, 5 starts and requests together | `CleanStartRepairs`, `ShownAsUploaded` |
| `records_deadlock` | a new file, 2 posts, 2 connections | violated: `CorrelationEnds`, both posts hold a connection and wait for a third |

Why these bounds are enough to be interesting. Two workers are what a race
takes, and a third would do what one of the two did. A channel of one fills,
refuses and drains within four deliveries, and makes senders wait. A batch
posted twice gives a redelivery after, during and before a crash. Two runs and
two tests separate "same run" from "same test". Three teams are a chain, whose
middle can be moved or deleted while a membership goes down it. Two seconds
give two requests one branch or two. A diamond is the smallest graph where a
walk reaches a node twice. Files of three ages cover a table that is missing,
one that lacks columns, and one complete. Two incidents are what it takes for
an id to be used again. The proofs then remove the bounds for the safety
properties they cover. `pipeline` treats its two workers as symmetric,
`workflow` its two administrators, `teams` its two managers and `records` its two
uploads, which have one name: no definition tells one from another, and these
runs check no liveness property.

Fairness. `IngestQueue` and `IngestPipeline` ask for weak fairness of each
worker's next step: goroutines are scheduled and statements return. In
`RemediationPool` sends have strong fairness, since a Go channel serves those
who wait on it in turn; receives and job ends have weak fairness, the runners'
HTTP clients have timeouts. `Records` has weak fairness of a start's statements, of
a save and of a correlation, for the same reason. Nothing is assumed of
clients, users or crashes. Both deadlocks are found in spite of this fairness:
no step is enabled.

Two properties carry `crashes = 0` or `errors = 0` where the code does not
promise more: a crash between the insert of a failure and its tagging is
repaired only by a redelivery (that is what `RepairedOnFinish` checks, with
crashes), and an ignored SQL error loses the effect of its statement.

What the code promises and does not keep. Several comments and documents promise
more than concurrent handlers and ignored errors leave of it. The runs have these
interleavings and errors in them, as shipped: four ingest workers by default (two
here), reloads on, several administrators, statements that fail. The properties say
what is left of the promise then, and name the way it is broken, no wider than need
be:

| promise | property | what it leaves out |
|---|---|---|
| a failing test is skipped while its incident is open (`ingest.go:182`) | `OneOpenPerWorker` | one incident per worker, instead of one: all may ask before one inserts |
| a pass closes the open incidents of its test (`ingest.go:131`) | `PassCloses` | those another worker stored after the pass read the table |
| omitted flags stay unchanged (`incident_model.go:107`) | `FlagsAsMeant` | a flag that was set between a request's load and its UPDATE, or whose load failed |
| no team is moved below itself (`team_handlers.go:105`) | `LoopsAreOvertaken` | loops through a team that was moved on a walk that broke off or that another move overtook |
| an opt-out keeps a member out (`teams_membership.go:73`) | `OptOutHonoured` | rows of a propagation whose question failed or came before the opt-out, and of a removal that stopped half way |
| a direct membership is not replaced (`teams_membership.go:88-95`) | `DirectKept` | a propagation whose question failed or came before the row |
| an update that was answered is served and saved | `AnsweredIsSaved` | manifests a reload read while they were updated, until the next reload |
| a listed artifact is what was uploaded | `ShownAsUploaded` | another upload of that name to that incident at the same time or later |

For each of these TLC finds the plain promise violated in the very instance the run
uses: with two workers `Cardinality(OpenFor(r, t)) <= 1` fails after both have asked;
with two moves at once, or one whose SELECT fails, there is a team below itself;
and so on. Section 5 lists these disagreements at their lines. `SoleWriter` in
`Healing` holds as well (TLC, in the `healing` instance); it is what
`PublishedAtomically` rests on, is not a property of its own, and is proved as
`BranchHasOneWriter`.

## 4. What is proved

| module | theorem | for every |
|---|---|---|
| `IngestQueue_proofs` | `TypeCorrect`, `NoDoubleProcessing`, `AnswerIsTrue`, `GaugeNeverDrifts`, `NoBatchUnaccounted`, `QueueImplementsDelivery` | number of deliveries, workers, crashes, channel length |
| `IngestPipeline_proofs` | `TypeCorrect`, `FailuresGetTagged`, `KeysAreOwn`, `FailuresAreStored`, `OutcomeIsRight`, `FinishingRepairs`, `WorkersBoundDuplicates`, `PassesClose` | finite set of workers, tests, runs, keys, any payloads and bounds (`PassesClose`: as many open rows as the query reads) |
| `RemediationPool_proofs` | `TypeCorrect`, `NoJobRunsTwice`, `NoJobDropped` | number of callers, slots and alerts, modes, matches, channel length |
| `PipelineRun_proofs` | `TypeCorrect`, `OutcomeIsOfBatches`, `ReportIsOfBatch`, `FlagsStayAsMeant` | environments, types, batches and their flags, requests, failures |
| `Healing_proofs` | `TypeCorrect`, `BranchHasOneWriter`, `HealedIsRecorded`, `LinksAreTrue`, `CallsImplementPublishing`; of `LocatorHealing`: `RepeatsAreHonest`, `ProposalsRemove`, `ToolsGiveOneAnswer` | requests, codes, files, submissions, seconds, pushes, faults, deletions; incidents, pages, tests, repositories, answers of the language model |
| `Teams_proofs` | `DirectStaysDirect`, `OptOutsAreHonoured`, `TreeHasNoLoop` | users, teams, sessions of each of the three kinds, requests, failing statements |
| `Workflow_proofs` | `ChangesAreSaved`, `AlertsGoWhereRouted`, `OnlyCheckedRuns`, `ReachableIsLeast`; of `WorkflowPlan`: `DryRunIsRun`, `WalkUnfolds` | plugins, values, gateways, finite documents, alerts, administrators, views that reload, updates and faults, with `plugins.auto_reload` or without |
| `Records_proofs` | `CleanStarts`, `ShownBelongs` | files, starts, faults, uploads, names, posts, projects, times, connections, incidents, uploads of one name included |

The assumptions are the named ASSUMEs of the modules, which TLC evaluates in
every run. One theorem is about behaviours that keep to a limit: `PassesClose` about
those in which `UnderLimit` holds throughout, since the query of a pass reads 500 open
rows and no more; without it the property is false (section 5).
`FilesAssumption` says that a file an older release left has
rows in the tables the model follows, and no others. `CasesAssumption` says that what is
given or read as a test of an incident is a sequence of lines, `CanvasAssumption` that
a drawn document has finitely many nodes and its edges in a row: it was JSON.

How the arguments go.

* `IngestQueue`. The invariants are not inductive: a delivery that was never
  sent might already be queued. `IInv` adds `Fresh` (what is not sent is
  nowhere), `Tracked` (what is queued or held was sent since boot) and `Placed`.
  The gauge and the conservation law are counting arguments: batches queued,
  held and processed are disjoint finite sets whose sizes move together. The
  refinement maps a delivery's place to the abstract `fate`; the capacity guards
  of `BatchDelivery` follow from the same counting.
* `IngestPipeline`. Everything rests on `Typed`: types, and `PositionedAt`,
  where a worker stands in its batch (an alert in range; not a pass once it
  classifies; the row with the id it remembers is that alert's once it
  inserted). Steps are then described by a few frame lemmas: rows are only
  appended, keep test, run and key, and become tagged but never untagged
  (`RowsKept`). Each property adds its own strengthening, e.g. for
  `NoFailureSwallowed` that what a worker has already gone through has its
  row, and for `FlakyTagged` that a row within `todo` stays so until
  its update. `RepairedOnFinish` looks across a crash, which `FlakyTagged` excludes:
  `Repaired` follows one worker through its reconciliation and says that the tests
  it has been through have their failures tagged or on somebody's list, whatever
  was left before. For `PassCloses` what is open of a test that passed, of the rows
  there were when its worker read the table, is on the list of that worker
  (`Closing`); that the query returned it takes the limit, since the query cuts its
  answer off at the oldest. `OneOpenPerWorker` is a counting argument: a worker
  between the duplicate check and the insert of a test may still add one row, and
  nobody comes to be there while a row is open, so open rows and such workers
  are together no more than the workers (`Room`).
* `RemediationPool`. `RunOnce` needs three more facts: an alert a caller holds
  is held by that caller only and has no job yet (`Sending`), a match has a job
  only after the job of its alert went past it (`Matched`), and only handed
  alerts have jobs (`OnlyHanded`). `NeverDropped` is inductive with the types.

* `PipelineRun`. `FinalizeWrites` and `HandleWrites` say what an upsert and any step
  of a request do to the row; with them `OutcomeFollows` and `ReportFollows` are
  inductive together with the types. `FlagsAsMeant` needs that what a request loaded
  is still meant, but for the dimensions it was overtaken in and those already
  undone (`LoadedAsMeant`).
* `Healing`. The refinement needs that nobody else writes to a request's branch
  between its creation and the pull request. `WriterInv` says so: the branch of a
  request that writes exists (`Owned`) and is no other's (`SoleWriter`), the branch of a
  pull request is not written any more (`Settled`), and what a request has written
  so far is what it was asked to (`Carried`). From this two facts about a step
  follow: pull requests are never changed (`Kept`), and one that appears shows what its
  request was asked for (`Appears`), which is the abstract step. `LinksAreTrue` adds
  `RowsLinked`, `HealedIsRecorded` adds `Flagged`: a request about to mark an incident has
  stored its record.
* `LocatorHealing`. It has no steps to speak of, so these are facts about its operators,
  for all arguments. `ToolsGiveOneAnswer`: without the language model both chains come
  down to the scan's answer, or else the rules' (`HealFallsBack`, `DirectFallsBack`).
  `RepeatsAreHonest` goes through the three sources of an answer. `ProposalsRemove`: the
  rewriting leaves assignments alone, hence every name means what it did
  (`SameMeaning`), and what the extraction finds is in some keyword (`Extracted`), which
  the rewriting would have changed. That the last line of a test exists is
  well-foundedness of the numbers (`Smallest`).
* `Teams`. The handlers check, then write, in separate statements; `Checked` says
  that what a propagation found out about its next row is still true when it
  writes, or else it is `late` with that question. Others' steps either leave the
  answers alone or make those late whom they affect (`StillChecked`), so it is
  inductive for any number of sessions. The other half of `OptOutHonoured` is the
  removal itself, whose two statements are covered by `astray`. A stale list of
  descendants leads to odd rows, never to one that was opted out of. For the tree
  let `Trusted` be the rows that are not suspect, which may have no loop
  (`LoopsAreOvertaken`). `Careful` says of a move whose walk is not late: what it has
  passed leads to what it has passed, or to where it stands, and the team it moves
  is not among it. So when the walk ends, the new parent is not below that team. A
  deletion cuts a branch off and a creation adds a leaf whose id nobody has: neither
  puts a team below another it was not below (`BelowFewer`, `PutTrusted`). A move
  adds what is under its new parent (`BelowMoved`), and makes those late who have
  passed the team it moves.
* `Workflow`. `ReloadMet` says that a reload has crossed every update under way,
  `ReloadReads` that what it has read otherwise is what the file holds. An object's
  lock lets one request write it (`OneWriter`), and of a manifest that is not
  crossed it is the engine's object (`Settled`). `Saved` is `AnsweredIsSaved` made
  inductive: it looks only at requests past the lock, and keeps the file of an
  answered change whole between a crash and the end of the next load. For
  `AlertsGoWhereRouted`: a gateway is saved with its columns and its entries in step
  (`Synced`, `SyncLegacyRoutingColumns`), so that the columns read first say what the
  gateway routes to; laid over whatever the second read gave, they are in the
  context, which never changes afterwards, and `Destination` prefers it
  (`Informed`, `Followed`).
* `WorkflowPlan`. Two recursions are compared: the walk, a stack that other steps
  interleave with, and the dry run. The invariant (`PlanInv`) says that the dry run of
  what is left on the stack, begun with what the walk has visited and run, gives the
  list of the whole dry run (`Simulated`); a visit moves one node from one side to the
  other (`SimulatedVisit`). Manifests that are missing are why there is a second list,
  of which the job's is the part that has one: `Those` of it, since an object never
  gains or loses a manifest (`ObjectsKept`). What it takes about the dry run: walking two
  lists of nodes is walking one after the other (`EachConcat`), and the dry run of a
  node is the node, then its successors, as deep as they like (`WalkUnfolds`). The
  second needs that visits are never taken back (`WalkVisits`), so that a plan with k
  names left is the same at depth k and deeper (`DepthIsEnough`). Induction is on sets
  of numbers (`UpTo`, from `Smallest`), which the provers can follow.
  `OnlyCheckedRuns` follows a document from its check to the walk (`CheckedInv`), past
  drafts and restarts. That the check finds every loop is `ReachableIsLeast`: the search
  stops after as many steps as there are edges, and each step before it is complete
  adds one of the nodes edges end at, of which there are no more than edges.

* `Records`. A start is followed statement by statement: `Ran` says what the first
  statements have made of the file, unless one failed, and the lemmas on `Script`
  what each line of it is. `Repaired` and `NoOperator` carry that over to later
  starts, spoilt or not, because no statement takes a column or a row away; a
  role of the form `Operator` is only respelt by the first start, which is why the
  second counts. `ShownBelongs` joins four invariants: ids are never used again
  (`Stored`), a row says what its upload was accepted for and a file holds only what
  was uploaded to its incident (`Saved`), an upload in `own` has its file whole once
  it is written and nobody else has it open (`Owned`), and what a post works through
  or has recorded matched its project and time (`Correlated`), whether the incident
  is still there or not.

Model-checked only: the liveness properties (out of the prover's reach) and what the
violation runs show. Every invariant that a run checks has a theorem.

## 5. Where the code and the documents disagree

The two violation runs are findings: `remediation_deadlock` and `records_deadlock`.
Further disagreements met while modelling, without a run of their own:

*Ingest and pipeline runs.*

* `core/ingest.go:182` says the duplicate check "skips re-upload of the same failing
  test in the same pipeline run while still open"; it asks for the normalized name
  and its tags while the insert stores the reporter's spelling (`ingest.go:52,94,207`),
  so a failure reported as `[Playwright] login` is stored again by every re-upload.
  This is why `OneOpenPerWorker` speaks of plainly spelt names.

* `core/ingest_queue.go:87` says "jobs waiting in the buffer"; the gauge also
  counts the batches being processed, and misses sends in flight (`GaugeExact`
  says by how much).
* `docs/guides/architecture.md:326` says "no silent duplicate on dedup failure";
  a database error in the duplicate check (`ingest.go:199`) lets the alert through
  as new.
* `docs/guides/architecture.md:305` says the webhook inserts synchronously; it
  enqueues.
* `docs/guides/architecture.md:176`, `incident-lifecycle.md:43` and
  `integration/junit-xml-upload.md:175` speak of one row per fingerprint (name and
  error) and run; the code compares names only.
* `docs/guides/incident-lifecycle.md:22` and `dashboard-operations.md:62` tie
  `[FLAKY]` to "within 48h after resolution"; the code counts open rows too and
  measures from creation.
* `docs/integration/cicd-overview.md:120`, `junit-xml-upload.md:176` and
  `dashboard-operations.md:88` say a failure whose earlier incident was resolved
  is skipped; the query looks at open rows only, and
  `core/ingest_dedup_test.go:47` wants it so.
* `docs/guides/runbooks-dora.md:94` says a run is a failure when an incident was
  created in the batch; the code also looks at the report, and never turns a
  failure into a success.
* `docs/api/webhooks.md:13` says that valid requests are persisted before the
  202; the batch is in an in-memory channel (`core/ingest_queue.go:78`), and a crash
  loses it. `Conservation` counts such batches as lost.
* `core/ingest.go:182` also speaks of one open incident per run and test; with the
  four workers that `ingest_queue.go:54` starts by default, all may ask before any
  inserts (`ingest.go:45,89`), and each inserts one. `OneOpenPerWorker` is what is left.
* `core/ingest.go:131` says that a pass closes what is open "once a pass is ingested";
  a pass whose failure is open in the same run (a retry) is dropped as a
  duplicate before it gets there (`ingest.go:45`), and a pass that is handled leaves
  what another worker stored after its query. `PassCloses` says so.
* `docs/api/webhooks.md:104` says that the extracted key is the one passed to Jira;
  the routing map is shared by a batch, so that an alert without a key is
  remediated under an earlier one's (`ingest.go:80`). `OwnKeyWins` says what holds.
* `core/incident_model.go:107` says "omit env or type to leave that dimension
  unchanged"; the omitted one is written back from an earlier read
  (`execution.go:369`, `execution_handlers.go:55`), over what was set in between, and
  over whatever there is with the defaults when that read failed
  (`execution_handlers.go:56`). `FlagsAsMeant` says what holds. `execution.go:355` says
  that env and type are updated; the whole report is written back, and tests of a
  batch that finished in between are lost (`execution.go:384`). `ReportFollows`
  says that nothing else loses them.
* `autoResolveIncidentsByIdentity` looks at the newest 500 open incidents only.

*Workflows and plugins.*

* `workflow.go:38` says that an edge with `when` empty is "(any)"; out of a condition
  such an edge is never followed.
* `docs/guides/architecture.md:218` says "visited set per branch"; one set is shared by
  the whole execution. Line 219 says "context timeout: 2 minutes"; `Execute` gets
  `context.Background()`.
* An empty allow-list passes `validateWorkflow` but blocks every action at run time.
* `registry.go:13` says "immutable"; manifests are updated in place, and their
  configuration map is read without the lock.
* With `auto_reload: true`, which is what `config.yaml:28` ships, a reload that reads a
  file while an update of the old object is under way serves the old manifest, or
  none, after the update was answered with success.
* When the second read of the gateway fails (`project_routing.go:26`), the list of
  allowed plugins is nil, and nil allows all of them (`workflow_engine.go:141`,
  `engine.go:92`): plugins run that the gateway does not allow. Where Slack, Jira and
  Teams are sent is not affected, because the columns of the first read are laid
  over the empty map (`webhook_handlers.go:153`); `SentWhereRouted` says so. An entry
  without a column, of another plugin, is lost.
* The dry run lacks the console logs that conditions of a job see
  (`workflow_handlers.go:145`). A plugin that is disabled after a workflow was saved is
  on the list of both, for neither asks (`workflow.go:162` does, when saving).

*Teams.*

* `team_handlers.go:105` refuses to move a group into its own sub-group; two moves that
  check before either writes make a loop, and so does one move whose check cannot
  read a row (`team_handlers.go:331` answers "not a descendant" to any error).
* `teams_membership.go:73` says "unless opted out"; an opt-out that cannot be read
  counts as none (`:80`), as does one recorded after the question, and one that
  cannot be stored is answered with success (`:130`). `OptOutHonoured` says what holds.
* A direct membership that cannot be read, or is assigned after the question, is
  replaced by an inherited one (`teams_membership.go:89`). `DirectKept` says by what.
* Assigning a user where he is a member by inheritance leaves the membership
  inherited (`teams_membership.go:48`): it ends with the one it comes from.
* A team that moves keeps the memberships inherited from its old ancestors and
  gets none from the new ones.
* Creating a gateway (`project_handlers.go:147`) grants memberships as well, outside
  the two functions that know of opt-outs.

*Schema, artifacts and signals.*

* `ON DELETE CASCADE` is declared on several tables; SQLite enforces it only after
  `PRAGMA foreign_keys = ON`, which is never issued. `PRAGMA busy_timeout` reaches one
  of the two connections of the pool.
* The columns of `pipeline_runs` are added before its CREATE TABLE: a new file logs
  warnings, and the CREATE supplies the columns.
* A role stored as `Operator` takes two starts to become `lead`.
* `docs/guides/runbooks-dora.md:145` says that a row is inserted per alert of a post;
  only the first alert of it is. The count of correlated incidents includes
  failed inserts.
* Two uploads of one name for one incident share a file (`storage/local.go:29`): both are
  listed, with the bytes of the second, or of both at once, or of none when the second
  fails and removes the file (`:37`). An upload answered 202 is lost by a crash.

*Self-healing.*

* `gitops_remediation.go:143-154,196` sends POST to the contents API, which takes PUT:
  against github.com the file of a proposal is refused. `Healing` has the call
  succeed or fail (`PutFile`, `CallFails`), so that the steps after it are checked too.
* A retry after an answer that was lost opens a second pull request for the same
  code (`gitops_remediation.go:39`), and a failed UPDATE leaves the submission without
  its link (`mcp_handlers.go:383`). `LinkedPatchIsProposed` says that no link is wrong, not
  that there is one.
* `locator_healing.go:391` and `healing_handlers.go:65` select a column `framework` that
  `incidents` never gets (`db.go`): `handleHealingGate` always answers 500,
  `detect_locator_failures` always fails, and the propose route knows neither
  message nor logs. `LocatorHealing` models what these do as the code runs.
* With a locator pair known, the propose route drops the script the language
  model wrote for the test with only the locator replaced
  (`healing_handlers.go:205`), which may be the unchanged test.
* `isEquivalentBrokenLocator` (`locator_healing.go:247`) compares test ids and XPaths only:
  without a page, the same `name` under another tag counts as a new locator.
* A language model that answers with a Robot variable which stands for the broken locator
  gets it into the test; `ProposalRemovesFailure` excludes such an answer.
* A highlight shows every line with the new locator when the proposal changed none.
* `LocatorExistsInHTML` takes `data-testid="v"` for `id="v"`.
* With an unknown framework `heal_incident` does not read a Robot test for its
  locator, the propose route does.
* `ai_handlers.go:39` says that the API key is never stored; it is a column of
  `ai_provider_config`.

## 6. Not modelled, and what is left

| part | why |
|---|---|
| Quarantine | `InitSuperApp` leaves the engine nil in this edition, so that no call reaches it |
| Gate of self-healing | its query names a column that does not exist: it has one answer |
| Authentication, rate limits | cryptography; the limiter is one map under one lock, with one action |
| Reports, DORA, FinOps, health, charts, preferences | queries and arithmetic over tables, and rows one user writes for himself |
| AI analysis | what a model answers is an input of `LocatorHealing`; the table of jobs is written by no route |
| Report parsing | what a batch holds is modelled; text formats and the merging of several files of one upload are not |
| Other test frameworks | their locator patterns differ from Robot's in text only |
| The roles that may call a route | a table without state |
| Web UI, command line clients, license files, documentation | no server logic |

Left for later, most important first:

1. A composition of `IngestQueue` and `RemediationPool`, in which a full pool stops
   the ingest workers. Each side's hazard has its own run already.
2. The oscillation window of `isFlakyTest` as a function, in place of its
   over-approximation.
