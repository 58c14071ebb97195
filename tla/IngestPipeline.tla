--------------------------- MODULE IngestPipeline ---------------------------
(***************************************************************************)
(* What the ingest workers do to the database with the batches they take:  *)
(* processIngestBatch (pkg/core/ingest_queue.go) and ProcessAlert          *)
(* (pkg/core/ingest.go), one step per SQL statement, with the users who    *)
(* resolve and delete incidents meanwhile.  All incidents belong to one    *)
(* project: every query filters on the project name.                       *)
(*                                                                         *)
(* Left out: the quarantine gate (InitSuperApp sets QuarantineEngine to    *)
(* nil), PostIncidentHooks (empty), and the [PERF] branch, which is never  *)
(* taken: the baseline it asks for is the one of IncidentFingerprint, and  *)
(* samples are stored under TestIdentityFingerprint.  A test is its        *)
(* normalized name.                                                        *)
(***************************************************************************)
EXTENDS Integers, Sequences, FiniteSets

CONSTANTS
  Workers,        (* ingestWorker goroutines                              *)
  Tests,          (* normalized test names                                *)
  Runs,           (* pipeline run ids                                     *)
  Keys, NoKey,    (* Jira issue keys found in alerts, and none            *)
  Batches,        (* distinct webhook payloads                            *)
  Payload,        (* what each batch holds                                *)
  ScanLimit,      (* LIMIT of the auto-resolve query, 500 in the code     *)
  MaxDeliveries,  (* bound: how often CI posts each payload               *)
  MaxCrashes,     (* bound: deaths of the process                         *)
  MaxErrors,      (* bound: statements that fail (SQLITE_BUSY, disk)      *)
  MaxUserActions, (* bound: incidents resolved or deleted by users        *)
  MaxAged         (* bound: incidents that leave the 48 hour window       *)

(* How a name is spelt: as the normalized name, or with a reporter prefix   *)
(* ("[Playwright] login"); the name of a stored incident may also be the    *)
(* normalized one behind "[FLAKY] ".                                        *)
CaseForms == {"plain", "prefixed"}
RowForms  == CaseForms \cup {"flaky"}

Cases == [test : Tests, form : CaseForms, status : {"pass", "fail", "flaky", "skip"},
          timed : BOOLEAN, key : Keys \cup {NoKey}]

Failed(c) == c.status \in {"fail", "flaky"}

(* A JSON body is ingested whole; a JUnit file only for its failures.       *)
(* counted: Summary.Failed > 0 or Summary.Flaky > 0, which the body or the  *)
(* file may say of itself whatever its cases are.                           *)
JSONBatch(run, cases, counted) ==
  [run |-> run, alerts |-> cases, matrix |-> cases, counted |-> counted]
JUnitBatch(run, cases, counted) ==
  [run     |-> run,
   alerts  |-> SelectSeq(cases, LAMBDA c : c.status = "fail"),
   matrix  |-> cases,
   counted |-> counted \/ \E j \in 1..Len(cases) : Failed(cases[j])]

ASSUME PipelineAssumption ==
  /\ Payload \in [Batches -> [run : Runs, alerts : Seq(Cases), matrix : Seq(Cases),
                              counted : BOOLEAN]]
  /\ IsFiniteSet(Workers)
  /\ NoKey \notin Keys
  /\ MaxDeliveries \in [Batches -> Nat]
  /\ ScanLimit \in Nat /\ MaxCrashes \in Nat
  /\ MaxErrors \in Nat /\ MaxUserActions \in Nat /\ MaxAged \in Nat

VARIABLES
  ingestQueue,    (* the channel                                          *)
  pc, work,       (* each worker: its next statement, its local variables *)
  incidents,      (* table incidents, by id; deleted rows keep their id   *)
  aged,           (* rows up to this id are older than 48 hours           *)
  buckets,        (* per test, outcomes seen in metrics and incidents     *)
  outcome,        (* pipeline_runs.outcome                                *)
  launched,       (* remediations started, with the Jira key they get     *)
  finished,       (* batches whose processing has returned                *)
  delivered, crashes, errors, userActions     (* counts against the bounds *)

vars == <<ingestQueue, pc, work, incidents, aged, buckets, outcome, launched,
          finished, delivered, crashes, errors, userActions>>
db     == <<incidents, buckets, outcome>>
bounds == <<delivered, crashes, userActions>>

Steps == {"idle", "dedup", "scan", "resolve", "classify", "insert", "reconcile",
          "tag", "reseen", "retag"}

Row == [test : Tests, form : RowForms, run : Runs, key : Keys \cup {NoKey},
        state : {"open", "resolved", "deleted"}]

-----------------------------------------------------------------------------
(* The queries.                                                             *)

NonPass(c) == c.status # "pass"

Stored == {i \in 1..Len(incidents) : incidents[i].state # "deleted"}
Open   == {i \in 1..Len(incidents) : incidents[i].state = "open"}

(* failureIncidentIDsForTest: open or resolved, whatever the run. *)
Failures(t) == {i \in Stored : i > aged /\ incidents[i].test = t}

(* Mutants of Duplicates: the run is forgotten, or the [FLAKY] variant is.  *)
DuplicatesAnyRun(run, t) ==
  {i \in Open : incidents[i].test = t /\ incidents[i].form \in {"plain", "flaky"}}
DuplicatesPlainOnly(run, t) ==
  {i \in Open : /\ incidents[i].run = run
                /\ incidents[i].test = t
                /\ incidents[i].form = "plain"}

(* isDuplicateIngest: by name, among the open rows of the run.  The names   *)
(* asked for are the normalized one and its [FLAKY] and [PERF] variants.    *)
Duplicates(run, t) ==
  {i \in Open : /\ incidents[i].run = run
                /\ incidents[i].test = t
                /\ incidents[i].form \in {"plain", "flaky"}}

(* Mutant of Resolvable: names are compared as they are stored.             *)
ResolvableByName(t) ==
  {i \in Open : /\ incidents[i].test = t /\ incidents[i].form = "plain"
                /\ Cardinality({j \in Open : j > i}) < ScanLimit}

(* autoResolveIncidentsByIdentity: the newest ScanLimit open rows of the    *)
(* project are read and matched by normalized name.                         *)
Resolvable(t) ==
  {i \in Open : /\ incidents[i].test = t
                /\ Cardinality({j \in Open : j > i}) < ScanLimit}

(* isFlakyTest: a prior failure in the window, or pass and fail alternating *)
(* in the history (rows of one second come back in either order, so here    *)
(* any history with both may be read as alternating).                       *)
FlakyVerdicts(t) ==
  IF Failures(t) # {} THEN {TRUE}
  ELSE IF buckets[t] = {"pass", "fail"} THEN BOOLEAN ELSE {FALSE}

NonPassTests(b) ==
  {Payload[b].alerts[j].test :
     j \in {k \in 1..Len(Payload[b].alerts) : NonPass(Payload[b].alerts[k])}}

(* The report's causes of failure: its own counts, or a case of its matrix. *)
ReportFails(b) ==
  \/ Payload[b].counted
  \/ \E j \in 1..Len(Payload[b].matrix) : Failed(Payload[b].matrix[j])

-----------------------------------------------------------------------------
(* A worker's local variables: position in the batch, ids and tests still   *)
(* to do, AlertContext["JIRA_ISSUE_KEY"], whether processed > 0, and of the *)
(* current alert the flaky verdict and the inserted id.  Auxiliary, read by *)
(* no guard: the last row there was when a pass read the table.             *)
Fresh(b) == [batch |-> b, at |-> 1, todo |-> {}, seen |-> {}, routed |-> NoKey,
             processed |-> FALSE, flaky |-> FALSE, id |-> 0, upto |-> 0]

Locals == [batch : Batches, at : Nat, todo : SUBSET Nat, seen : SUBSET Tests,
           routed : Keys \cup {NoKey}, processed : BOOLEAN, flaky : BOOLEAN,
           id : Nat, upto : Nat]

NoWork == [batch |-> "none"]

Alert(w) == Payload[work[w].batch].alerts[work[w].at]
RunOf(w) == Payload[work[w].batch].run

Goto(w, step) == pc' = [pc EXCEPT ![w] = step]
Keep(w, l)    == work' = [work EXCEPT ![w] = l]

(* On to the next alert of the batch, or out of the loop.                   *)
NextAlert(w, l) ==
  IF l.at < Len(Payload[l.batch].alerts)
  THEN Goto(w, "dedup") /\ Keep(w, [l EXCEPT !.at = @ + 1])
  ELSE Goto(w, "reseen") /\ Keep(w, [l EXCEPT !.seen = NonPassTests(l.batch)])

(* ProcessAlert returned: one more row processed unless it was skipped.     *)
Skipped(w)   == NextAlert(w, work[w])
Processed(w) == NextAlert(w, [work[w] EXCEPT !.processed = TRUE])

Record(t, c, bucket) ==
  buckets' = IF c.timed THEN [buckets EXCEPT ![t] = @ \cup {bucket}] ELSE buckets
-----------------------------------------------------------------------------
Init ==
  /\ ingestQueue = <<>>
  /\ pc = [w \in Workers |-> "idle"]
  /\ work = [w \in Workers |-> NoWork]
  /\ incidents = <<>>
  /\ aged = 0
  /\ buckets = [t \in Tests |-> {}]
  /\ outcome = [r \in Runs |-> "none"]
  /\ launched = {}
  /\ finished = {}
  /\ delivered = [b \in Batches |-> 0]
  /\ crashes = 0 /\ errors = 0 /\ userActions = 0

(* EnqueueIngest; a CI system may post the same payload again.              *)
Deliver(b) ==
  /\ delivered[b] < MaxDeliveries[b]
  /\ delivered' = [delivered EXCEPT ![b] = @ + 1]
  /\ ingestQueue' = Append(ingestQueue, b)
  /\ UNCHANGED <<pc, work, db, aged, launched, finished, crashes, errors, userActions>>

Take(w) ==
  /\ pc[w] = "idle"
  /\ ingestQueue # <<>>
  /\ ingestQueue' = Tail(ingestQueue)
  /\ LET b == Head(ingestQueue)
     IN  IF Payload[b].alerts = <<>>
         THEN Goto(w, "reseen") /\ Keep(w, Fresh(b))
         ELSE Goto(w, "dedup") /\ Keep(w, Fresh(b))
  /\ UNCHANGED <<db, aged, launched, finished, bounds, errors>>

(* isDuplicateIngest comes before the test for a pass.                      *)
Dedup(w) ==
  /\ pc[w] = "dedup"
  /\ IF Duplicates(RunOf(w), Alert(w).test) # {}
     THEN Skipped(w)
     ELSE /\ Goto(w, IF NonPass(Alert(w)) THEN "classify" ELSE "scan")
          /\ UNCHANGED work
  /\ UNCHANGED <<ingestQueue, db, aged, launched, finished, bounds, errors>>

(* A pass: autoResolveIncidentsByIdentity reads the ids, ...                *)
Scan(w) ==
  /\ pc[w] = "scan"
  /\ Goto(w, "resolve")
  /\ Keep(w, [work[w] EXCEPT !.todo = Resolvable(Alert(w).test),
                             !.upto = Len(incidents)])
  /\ UNCHANGED <<ingestQueue, db, aged, launched, finished, bounds, errors>>

(* ... resolves them one by one (a row deleted meanwhile matches nothing),  *)
Resolve(w) ==
  /\ pc[w] = "resolve"
  /\ \E i \in work[w].todo :
       /\ incidents' = IF i \in Stored
                       THEN [incidents EXCEPT ![i].state = "resolved"]
                       ELSE incidents
       /\ Keep(w, [work[w] EXCEPT !.todo = @ \ {i}])
  /\ UNCHANGED <<ingestQueue, pc, aged, buckets, outcome, launched, finished,
                 bounds, errors>>

(* ... and the sample of the pass is recorded.                              *)
PassDone(w) ==
  /\ pc[w] = "resolve"
  /\ work[w].todo = {}
  /\ Record(Alert(w).test, Alert(w), "pass")
  /\ Skipped(w)
  /\ UNCHANGED <<ingestQueue, incidents, aged, outcome, launched, finished,
                 bounds, errors>>

(* Mutant of Classify: the first key of the batch is kept.                  *)
ClassifyFirstKey(w) ==
  /\ pc[w] = "classify"
  /\ Goto(w, "insert")
  /\ \E flaky \in FlakyVerdicts(Alert(w).test) :
       Keep(w, [work[w] EXCEPT !.flaky = flaky,
                  !.routed = IF @ = NoKey THEN Alert(w).key ELSE @])
  /\ UNCHANGED <<ingestQueue, db, aged, launched, finished, bounds, errors>>

(* Anything but a pass: isFlakyTest, then the Jira key goes into the        *)
(* routing map of the batch, where it stays for the next alerts.            *)
Classify(w) ==
  /\ pc[w] = "classify"
  /\ Goto(w, "insert")
  /\ \E flaky \in FlakyVerdicts(Alert(w).test) :
       Keep(w, [work[w] EXCEPT !.flaky = flaky,
                  !.routed = IF Alert(w).key # NoKey THEN Alert(w).key ELSE @])
  /\ UNCHANGED <<ingestQueue, db, aged, launched, finished, bounds, errors>>

(* The INSERT and the sample of the failure.                                *)
Insert(w) ==
  /\ pc[w] = "insert"
  /\ LET a == Alert(w) IN
       /\ incidents' = Append(incidents,
            [test |-> a.test, form |-> IF work[w].flaky THEN "flaky" ELSE a.form,
             run |-> RunOf(w), key |-> a.key, state |-> "open"])
       /\ buckets' = [buckets EXCEPT ![a.test] = @ \cup {"fail"}]
  /\ Goto(w, "reconcile")
  /\ Keep(w, [work[w] EXCEPT !.id = Len(incidents) + 1])
  /\ UNCHANGED <<ingestQueue, aged, outcome, launched, finished, bounds, errors>>

(* Mutant of ToTag: the third failure is the first to tag.                  *)
ToTagFromThird(t) == IF Cardinality(Failures(t)) > 2 THEN Failures(t) ELSE {}

(* reconcileFlakyTagsForTest: the ids to tag, when there are at least two.  *)
ToTag(t) == IF \E i, j \in Failures(t) : i # j THEN Failures(t) ELSE {}

Reconcile(w) ==
  /\ pc[w] = "reconcile"
  /\ Goto(w, "tag")
  /\ Keep(w, [work[w] EXCEPT !.todo = ToTag(Alert(w).test)])
  /\ UNCHANGED <<ingestQueue, db, aged, launched, finished, bounds, errors>>

TagOne(w) ==
  \E i \in work[w].todo :
    /\ incidents' = IF i \in Stored
                    THEN [incidents EXCEPT ![i].form = "flaky"]
                    ELSE incidents
    /\ Keep(w, [work[w] EXCEPT !.todo = @ \ {i}])

Tag(w) ==
  /\ pc[w] \in {"tag", "retag"}
  /\ TagOne(w)
  /\ UNCHANGED <<ingestQueue, pc, aged, buckets, outcome, launched, finished,
                 bounds, errors>>

(* Mutant of Launch: no remediation for a test known to be flaky.           *)
LaunchUnlessFlaky(w) ==
  /\ pc[w] = "tag"
  /\ work[w].todo = {}
  /\ launched' = IF work[w].flaky THEN launched
                 ELSE launched \cup {[id |-> work[w].id, key |-> work[w].routed]}
  /\ Processed(w)
  /\ UNCHANGED <<ingestQueue, db, aged, finished, bounds, errors>>

(* RunPostIngestRemediation, with the routing map as it is now.             *)
Launch(w) ==
  /\ pc[w] = "tag"
  /\ work[w].todo = {}
  /\ launched' = launched \cup {[id |-> work[w].id, key |-> work[w].routed]}
  /\ Processed(w)
  /\ UNCHANGED <<ingestQueue, db, aged, finished, bounds, errors>>

(* Mutants of Reseen: nothing is read, or the test is never ticked off.     *)
ReseenUnread(w) ==
  /\ pc[w] = "reseen"
  /\ Goto(w, "retag")
  /\ \E t \in work[w].seen : Keep(w, [work[w] EXCEPT !.seen = @ \ {t}])
  /\ UNCHANGED <<ingestQueue, db, aged, launched, finished, bounds, errors>>
ReseenForever(w) ==
  /\ pc[w] = "reseen"
  /\ Goto(w, "retag")
  /\ \E t \in work[w].seen : Keep(w, [work[w] EXCEPT !.todo = ToTag(t)])
  /\ UNCHANGED <<ingestQueue, db, aged, launched, finished, bounds, errors>>

(* After the loop, every test that did not pass is reconciled once more.    *)
Reseen(w) ==
  /\ pc[w] = "reseen"
  /\ Goto(w, "retag")
  /\ \E t \in work[w].seen :
       Keep(w, [work[w] EXCEPT !.seen = @ \ {t}, !.todo = ToTag(t)])
  /\ UNCHANGED <<ingestQueue, db, aged, launched, finished, bounds, errors>>

Retagged(w) ==
  /\ pc[w] = "retag"
  /\ work[w].todo = {}
  /\ Goto(w, "reseen")
  /\ UNCHANGED <<ingestQueue, work, db, aged, launched, finished, bounds, errors>>

(* Mutant of OutcomeOf: of the report, only the cases are looked at.        *)
OutcomeOfCases(w) ==
  IF \/ work[w].processed
     \/ \E j \in 1..Len(Payload[work[w].batch].matrix) :
          Failed(Payload[work[w].batch].matrix[j])
  THEN "failure" ELSE "success"

(* PipelineOutcomeFromReport and the upsert, in which failure is sticky.    *)
OutcomeOf(w) ==
  IF work[w].processed \/ ReportFails(work[w].batch) THEN "failure" ELSE "success"

Upsert(run, verdict) ==
  outcome' = [outcome EXCEPT ![run] = IF @ = "failure" THEN @ ELSE verdict]

(* recordReportTestMetrics: samples of the whole matrix, skips left out;    *)
(* whatever is no pass counts as a failure.                                 *)
MatrixBuckets(b, t) ==
  LET samples == {c \in {Payload[b].matrix[j] : j \in 1..Len(Payload[b].matrix)} :
                    c.test = t /\ c.timed /\ c.status # "skip"}
  IN  {IF NonPass(c) THEN "fail" ELSE "pass" : c \in samples}

Finalize(w) ==
  /\ pc[w] = "reseen"
  /\ work[w].seen = {}
  /\ buckets' = [t \in Tests |-> buckets[t] \cup MatrixBuckets(work[w].batch, t)]
  /\ Upsert(RunOf(w), OutcomeOf(w))
  /\ finished' = finished \cup {work[w].batch}
  /\ Goto(w, "idle")
  /\ Keep(w, NoWork)
  /\ UNCHANGED <<ingestQueue, incidents, aged, launched, bounds, errors>>

(* A statement fails.  Every error is logged or ignored: a failed dedup     *)
(* query counts as no duplicate, a failed read as no row, a failed INSERT   *)
(* gives up the alert (which still counts as processed), a failed UPDATE    *)
(* gives up the row, and a failed upsert leaves the batch done all the same.*)
StatementFails(w) ==
  /\ errors < MaxErrors
  /\ errors' = errors + 1
  /\ \/ /\ pc[w] = "dedup"
        /\ Goto(w, IF NonPass(Alert(w)) THEN "classify" ELSE "scan")
        /\ UNCHANGED <<work, finished>>
     \/ /\ pc[w] \in {"scan", "reconcile"}
        /\ Goto(w, IF pc[w] = "scan" THEN "resolve" ELSE "tag")
        /\ Keep(w, [work[w] EXCEPT !.todo = {}])
        /\ UNCHANGED finished
     \/ /\ pc[w] = "classify"
        /\ Goto(w, "insert")
        /\ Keep(w, [work[w] EXCEPT !.flaky = FALSE,
                      !.routed = IF Alert(w).key # NoKey THEN Alert(w).key ELSE @])
        /\ UNCHANGED finished
     \/ /\ pc[w] = "insert"
        /\ Processed(w)
        /\ UNCHANGED finished
     \/ /\ pc[w] \in {"resolve", "tag", "retag"}
        /\ \E i \in work[w].todo : Keep(w, [work[w] EXCEPT !.todo = @ \ {i}])
        /\ UNCHANGED <<pc, finished>>
     \/ /\ pc[w] = "reseen"
        /\ \E t \in work[w].seen : Keep(w, [work[w] EXCEPT !.seen = @ \ {t}])
        /\ UNCHANGED <<pc, finished>>
     \/ /\ pc[w] = "reseen"
        /\ work[w].seen = {}
        /\ finished' = finished \cup {work[w].batch}
        /\ Goto(w, "idle")
        /\ Keep(w, NoWork)
  /\ UNCHANGED <<ingestQueue, db, aged, launched, bounds>>

(* The process dies and restarts: the database stays, the rest is lost.     *)
Crash ==
  /\ crashes < MaxCrashes
  /\ crashes' = crashes + 1
  /\ ingestQueue' = <<>>
  /\ pc' = [w \in Workers |-> "idle"]
  /\ work' = [w \in Workers |-> NoWork]
  /\ UNCHANGED <<db, aged, launched, finished, delivered, errors, userActions>>

(* PUT and DELETE /api/incidents.                                           *)
UserSets(i, state) ==
  /\ userActions < MaxUserActions
  /\ userActions' = userActions + 1
  /\ incidents' = [incidents EXCEPT ![i].state = state]
  /\ UNCHANGED <<ingestQueue, pc, work, aged, buckets, outcome, launched,
                 finished, delivered, crashes, errors>>

UserResolve(i) == i \in Open /\ UserSets(i, "resolved")
UserDelete(i)  == i \in Stored /\ UserSets(i, "deleted")

(* Mutant of Age: the window may move past the newest row.                  *)
AgeUnchecked ==
  /\ aged < MaxAged
  /\ aged' = aged + 1
  /\ UNCHANGED <<ingestQueue, pc, work, db, launched, finished, bounds, errors>>

(* 48 hours pass for the oldest row still in the window.                    *)
Age ==
  /\ aged < Len(incidents) /\ aged < MaxAged
  /\ aged' = aged + 1
  /\ UNCHANGED <<ingestQueue, pc, work, db, launched, finished, bounds, errors>>

Work(w) ==
  \/ Take(w) \/ Dedup(w) \/ Scan(w) \/ Resolve(w) \/ PassDone(w)
  \/ Classify(w) \/ Insert(w) \/ Reconcile(w) \/ Tag(w) \/ Launch(w)
  \/ Reseen(w) \/ Retagged(w) \/ Finalize(w)

Next ==
  \/ \E b \in Batches : Deliver(b)
  \/ \E w \in Workers : Work(w) \/ StatementFails(w)
  \/ Crash
  \/ \E i \in 1..Len(incidents) : UserResolve(i) \/ UserDelete(i)
  \/ Age

Spec == Init /\ [][Next]_vars

(* Every worker goroutine is scheduled and every statement returns; nobody  *)
(* has to post, to crash or to resolve.                                     *)
Fairness == \A w \in Workers : WF_vars(Work(w))

FairSpec == Spec /\ Fairness

-----------------------------------------------------------------------------
TypeOK ==
  /\ ingestQueue \in Seq(Batches)
  /\ pc \in [Workers -> Steps]
  /\ work \in [Workers -> Locals \cup {NoWork}]
  /\ \A w \in Workers : IF pc[w] = "idle" THEN work[w] = NoWork
                                           ELSE work[w] \in Locals
  /\ incidents \in Seq(Row)
  /\ aged \in 0..Len(incidents)
  /\ buckets \in [Tests -> SUBSET {"pass", "fail"}]
  /\ outcome \in [Runs -> {"none", "success", "failure"}]
  /\ launched \subseteq [id : 1..Len(incidents), key : Keys \cup {NoKey}]
  /\ finished \subseteq Batches
  /\ delivered \in [Batches -> Nat]
  /\ \A b \in Batches : delivered[b] <= MaxDeliveries[b]
  /\ crashes \in 0..MaxCrashes
  /\ errors \in 0..MaxErrors
  /\ userActions \in 0..MaxUserActions

(* The worker that will still tag row i: it has inserted a failure of the   *)
(* same test and not read the rows yet, or has read this one.               *)
WillTag(w, i) ==
  \/ pc[w] = "reconcile" /\ Alert(w).test = incidents[i].test
  \/ pc[w] = "tag" /\ i \in work[w].todo

(* "tag all repeated failures (covers parallel ingest workers and name      *)
(* variants)": as soon as a test has two failures in the window, each of    *)
(* them is tagged or about to be, whatever the workers interleave.          *)
FlakyTagged ==
  crashes = 0 /\ errors = 0 =>
    \A i, j \in 1..Len(incidents) :
      /\ i # j /\ {i, j} \subseteq Failures(incidents[i].test)
      => \/ incidents[i].form = "flaky"
         \/ \E w \in Workers : WillTag(w, i)

(* The reconciliation after the loop repairs what a crash interrupted: when *)
(* a batch is done, the tests it reported are tagged, posted again or not.  *)
RepairedOnFinish ==
  [][\A w \in Workers :
       pc[w] = "reseen" /\ pc'[w] = "idle" /\ errors' = 0 /\ crashes' = crashes =>
         \A t \in NonPassTests(work[w].batch) : \A i, j \in Failures(t) :
           i # j => \/ incidents[i].form = "flaky"
                    \/ \E v \in Workers : WillTag(v, i)]_vars

(* The open incidents of a test in a run.                                   *)
OpenFor(run, t) == {i \in Open : incidents[i].run = run /\ incidents[i].test = t}

SpeltPlainly(t) ==
  \A b \in Batches : \A j \in 1..Len(Payload[b].alerts) :
    Payload[b].alerts[j].test = t => Payload[b].alerts[j].form = "plain"

(* "skips re-upload of the same failing test in the same pipeline run while *)
(* still open", of what is left of it when workers put the question and the *)
(* INSERT at the same time: however often a run's reports are posted, there *)
(* are never more open incidents of a test in a run than workers (with one  *)
(* worker, one), if its name is spelt as the question spells it.            *)
OneOpenPerWorker ==
  errors = 0 =>
    \A r \in Runs : \A t \in Tests :
      SpeltPlainly(t) => Cardinality(OpenFor(r, t)) <= Cardinality(Workers)

(* Deduplication hides no failure: once a batch is done, an incident was    *)
(* stored for its run and each test in it that did not pass.                *)
NoFailureSwallowed ==
  errors = 0 =>
    \A b \in finished : \A t \in NonPassTests(b) :
      \E i \in 1..Len(incidents) :
        incidents[i].run = Payload[b].run /\ incidents[i].test = t

(* "marks the run failed when failures exist even if incidents were         *)
(* deduplicated": a run is a failure once a batch of it with a failure is   *)
(* done, stays one whatever is posted later, and is one for no other cause  *)
(* than what a report of it counts or lists, or an alert that did not pass. *)
OutcomeFaithful ==
  /\ errors = 0 =>
       \A b \in finished : ReportFails(b) => outcome[Payload[b].run] = "failure"
  /\ \A r \in Runs : outcome[r] = "failure" =>
       \E b \in finished : Payload[b].run = r /\ (ReportFails(b) \/ NonPassTests(b) # {})

(* An alert with a Jira key of its own is remediated under that key.        *)
OwnKeyWins ==
  \A l \in launched : incidents[l.id].key # NoKey => l.key = incidents[l.id].key

(* "closes open incidents for the same logical test once a pass is          *)
(* ingested": when a pass has been handled, an incident of its test that is *)
(* still open was stored after the worker read the table, by another one.   *)
PassCloses ==
  [][\A w \in Workers : errors = 0 /\ pc[w] = "resolve" /\ pc'[w] # "resolve" =>
       \/ crashes' # crashes
       \/ \A i \in Open : incidents[i].test = Alert(w).test => i > work[w].upto]_vars

(* Everything posted is processed to the end, and every incident stored is  *)
(* handed to the remediation, as long as the process lives.  Posts are      *)
(* bounded, and what is finished or launched stays so: a moment that comes  *)
(* again and again is then one from which on it holds.                      *)
BatchesFinish ==
  []<>(\A b \in Batches : delivered[b] > 0 => b \in finished)
RemediationStarts ==
  []<>(\A i \in 1..Len(incidents) : \E l \in launched : l.id = i)
=============================================================================
