------------------------ MODULE IngestPipeline_proofs ------------------------
(* What holds of IngestPipeline for any workers, payloads and bounds.       *)
(*                                                                         *)
(* Every proof rests on TypeOK, on Positioned (where a worker stands in its *)
(* batch) and on RowsKept (what no step does to a stored incident); each    *)
(* property then has the one strengthening it needs.                        *)
EXTENDS IngestPipeline, FiniteSetTheorems, TLAPS

AlertSteps == {"dedup", "scan", "resolve", "classify", "insert", "reconcile", "tag"}

(* In the loop a worker stands at an alert of its batch, at one that did    *)
(* not pass once it classifies, and at one whose row is stored once it has  *)
(* inserted.                                                                *)
PositionedAt(w) ==
  /\ pc[w] \in AlertSteps => work[w].at \in 1..Len(Payload[work[w].batch].alerts)
  /\ pc[w] \in {"classify", "insert", "reconcile", "tag"} => NonPass(Alert(w))
  /\ pc[w] \in {"scan", "resolve"} => ~NonPass(Alert(w))
  /\ pc[w] \in {"reconcile", "tag"} =>
       /\ work[w].id \in 1..Len(incidents)
       /\ incidents[work[w].id].run = RunOf(w)
       /\ incidents[work[w].id].test = Alert(w).test
       /\ incidents[work[w].id].key = Alert(w).key

Positioned == \A w \in Workers : PositionedAt(w)

Typed == TypeOK /\ Positioned

(* The part of TypeOK that is about the workers. *)
WorkTyped ==
  /\ pc \in [Workers -> Steps]
  /\ work \in [Workers -> Locals \cup {NoWork}]
  /\ \A w \in Workers : IF pc[w] = "idle" THEN work[w] = NoWork
                                           ELSE work[w] \in Locals

-----------------------------------------------------------------------------
(* Types.                                                                   *)

(* An alert a worker stands at is a case, its run is a run. *)
LEMMA AlertIsCase ==
  ASSUME Typed, NEW w \in Workers, pc[w] \in AlertSteps
  PROVE  /\ work[w] \in Locals
         /\ Alert(w) \in Cases
         /\ RunOf(w) \in Runs
<1>1. work[w] \in Locals
  BY DEF Typed, TypeOK, AlertSteps
<1>2. /\ work[w].batch \in Batches
      /\ work[w].at \in 1..Len(Payload[work[w].batch].alerts)
  BY <1>1 DEF Locals, Typed, Positioned, PositionedAt
<1>3. /\ Payload[work[w].batch].alerts \in Seq(Cases)
      /\ Payload[work[w].batch].run \in Runs
  BY <1>2, PipelineAssumption
<1> QED
  BY <1>1, <1>2, <1>3 DEF Alert, RunOf

(* A worker that goes on with well-typed locals keeps the types. *)
LEMMA Moving ==
  ASSUME TypeOK, NEW w \in Workers, NEW step \in Steps \ {"idle"}, NEW l \in Locals,
         Goto(w, step), Keep(w, l)
  PROVE  WorkTyped'
BY DEF TypeOK, Goto, Keep, WorkTyped

(* The tests of a batch that did not pass are tests. *)
LEMMA NonPassTestsType ==
  ASSUME NEW b \in Batches
  PROVE  NonPassTests(b) \subseteq Tests
<1> DEFINE A == Payload[b].alerts
<1>1. A \in Seq(Cases)
  BY PipelineAssumption
<1>2. \A j \in 1..Len(A) : A[j] \in Cases
  BY <1>1
<1>3. \A j \in 1..Len(A) : A[j].test \in Tests
  BY <1>2 DEF Cases
<1>4. NonPassTests(b) = {A[j].test : j \in {k \in 1..Len(A) : NonPass(A[k])}}
  BY DEF NonPassTests
<1> HIDE DEF A
<1> QED
  BY <1>3, <1>4

(* The samples of a matrix are passes and failures. *)
LEMMA MatrixBucketsType ==
  ASSUME NEW b \in Batches, NEW t
  PROVE  MatrixBuckets(b, t) \subseteq {"pass", "fail"}
<1> DEFINE M == Payload[b].matrix
<1>1. M \in Seq(Cases)
  BY PipelineAssumption
<1>2. \A j \in 1..Len(M) : M[j] \in Cases
  BY <1>1
<1> QED
  BY DEF MatrixBuckets

(* NextAlert goes to the next alert or out of the loop. *)
LEMMA NextAlertMoves ==
  ASSUME NEW w \in Workers, NEW l \in Locals, NextAlert(w, l)
  PROVE  \/ /\ l.at < Len(Payload[l.batch].alerts)
            /\ Goto(w, "dedup")
            /\ Keep(w, [l EXCEPT !.at = @ + 1])
            /\ [l EXCEPT !.at = @ + 1] \in Locals
         \/ /\ ~(l.at < Len(Payload[l.batch].alerts))
            /\ Goto(w, "reseen")
            /\ Keep(w, [l EXCEPT !.seen = NonPassTests(l.batch)])
            /\ [l EXCEPT !.seen = NonPassTests(l.batch)] \in Locals
<1>1. [l EXCEPT !.at = @ + 1] \in Locals
  BY DEF Locals
<1>2. NonPassTests(l.batch) \subseteq Tests
  BY NonPassTestsType DEF Locals
<1>3. [l EXCEPT !.seen = NonPassTests(l.batch)] \in Locals
  BY <1>2 DEF Locals
<1>4. CASE l.at < Len(Payload[l.batch].alerts)
  BY <1>1, <1>4, Zenon DEF NextAlert
<1>5. CASE ~(l.at < Len(Payload[l.batch].alerts))
  BY <1>3, <1>5, Zenon DEF NextAlert
<1> QED
  BY <1>4, <1>5

LEMMA NextAlertTyped ==
  ASSUME TypeOK, NEW w \in Workers, NEW l \in Locals, NextAlert(w, l)
  PROVE  WorkTyped'
<1>1. CASE /\ Goto(w, "dedup")
           /\ Keep(w, [l EXCEPT !.at = @ + 1])
           /\ [l EXCEPT !.at = @ + 1] \in Locals
  BY <1>1, Moving DEF Steps
<1>2. CASE /\ Goto(w, "reseen")
           /\ Keep(w, [l EXCEPT !.seen = NonPassTests(l.batch)])
           /\ [l EXCEPT !.seen = NonPassTests(l.batch)] \in Locals
  BY <1>2, Moving DEF Steps
<1> QED
  BY <1>1, <1>2, NextAlertMoves

(* The sets of rows that the queries return are sets of row numbers. *)
LEMMA QueriesReturnRows ==
  ASSUME NEW t, NEW run
  PROVE  /\ Failures(t) \subseteq 1..Len(incidents)
         /\ Duplicates(run, t) \subseteq 1..Len(incidents)
         /\ Resolvable(t) \subseteq 1..Len(incidents)
         /\ ToTag(t) \subseteq Failures(t)
         /\ ToTag(t) \subseteq Nat
BY DEF Failures, Duplicates, Resolvable, ToTag, Stored, Open

(* A worker that returns to the channel keeps the types. *)
LEMMA Returning ==
  ASSUME TypeOK, NEW w \in Workers, Goto(w, "idle"), Keep(w, NoWork)
  PROVE  WorkTyped'
BY DEF TypeOK, Goto, Keep, WorkTyped, Steps

(* Every step of a worker keeps its program counter and its locals typed. *)
LEMMA WorkStep ==
  ASSUME Typed, NEW w \in Workers, Work(w) \/ StatementFails(w)
  PROVE  WorkTyped'
<1> USE DEF Typed
<1>l. pc[w] # "idle" => work[w] \in Locals
  BY DEF TypeOK
<1>same. ASSUME UNCHANGED work, NEW step \in Steps \ {"idle"}, Goto(w, step), pc[w] # "idle"
         PROVE  WorkTyped'
  BY <1>same DEF TypeOK, Goto, WorkTyped
<1>todo. ASSUME NEW S \in SUBSET Nat, pc[w] # "idle"
         PROVE  [work[w] EXCEPT !.todo = S] \in Locals
  BY <1>l, <1>todo DEF Locals
<1>keep. ASSUME NEW l \in Locals, Keep(w, l), UNCHANGED pc, pc[w] # "idle"
         PROVE  WorkTyped'
  BY <1>keep DEF TypeOK, Keep, WorkTyped
<1>tick. ASSUME NEW i, pc[w] # "idle", Keep(w, [work[w] EXCEPT !.todo = @ \ {i}]), UNCHANGED pc
         PROVE  WorkTyped'
  <2>1. work[w].todo \ {i} \in SUBSET Nat
    BY <1>l, <1>tick DEF Locals
  <2>2. [work[w] EXCEPT !.todo = @ \ {i}] \in Locals
    BY <2>1, <1>tick, <1>todo
  <2> QED
    BY <2>2, <1>keep, <1>tick
<1>1. CASE Take(w)
  <2> DEFINE b == Head(ingestQueue)
  <2>1. b \in Batches
    BY <1>1 DEF Take, TypeOK
  <2>2. Fresh(b) \in Locals
    BY <2>1 DEF Fresh, Locals
  <2>3. \E step \in {"reseen", "dedup"} : Goto(w, step) /\ Keep(w, Fresh(b))
    BY <1>1, Zenon DEF Take
  <2> QED
    BY <2>2, <2>3, Moving DEF Steps
<1>2. CASE Dedup(w)
  <2>1. CASE Skipped(w)
    BY <1>2, <2>1, <1>l, NextAlertTyped DEF Skipped, Dedup
  <2>2. CASE \E step \in {"classify", "scan"} : Goto(w, step) /\ UNCHANGED work
    BY <1>2, <2>2, <1>same DEF Dedup, Steps
  <2> QED
    BY <1>2, <2>1, <2>2, Zenon DEF Dedup
<1>3. CASE Scan(w)
  <2>1. Resolvable(Alert(w).test) \in SUBSET Nat
    BY QueriesReturnRows
  <2>2. [work[w] EXCEPT !.todo = Resolvable(Alert(w).test), !.upto = Len(incidents)] \in Locals
    <3>1. work[w] \in Locals /\ Len(incidents) \in Nat
      BY <1>3, <1>l DEF Scan, TypeOK
    <3> QED
      BY <2>1, <3>1 DEF Locals
  <2> QED
    BY <1>3, <2>2, Moving DEF Scan, Steps
<1>4. CASE Resolve(w)
  BY <1>4, <1>tick, Zenon DEF Resolve
<1>5. CASE PassDone(w)
  BY <1>5, <1>l, NextAlertTyped DEF PassDone, Skipped
<1>6. CASE Classify(w)
  <2>1. Alert(w).key \in Keys \cup {NoKey}
    BY <1>6, AlertIsCase DEF Classify, AlertSteps, Cases
  <2>2. ASSUME NEW flaky \in FlakyVerdicts(Alert(w).test)
        PROVE  [work[w] EXCEPT !.flaky = flaky,
                  !.routed = IF Alert(w).key # NoKey THEN Alert(w).key ELSE @] \in Locals
    <3>1. flaky \in BOOLEAN
      BY DEF FlakyVerdicts
    <3>2. work[w] \in Locals
      BY <1>6, <1>l DEF Classify
    <3> QED
      BY <2>1, <3>1, <3>2 DEF Locals
  <2> QED
    BY <1>6, <2>2, Moving DEF Classify, Steps
<1>7. CASE Insert(w)
  <2>1. work[w] \in Locals /\ Len(incidents) + 1 \in Nat
    BY <1>7, <1>l DEF Insert, TypeOK
  <2>2. [work[w] EXCEPT !.id = Len(incidents) + 1] \in Locals
    BY <2>1 DEF Locals
  <2> QED
    BY <1>7, <2>2, Moving DEF Insert, Steps
<1>8. CASE Reconcile(w)
  <2>1. [work[w] EXCEPT !.todo = ToTag(Alert(w).test)] \in Locals
    BY <1>8, <1>todo, QueriesReturnRows DEF Reconcile
  <2> QED
    BY <1>8, <2>1, Moving DEF Reconcile, Steps
<1>9. CASE Tag(w)
  BY <1>9, <1>tick, Zenon DEF Tag, TagOne
<1>10. CASE Launch(w)
  <2>1. [work[w] EXCEPT !.processed = TRUE] \in Locals
    BY <1>10, <1>l DEF Launch, Locals
  <2> QED
    BY <1>10, <2>1, NextAlertTyped DEF Launch, Processed
<1>11. CASE Reseen(w)
  <2>1. ASSUME NEW t \in work[w].seen
        PROVE  [work[w] EXCEPT !.seen = @ \ {t}, !.todo = ToTag(t)] \in Locals
    BY <1>11, <1>l, QueriesReturnRows DEF Reseen, Locals
  <2> QED
    BY <1>11, <2>1, Moving DEF Reseen, Steps
<1>12. CASE Retagged(w)
  BY <1>12, <1>same DEF Retagged, Steps
<1>13. CASE Finalize(w)
  BY <1>13, Returning DEF Finalize
<1>14. CASE StatementFails(w)
  <2>1. CASE /\ pc[w] = "dedup"
             /\ \E step \in {"classify", "scan"} : Goto(w, step)
             /\ UNCHANGED work
    BY <2>1, <1>same DEF Steps
  <2>2. CASE /\ pc[w] \in {"scan", "reconcile"}
             /\ \E step \in {"resolve", "tag"} : Goto(w, step)
             /\ Keep(w, [work[w] EXCEPT !.todo = {}])
    BY <2>2, <1>todo, Moving DEF Steps
  <2>3. CASE /\ pc[w] = "classify"
             /\ Goto(w, "insert")
             /\ Keep(w, [work[w] EXCEPT !.flaky = FALSE,
                           !.routed = IF Alert(w).key # NoKey THEN Alert(w).key ELSE @])
    <3>1. Alert(w).key \in Keys \cup {NoKey}
      BY <2>3, AlertIsCase DEF AlertSteps, Cases
    <3>2. [work[w] EXCEPT !.flaky = FALSE,
             !.routed = IF Alert(w).key # NoKey THEN Alert(w).key ELSE @] \in Locals
      BY <2>3, <1>l, <3>1 DEF Locals
    <3> QED
      BY <2>3, <3>2, Moving DEF Steps
  <2>4. CASE pc[w] = "insert" /\ Processed(w)
    <3>1. [work[w] EXCEPT !.processed = TRUE] \in Locals
      BY <2>4, <1>l DEF Locals
    <3> QED
      BY <2>4, <3>1, NextAlertTyped DEF Processed
  <2>5. CASE /\ pc[w] \in {"resolve", "tag", "retag"}
             /\ \E i \in work[w].todo : Keep(w, [work[w] EXCEPT !.todo = @ \ {i}])
             /\ UNCHANGED pc
    BY <2>5, <1>tick, Zenon
  <2>6. CASE /\ pc[w] = "reseen"
             /\ \E t \in work[w].seen : Keep(w, [work[w] EXCEPT !.seen = @ \ {t}])
             /\ UNCHANGED pc
    <3>1. ASSUME NEW t PROVE [work[w] EXCEPT !.seen = @ \ {t}] \in Locals
      BY <2>6, <1>l DEF Locals
    <3> QED
      BY <2>6, <3>1, <1>keep
  <2>7. CASE Goto(w, "idle") /\ Keep(w, NoWork)
    BY <2>7, Returning
  <2> QED
    BY <1>14, <2>1, <2>2, <2>3, <2>4, <2>5, <2>6, <2>7, Zenon DEF StatementFails
<1> QED
  BY <1>1, <1>2, <1>3, <1>4, <1>5, <1>6, <1>7, <1>8, <1>9, <1>10, <1>11, <1>12,
     <1>13, <1>14 DEF Work

-----------------------------------------------------------------------------
(* What a step may do.                                                      *)

(* To the table: leave it alone, append an open row for the alert of a      *)
(* worker, tag one row, or resolve or delete one row.                       *)
Appends(w) ==
  /\ pc[w] = "insert"
  /\ pc' = [pc EXCEPT ![w] = "reconcile"]
  /\ incidents' = Append(incidents,
        [test |-> Alert(w).test,
         form |-> IF work[w].flaky THEN "flaky" ELSE Alert(w).form,
         run |-> RunOf(w), key |-> Alert(w).key, state |-> "open"])

TableChange ==
  \/ incidents' = incidents
  \/ \E w \in Workers : Appends(w)
  \/ \E i \in Stored : incidents' = [incidents EXCEPT ![i].form = "flaky"]
  \/ \E i \in Stored, st \in {"resolved", "deleted"} :
        incidents' = [incidents EXCEPT ![i].state = st]

LEMMA TableChanges ==
  ASSUME [Next]_vars
  PROVE  TableChange
<1>1. ASSUME NEW w \in Workers, Work(w) PROVE TableChange
  <2>1. CASE Resolve(w)
    BY <2>1 DEF Resolve, TableChange
  <2>2. CASE Insert(w)
    BY <2>2 DEF Insert, TableChange, Appends, Goto
  <2>3. CASE Tag(w)
    BY <2>3 DEF Tag, TagOne, TableChange
  <2>4. CASE Take(w) \/ Dedup(w) \/ Scan(w) \/ PassDone(w) \/ Classify(w) \/ Reconcile(w)
    BY <2>4 DEF Take, Dedup, Scan, PassDone, Classify, Reconcile, db, TableChange
  <2>5. CASE Launch(w) \/ Reseen(w) \/ Retagged(w) \/ Finalize(w)
    BY <2>5 DEF Launch, Reseen, Retagged, Finalize, db, TableChange
  <2> QED
    BY <1>1, <2>1, <2>2, <2>3, <2>4, <2>5 DEF Work
<1>2. ASSUME NEW w \in Workers, StatementFails(w) PROVE TableChange
  BY <1>2 DEF StatementFails, db, TableChange
<1>3. ASSUME NEW b \in Batches, Deliver(b) PROVE TableChange
  BY <1>3 DEF Deliver, db, TableChange
<1>4. CASE Crash
  BY <1>4 DEF Crash, db, TableChange
<1>5. ASSUME NEW i \in 1..Len(incidents), UserResolve(i) \/ UserDelete(i) PROVE TableChange
  BY <1>5 DEF UserResolve, UserDelete, UserSets, TableChange, Open, Stored
<1>6. CASE Age
  BY <1>6 DEF Age, db, TableChange
<1>7. CASE UNCHANGED vars
  BY <1>7 DEF vars, TableChange
<1> QED
  BY <1>1, <1>2, <1>3, <1>4, <1>5, <1>6, <1>7 DEF Next

(* No row is lost or moved to another run, test or key; a tagged row stays  *)
(* tagged and a deleted one deleted.                                        *)
KeptRows ==
  /\ incidents' \in Seq(Row)
  /\ Len(incidents) \in Nat /\ Len(incidents') \in Nat
  /\ Len(incidents) <= Len(incidents')
  /\ \A i \in 1..Len(incidents) :
       /\ incidents'[i].run  = incidents[i].run
       /\ incidents'[i].test = incidents[i].test
       /\ incidents'[i].key  = incidents[i].key
       /\ incidents[i].form  = "flaky" => incidents'[i].form = "flaky"
       /\ incidents[i].state = "deleted" => incidents'[i].state = "deleted"
       /\ incidents'[i].state = "open" => incidents[i].state = "open"
       /\ incidents'[i].form \in {incidents[i].form, "flaky"}

LEMMA RowsKept ==
  ASSUME Typed, TableChange
  PROVE  KeptRows
<1> USE DEF Typed
<1>t. incidents \in Seq(Row)
  BY DEF TypeOK
<1>1. CASE incidents' = incidents
  BY <1>1, <1>t DEF KeptRows
<1>2. ASSUME NEW w \in Workers, Appends(w), NEW r, incidents' = Append(incidents, r),
             r = [test |-> Alert(w).test,
                  form |-> IF work[w].flaky THEN "flaky" ELSE Alert(w).form,
                  run |-> RunOf(w), key |-> Alert(w).key, state |-> "open"]
      PROVE  incidents' \in Seq(Row)
  <2>1. Alert(w) \in Cases /\ RunOf(w) \in Runs
    BY <1>2, AlertIsCase DEF Appends, AlertSteps
  <2>2. r \in Row
    BY <1>2, <2>1 DEF Cases, Row, RowForms
  <2> QED
    BY <1>t, <1>2, <2>2
<1>r. ASSUME NEW i \in 1..Len(incidents), NEW r \in Row,
             incidents' = [incidents EXCEPT ![i] = r],
             r.run = incidents[i].run, r.test = incidents[i].test, r.key = incidents[i].key,
             incidents[i].form = "flaky" => r.form = "flaky",
             incidents[i].state = "deleted" => r.state = "deleted",
             r.state = "open" => incidents[i].state = "open",
             r.form \in {incidents[i].form, "flaky"}
      PROVE  KeptRows
  BY <1>t, <1>r DEF KeptRows
<1>3. ASSUME NEW i \in Stored, incidents' = [incidents EXCEPT ![i].form = "flaky"]
      PROVE  KeptRows
  <2> DEFINE r == [incidents[i] EXCEPT !.form = "flaky"]
  <2>1. i \in 1..Len(incidents) /\ incidents[i] \in Row
    BY <1>t, <1>3 DEF Stored
  <2>2. incidents' = [incidents EXCEPT ![i] = r]
    BY <1>3
  <2>3. r \in Row /\ r.run = incidents[i].run /\ r.test = incidents[i].test
        /\ r.key = incidents[i].key /\ r.form = "flaky" /\ r.state = incidents[i].state
    BY <2>1 DEF Row, RowForms
  <2> HIDE DEF r
  <2> QED
    BY <2>1, <2>2, <2>3, <1>r
<1>4. ASSUME NEW i \in Stored, NEW st \in {"resolved", "deleted"},
             incidents' = [incidents EXCEPT ![i].state = st]
      PROVE  KeptRows
  <2> DEFINE r == [incidents[i] EXCEPT !.state = st]
  <2>1. i \in 1..Len(incidents) /\ incidents[i] \in Row /\ incidents[i].state # "deleted"
    BY <1>t, <1>4 DEF Stored
  <2>2. incidents' = [incidents EXCEPT ![i] = r]
    BY <1>4
  <2>3. r \in Row /\ r.run = incidents[i].run /\ r.test = incidents[i].test
        /\ r.key = incidents[i].key /\ r.form = incidents[i].form /\ r.state # "open"
    BY <2>1, <1>4 DEF Row
  <2> HIDE DEF r
  <2> QED
    BY <2>1, <2>2, <2>3, <1>r
<1>5. ASSUME NEW w \in Workers, Appends(w)
      PROVE  KeptRows
  <2> DEFINE r == [test |-> Alert(w).test,
                  form |-> IF work[w].flaky THEN "flaky" ELSE Alert(w).form,
                  run |-> RunOf(w), key |-> Alert(w).key, state |-> "open"]
  <2>1. incidents' = Append(incidents, r)
    BY <1>5 DEF Appends
  <2>2. incidents' \in Seq(Row)
    BY <1>5, <2>1, <1>2
  <2> HIDE DEF r
  <2> QED
    BY <1>t, <2>1, <2>2 DEF KeptRows
<1> QED
  BY <1>1, <1>3, <1>4, <1>5 DEF TableChange

(* Which actions change which of the other variables. *)
Frame ==
  /\ UNCHANGED ingestQueue \/ Crash \/ (\E b \in Batches : Deliver(b))
       \/ (\E w \in Workers : Take(w))
  /\ UNCHANGED <<pc, work>> \/ Crash \/ (\E w \in Workers : Work(w) \/ StatementFails(w))
  /\ UNCHANGED aged \/ Age
  /\ UNCHANGED buckets \/ (\E w \in Workers : PassDone(w) \/ Insert(w) \/ Finalize(w))
  /\ UNCHANGED outcome \/ (\E w \in Workers : Finalize(w))
  /\ UNCHANGED launched \/ (\E w \in Workers : Launch(w))
  /\ UNCHANGED finished
       \/ \E w \in Workers : /\ Finalize(w) \/ StatementFails(w)
                            /\ pc[w] = "reseen" /\ work[w].seen = {}
                            /\ finished' = finished \cup {work[w].batch}
  /\ UNCHANGED delivered \/ (\E b \in Batches : Deliver(b))
  /\ UNCHANGED crashes \/ Crash
  /\ UNCHANGED errors \/ (\E w \in Workers : StatementFails(w))
  /\ UNCHANGED userActions \/ (\E i \in 1..Len(incidents) : UserResolve(i) \/ UserDelete(i))

LEMMA Frames ==
  ASSUME [Next]_vars
  PROVE  Frame
<1> USE DEF db, bounds
<1>1. ASSUME NEW w \in Workers, Work(w) PROVE Frame
  <2>1. CASE Take(w)
    BY <1>1, <2>1 DEF Take, Frame
  <2>2. CASE Insert(w)
    BY <1>1, <2>2 DEF Insert, Frame
  <2>3. CASE PassDone(w)
    BY <1>1, <2>3 DEF PassDone, Frame
  <2>4. CASE Launch(w)
    BY <1>1, <2>4 DEF Launch, Frame
  <2>5. CASE Finalize(w)
    BY <1>1, <2>5 DEF Finalize, Frame
  <2>6. CASE Dedup(w) \/ Scan(w) \/ Resolve(w) \/ Classify(w)
    BY <1>1, <2>6 DEF Dedup, Scan, Resolve, Classify, Frame
  <2>7. CASE Reconcile(w) \/ Tag(w) \/ Reseen(w) \/ Retagged(w)
    BY <1>1, <2>7 DEF Reconcile, Tag, Reseen, Retagged, Frame
  <2> QED
    BY <1>1, <2>1, <2>2, <2>3, <2>4, <2>5, <2>6, <2>7 DEF Work
<1>2. ASSUME NEW w \in Workers, StatementFails(w) PROVE Frame
  <2>1. UNCHANGED finished
          \/ /\ pc[w] = "reseen" /\ work[w].seen = {}
             /\ finished' = finished \cup {work[w].batch}
    BY <1>2 DEF StatementFails
  <2>2. UNCHANGED <<ingestQueue, db, aged, launched, bounds>>
    BY <1>2 DEF StatementFails
  <2> QED
    BY <1>2, <2>1, <2>2 DEF Frame
<1>3. ASSUME NEW b \in Batches, Deliver(b) PROVE Frame
  BY <1>3 DEF Deliver, Frame
<1>4. CASE Crash
  BY <1>4 DEF Crash, Frame
<1>5. ASSUME NEW i \in 1..Len(incidents), UserResolve(i) \/ UserDelete(i) PROVE Frame
  BY <1>5 DEF UserResolve, UserDelete, UserSets, Frame
<1>6. CASE Age
  BY <1>6 DEF Age, Frame
<1>7. CASE UNCHANGED vars
  BY <1>7 DEF vars, Frame
<1> QED
  BY <1>1, <1>2, <1>3, <1>4, <1>5, <1>6, <1>7 DEF Next

LEMMA TypeInit ==
  ASSUME Init
  PROVE  Typed
<1>1. TypeOK
  BY PipelineAssumption DEF Init, TypeOK, Steps
<1>2. Positioned
  BY DEF Init, Positioned, PositionedAt, AlertSteps
<1> QED
  BY <1>1, <1>2 DEF Typed

LEMMA TypeStep ==
  ASSUME Typed, [Next]_vars
  PROVE  TypeOK'
<1>k. KeptRows
  BY TableChanges, RowsKept
<1>f. Frame
  BY Frames
<1>t. TypeOK
  BY DEF Typed
<1>1. ingestQueue' \in Seq(Batches)
  <2>1. CASE UNCHANGED ingestQueue \/ Crash
    <3>1. <<>> \in Seq(Batches) /\ ingestQueue \in Seq(Batches)
      BY <1>t DEF TypeOK
    <3>2. UNCHANGED ingestQueue \/ ingestQueue' = <<>>
      BY <2>1 DEF Crash
    <3> QED
      BY <3>1, <3>2
  <2>2. ASSUME NEW b \in Batches, Deliver(b) PROVE ingestQueue' \in Seq(Batches)
    BY <2>2, <1>t DEF Deliver, TypeOK
  <2>3. ASSUME NEW w \in Workers, Take(w) PROVE ingestQueue' \in Seq(Batches)
    <3>1. ingestQueue # <<>> /\ ingestQueue' = Tail(ingestQueue)
      BY <2>3 DEF Take
    <3> QED
      BY <3>1, <1>t DEF TypeOK
  <2> QED
    BY <1>f, <2>1, <2>2, <2>3 DEF Frame
<1>2. WorkTyped'
  <2>1. CASE UNCHANGED <<pc, work>>
    BY <2>1, <1>t DEF TypeOK, WorkTyped
  <2>2. CASE Crash
    BY <2>2 DEF Crash, WorkTyped, Steps
  <2>3. CASE \E w \in Workers : Work(w) \/ StatementFails(w)
    BY <2>3, WorkStep
  <2> QED
    BY <1>f, <2>1, <2>2, <2>3 DEF Frame
<1>3. aged' \in 0..Len(incidents')
  BY <1>f, <1>k, <1>t DEF Frame, Age, KeptRows, TypeOK, db
<1>4. launched' \subseteq [id : 1..Len(incidents'), key : Keys \cup {NoKey}]
  <2>1. launched \subseteq [id : 1..Len(incidents'), key : Keys \cup {NoKey}]
    <3>1. 1..Len(incidents) \subseteq 1..Len(incidents')
      BY <1>k DEF KeptRows
    <3> QED
      BY <3>1, <1>t DEF TypeOK
  <2>2. CASE UNCHANGED launched
    BY <2>1, <2>2
  <2>3. ASSUME NEW w \in Workers, Launch(w)
        PROVE  launched' \subseteq [id : 1..Len(incidents'), key : Keys \cup {NoKey}]
    <3>1. work[w].id \in 1..Len(incidents)
      BY <2>3 DEF Launch, Typed, Positioned, PositionedAt
    <3>2. work[w].routed \in Keys \cup {NoKey}
      BY <2>3, <1>t DEF Launch, TypeOK, Locals
    <3>3. incidents' = incidents
      BY <2>3 DEF Launch, db
    <3> QED
      BY <2>1, <2>3, <3>1, <3>2, <3>3 DEF Launch
  <2> QED
    BY <1>f, <2>2, <2>3 DEF Frame
<1>5. buckets' \in [Tests -> SUBSET {"pass", "fail"}]
  <2> USE <1>t
  <2>1. ASSUME NEW w \in Workers, PassDone(w)
        PROVE  buckets' \in [Tests -> SUBSET {"pass", "fail"}]
    BY <2>1 DEF PassDone, Record, TypeOK
  <2>2. ASSUME NEW w \in Workers, Insert(w)
        PROVE  buckets' \in [Tests -> SUBSET {"pass", "fail"}]
    BY <2>2 DEF Insert, TypeOK
  <2>3. ASSUME NEW w \in Workers, Finalize(w)
        PROVE  buckets' \in [Tests -> SUBSET {"pass", "fail"}]
    <3>1. work[w].batch \in Batches
      BY <2>3 DEF Finalize, TypeOK, Locals
    <3>2. \A t : MatrixBuckets(work[w].batch, t) \subseteq {"pass", "fail"}
      BY <3>1, MatrixBucketsType
    <3> QED
      BY <2>3, <3>2 DEF Finalize, TypeOK
  <2> QED
    BY <1>f, <2>1, <2>2, <2>3 DEF Frame, TypeOK
<1>6. outcome' \in [Runs -> {"none", "success", "failure"}]
  BY <1>f, <1>t DEF Frame, Finalize, Upsert, OutcomeOf, TypeOK
<1>7. finished' \subseteq Batches
  BY <1>f, <1>t DEF Frame, TypeOK, Locals
<1>8. /\ delivered' \in [Batches -> Nat]
      /\ \A b \in Batches : delivered'[b] <= MaxDeliveries[b]
  <2>1. ASSUME NEW b \in Batches, Deliver(b)
        PROVE  /\ delivered' \in [Batches -> Nat]
               /\ \A c \in Batches : delivered'[c] <= MaxDeliveries[c]
    <3>1. delivered[b] + 1 \in Nat /\ delivered[b] + 1 <= MaxDeliveries[b]
      BY <2>1, <1>t, PipelineAssumption DEF Deliver, TypeOK
    <3> QED
      BY <2>1, <3>1, <1>t DEF Deliver, TypeOK
  <2> QED
    BY <1>f, <1>t, <2>1 DEF Frame, TypeOK
<1>b. MaxCrashes \in Nat
  BY PipelineAssumption
<1>9. crashes' \in 0..MaxCrashes
  BY <1>b, <1>f, <1>t DEF Frame, Crash, TypeOK
<1>10. errors' \in 0..MaxErrors
  <2>1. ASSUME NEW w \in Workers, StatementFails(w)
        PROVE  errors < MaxErrors /\ errors' = errors + 1
    BY <2>1, Zenon DEF StatementFails
  <2> QED
    BY <1>f, <1>t, <2>1, PipelineAssumption DEF Frame, TypeOK
<1>11. userActions' \in 0..MaxUserActions
  BY <1>f, <1>t, PipelineAssumption DEF Frame, UserResolve, UserDelete, UserSets, TypeOK
<1> QED
  BY <1>k, <1>1, <1>2, <1>3, <1>4, <1>5, <1>6, <1>7, <1>8, <1>9, <1>10, <1>11
  DEF TypeOK, WorkTyped, KeptRows

(* A step of one worker leaves the others where they are. *)
LEMMA OthersStay ==
  ASSUME Typed, NEW w \in Workers, Work(w) \/ StatementFails(w),
         NEW v \in Workers, v # w
  PROVE  pc'[v] = pc[v] /\ work'[v] = work[v]
<1> USE DEF Goto, Keep, NextAlert, Skipped, Processed
<1>t. pc \in [Workers -> Steps] /\ work \in [Workers -> Locals \cup {NoWork}]
  BY DEF Typed, TypeOK
<1>1. CASE Take(w) \/ Dedup(w) \/ Scan(w) \/ Resolve(w) \/ PassDone(w)
  BY <1>1, <1>t DEF Take, Dedup, Scan, Resolve, PassDone
<1>2. CASE Classify(w) \/ Insert(w) \/ Reconcile(w) \/ Tag(w)
  BY <1>2, <1>t DEF Classify, Insert, Reconcile, Tag, TagOne
<1>3. CASE Launch(w) \/ Reseen(w) \/ Retagged(w) \/ Finalize(w)
  BY <1>3, <1>t DEF Launch, Reseen, Retagged, Finalize
<1>4. CASE StatementFails(w)
  BY <1>4, <1>t DEF StatementFails
<1> QED
  BY <1>1, <1>2, <1>3, <1>4 DEF Work

(* A worker that stays with its alert is still positioned. *)
LEMMA Standing ==
  ASSUME Typed, KeptRows, NEW v \in Workers,
         work'[v].batch = work[v].batch, work'[v].at = work[v].at,
         pc'[v] \in AlertSteps => pc[v] \in AlertSteps,
         pc'[v] \in {"classify", "insert", "reconcile", "tag"} => NonPass(Alert(v)),
         pc'[v] \in {"scan", "resolve"} => ~NonPass(Alert(v)),
         pc'[v] \in {"reconcile", "tag"} =>
           pc[v] \in {"reconcile", "tag"} /\ work'[v].id = work[v].id
  PROVE  PositionedAt(v)'
<1>1. Alert(v)' = Alert(v) /\ RunOf(v)' = RunOf(v)
  BY DEF Alert, RunOf
<1>2. PositionedAt(v)
  BY DEF Typed, Positioned
<1>3. (pc[v] \in AlertSteps => work[v].at \in 1..Len(Payload[work[v].batch].alerts))'
  BY <1>2 DEF PositionedAt
<1>4. ASSUME pc'[v] \in {"reconcile", "tag"}
      PROVE  (/\ work[v].id \in 1..Len(incidents)
              /\ incidents[work[v].id].run = RunOf(v)
              /\ incidents[work[v].id].test = Alert(v).test
              /\ incidents[work[v].id].key = Alert(v).key)'
  BY <1>1, <1>2, <1>4 DEF PositionedAt, KeptRows
<1> QED
  BY <1>1, <1>3, <1>4 DEF PositionedAt

(* So is one that goes on to the next. *)
LEMMA NextAlertPositioned ==
  ASSUME Typed, NEW w \in Workers, NEW l \in Locals, NextAlert(w, l),
         l.at \in 1..Len(Payload[l.batch].alerts)
  PROVE  /\ PositionedAt(w)'
         /\ pc'[w] \in {"dedup", "reseen"}
         /\ pc'[w] = "dedup" => work'[w].at = l.at + 1
         /\ pc'[w] = "reseen" => l.at = Len(Payload[l.batch].alerts)
         /\ work'[w].batch = l.batch
         /\ work'[w].processed = l.processed
<1>t. pc \in [Workers -> Steps] /\ work \in [Workers -> Locals \cup {NoWork}]
  BY DEF Typed, TypeOK
<1>0. l.batch \in Batches /\ l.at \in Nat /\ Len(Payload[l.batch].alerts) \in Nat
  BY PipelineAssumption DEF Locals
<1>1. CASE l.at < Len(Payload[l.batch].alerts)
  <2> DEFINE m == [l EXCEPT !.at = @ + 1]
  <2>1. Goto(w, "dedup") /\ Keep(w, m)
    BY <1>1, NextAlertMoves
  <2>2. m.batch = l.batch /\ m.at = l.at + 1 /\ m.processed = l.processed
    BY DEF Locals
  <2>3. pc'[w] = "dedup" /\ work'[w] = m
    BY <2>1, <1>t DEF Goto, Keep
  <2> HIDE DEF m
  <2>4. work'[w].batch = l.batch /\ work'[w].at \in 1..Len(Payload[l.batch].alerts)
    BY <2>2, <2>3, <1>0, <1>1
  <2> QED
    BY <2>2, <2>3, <2>4 DEF PositionedAt
<1>2. CASE ~(l.at < Len(Payload[l.batch].alerts))
  <2> DEFINE m == [l EXCEPT !.seen = NonPassTests(l.batch)]
  <2>1. Goto(w, "reseen") /\ Keep(w, m)
    BY <1>2, NextAlertMoves
  <2>2. m.batch = l.batch /\ m.processed = l.processed
    BY DEF Locals
  <2>3. pc'[w] = "reseen" /\ work'[w] = m
    BY <2>1, <1>t DEF Goto, Keep
  <2> HIDE DEF m
  <2> QED
    BY <1>0, <1>2, <2>2, <2>3 DEF PositionedAt, AlertSteps
<1> QED
  BY <1>1, <1>2

(* What a step of a worker does to its own place: it takes a batch, goes on *)
(* to another alert, stays with its alert or with its reconciliation, or is *)
(* done.                                                                    *)
Starts(w) ==
  /\ pc[w] = "idle" /\ pc'[w] \in {"dedup", "reseen"}
  /\ ingestQueue # <<>>
  /\ work'[w] = Fresh(Head(ingestQueue))
  /\ (pc'[w] = "reseen") <=> (Payload[Head(ingestQueue)].alerts = <<>>)

Leaves(w) ==
  /\ \/ pc[w] = "dedup" /\ Duplicates(RunOf(w), Alert(w).test) # {}
     \/ pc[w] = "resolve" /\ work[w].todo = {}
     \/ pc[w] = "tag" /\ work[w].todo = {}
     \/ pc[w] = "insert" /\ StatementFails(w)
  /\ \E p \in BOOLEAN :
       /\ p # work[w].processed => pc[w] \in {"insert", "tag"}
       /\ NextAlert(w, [work[w] EXCEPT !.processed = p])

Stays(w) ==
  /\ work'[w].batch = work[w].batch /\ work'[w].at = work[w].at
  /\ work'[w].processed = work[w].processed
  /\ work'[w].flaky \in BOOLEAN
  /\ <<pc[w], pc'[w]>> \in
       {<<"dedup", "classify">>, <<"dedup", "scan">>, <<"scan", "resolve">>,
        <<"resolve", "resolve">>, <<"classify", "insert">>, <<"insert", "reconcile">>,
        <<"reconcile", "tag">>, <<"tag", "tag">>, <<"reseen", "retag">>,
        <<"retag", "retag">>, <<"retag", "reseen">>, <<"reseen", "reseen">>}
  /\ pc[w] = "dedup" => (pc'[w] = "classify" <=> NonPass(Alert(w)))
  /\ pc[w] = "dedup" => Duplicates(RunOf(w), Alert(w).test) = {} \/ StatementFails(w)
  /\ pc[w] # "insert" => work'[w].id = work[w].id
  /\ pc[w] # "classify" => work'[w].routed = work[w].routed
  /\ pc[w] = "classify" =>
       work'[w].routed = IF Alert(w).key # NoKey THEN Alert(w).key ELSE work[w].routed
  /\ (pc[w] = "insert" => work'[w].id = Len(incidents) + 1 /\ Appends(w))

Finishes(w) ==
  /\ pc[w] = "reseen" /\ pc'[w] = "idle" /\ work[w].seen = {}
  /\ finished' = finished \cup {work[w].batch}

LEMMA WorkerMoves ==
  ASSUME Typed, NEW w \in Workers, Work(w) \/ StatementFails(w)
  PROVE  Starts(w) \/ Leaves(w) \/ Stays(w) \/ Finishes(w)
<1> USE DEF Typed
<1>t. /\ pc \in [Workers -> Steps] /\ work \in [Workers -> Locals \cup {NoWork}]
      /\ pc[w] # "idle" => work[w] \in Locals
  BY DEF TypeOK
<1>g. \A step : Goto(w, step) => pc'[w] = step
  BY <1>t DEF Goto
<1>w. \A l : Keep(w, l) => work'[w] = l
  BY <1>t DEF Keep
<1>p. ASSUME pc[w] # "idle" PROVE [work[w] EXCEPT !.processed = work[w].processed] = work[w]
  BY <1>p, <1>t DEF Locals
<1>1. CASE Take(w)
  BY <1>1, <1>g, <1>w DEF Take, Starts
<1>2. CASE Dedup(w)
  <2>1. CASE Duplicates(RunOf(w), Alert(w).test) # {}
    <3>1. pc[w] = "dedup" /\ NextAlert(w, work[w])
      BY <1>2, <2>1, Zenon DEF Dedup, Skipped
    <3>2. work[w].processed \in BOOLEAN
      BY <3>1, <1>t DEF Locals
    <3> QED
      BY <2>1, <3>1, <3>2, <1>p DEF Leaves
  <2>2. CASE Duplicates(RunOf(w), Alert(w).test) = {}
    BY <1>2, <2>2, <1>g, <1>t DEF Dedup, Stays, Locals
  <2> QED
    BY <2>1, <2>2
<1>3. CASE Scan(w)
  BY <1>3, <1>g, <1>w, <1>t DEF Scan, Stays, Locals
<1>4. CASE Resolve(w)
  BY <1>4, <1>w, <1>t DEF Resolve, Stays, Locals
<1>5. CASE PassDone(w)
  <2>1. pc[w] = "resolve" /\ NextAlert(w, work[w]) /\ work[w].todo = {}
    BY <1>5 DEF PassDone, Skipped
  <2>2. work[w].processed \in BOOLEAN
    BY <2>1, <1>t DEF Locals
  <2> QED
    BY <2>1, <2>2, <1>p DEF Leaves
<1>6. CASE Classify(w)
  <2>1. pc[w] = "classify" /\ pc'[w] = "insert"
    BY <1>6, <1>g DEF Classify
  <2>2. PICK flaky \in FlakyVerdicts(Alert(w).test) :
          work'[w] = [work[w] EXCEPT !.flaky = flaky,
                  !.routed = IF Alert(w).key # NoKey THEN Alert(w).key ELSE @]
    BY <1>6, <1>w DEF Classify
  <2>3. flaky \in BOOLEAN
    BY DEF FlakyVerdicts
  <2>4. /\ work'[w].batch = work[w].batch /\ work'[w].at = work[w].at
        /\ work'[w].processed = work[w].processed /\ work'[w].flaky \in BOOLEAN
        /\ work'[w].id = work[w].id
        /\ work'[w].routed = IF Alert(w).key # NoKey THEN Alert(w).key ELSE work[w].routed
    BY <2>1, <2>2, <2>3, <1>t DEF Locals
  <2> QED
    BY <2>1, <2>4 DEF Stays
<1>7. CASE Insert(w)
  <2>1. Appends(w) /\ pc[w] = "insert" /\ pc'[w] = "reconcile"
    BY <1>7, <1>g DEF Insert, Appends, Goto
  <2>2. work'[w] = [work[w] EXCEPT !.id = Len(incidents) + 1]
    BY <1>7, <1>w DEF Insert
  <2> QED
    BY <2>1, <2>2, <1>t DEF Stays, Locals
<1>8. CASE Reconcile(w)
  BY <1>8, <1>g, <1>w, <1>t DEF Reconcile, Stays, Locals
<1>9. CASE Tag(w)
  BY <1>9, <1>w, <1>t DEF Tag, TagOne, Stays, Locals
<1>10. CASE Launch(w)
  <2>1. pc[w] = "tag" /\ work[w].todo = {} /\ NextAlert(w, [work[w] EXCEPT !.processed = TRUE])
    BY <1>10 DEF Launch, Processed
  <2> QED
    BY <2>1 DEF Leaves
<1>11. CASE Reseen(w)
  BY <1>11, <1>g, <1>w, <1>t DEF Reseen, Stays, Locals
<1>12. CASE Retagged(w)
  BY <1>12, <1>g, <1>t DEF Retagged, Stays, Locals
<1>13. CASE Finalize(w)
  BY <1>13, <1>g DEF Finalize, Finishes
<1>14. CASE StatementFails(w)
  <2>1. CASE /\ pc[w] = "dedup"
             /\ Goto(w, IF NonPass(Alert(w)) THEN "classify" ELSE "scan")
             /\ UNCHANGED work
    BY <1>14, <2>1, <1>g, <1>t DEF Stays, Locals
  <2>2. CASE /\ pc[w] \in {"scan", "reconcile"}
             /\ Goto(w, IF pc[w] = "scan" THEN "resolve" ELSE "tag")
             /\ Keep(w, [work[w] EXCEPT !.todo = {}])
    BY <2>2, <1>g, <1>w, <1>t DEF Stays, Locals
  <2>3. CASE /\ pc[w] = "classify"
             /\ Goto(w, "insert")
             /\ Keep(w, [work[w] EXCEPT !.flaky = FALSE,
                           !.routed = IF Alert(w).key # NoKey THEN Alert(w).key ELSE @])
    <3>1. pc'[w] = "insert"
           /\ work'[w] = [work[w] EXCEPT !.flaky = FALSE,
                           !.routed = IF Alert(w).key # NoKey THEN Alert(w).key ELSE @]
      BY <2>3, <1>g, <1>w
    <3>2. /\ work'[w].batch = work[w].batch /\ work'[w].at = work[w].at
          /\ work'[w].processed = work[w].processed /\ work'[w].flaky \in BOOLEAN
          /\ work'[w].id = work[w].id
          /\ work'[w].routed = IF Alert(w).key # NoKey THEN Alert(w).key ELSE work[w].routed
      BY <2>3, <3>1, <1>t DEF Locals
    <3> QED
      BY <2>3, <3>1, <3>2 DEF Stays
  <2>4. CASE pc[w] = "insert" /\ Processed(w)
    BY <1>14, <2>4 DEF Processed, Leaves
  <2>5. CASE /\ pc[w] \in {"resolve", "tag", "retag"}
             /\ \E i \in work[w].todo : Keep(w, [work[w] EXCEPT !.todo = @ \ {i}])
             /\ UNCHANGED pc
    BY <2>5, <1>w, <1>t DEF Stays, Locals
  <2>6. CASE /\ pc[w] = "reseen"
             /\ \E t \in work[w].seen : Keep(w, [work[w] EXCEPT !.seen = @ \ {t}])
             /\ UNCHANGED pc
    BY <2>6, <1>w, <1>t DEF Stays, Locals
  <2>7. CASE /\ pc[w] = "reseen" /\ work[w].seen = {}
             /\ finished' = finished \cup {work[w].batch}
             /\ Goto(w, "idle")
    BY <2>7, <1>g DEF Finishes
  <2> QED
    BY <1>14, <2>1, <2>2, <2>3, <2>4, <2>5, <2>6, <2>7, Zenon DEF StatementFails
<1> QED
  BY <1>1, <1>2, <1>3, <1>4, <1>5, <1>6, <1>7, <1>8, <1>9, <1>10, <1>11, <1>12,
     <1>13, <1>14 DEF Work

(* A worker that leaves its alert goes on in the loop or out of it. *)
LEMMA LeavingGoesOn ==
  ASSUME Typed, NEW w \in Workers, Leaves(w)
  PROVE  /\ pc[w] \in AlertSteps
         /\ pc'[w] \in {"dedup", "reseen"}
         /\ pc'[w] = "dedup" => work'[w].at = work[w].at + 1
         /\ pc'[w] = "reseen" => work[w].at = Len(Payload[work[w].batch].alerts)
         /\ work'[w].batch = work[w].batch
         /\ work'[w].processed # work[w].processed => NonPass(Alert(w))
         /\ PositionedAt(w)'
<1>1. pc[w] \in AlertSteps
  BY DEF Leaves, AlertSteps
<1>2. work[w] \in Locals
  BY <1>1, AlertIsCase
<1>3. PICK p \in BOOLEAN : /\ p # work[w].processed => pc[w] \in {"insert", "tag"}
                          /\ NextAlert(w, [work[w] EXCEPT !.processed = p])
  BY DEF Leaves
<1> DEFINE l == [work[w] EXCEPT !.processed = p]
<1>4. /\ l \in Locals /\ l.batch = work[w].batch /\ l.at = work[w].at
      /\ l.processed = p
  BY <1>2 DEF Locals
<1>7. p # work[w].processed => NonPass(Alert(w))
  BY <1>3 DEF Typed, Positioned, PositionedAt
<1>5. l.at \in 1..Len(Payload[l.batch].alerts)
  BY <1>1, <1>4 DEF Typed, Positioned, PositionedAt
<1>6. NextAlert(w, l)
  BY <1>3
<1> HIDE DEF l
<1> QED
  BY <1>1, <1>4, <1>5, <1>6, <1>7, NextAlertPositioned

(* Who can have moved: nobody, everybody in a crash, or one worker. *)
LEMMA WhoMoves ==
  ASSUME Typed, [Next]_vars, NEW v \in Workers
  PROVE  \/ pc'[v] = pc[v] /\ work'[v] = work[v]
         \/ Crash /\ pc'[v] = "idle"
         \/ Work(v) \/ StatementFails(v)
<1>1. Frame
  BY Frames
<1>2. CASE UNCHANGED <<pc, work>>
  BY <1>2
<1>3. CASE Crash
  BY <1>3 DEF Crash
<1>4. ASSUME NEW w \in Workers, Work(w) \/ StatementFails(w), v # w
      PROVE  pc'[v] = pc[v] /\ work'[v] = work[v]
  BY <1>4, OthersStay
<1> QED
  BY <1>1, <1>2, <1>3, <1>4 DEF Frame

LEMMA PositionedStep ==
  ASSUME Typed, [Next]_vars
  PROVE  Positioned'
<1>k. KeptRows
  BY TableChanges, RowsKept
<1>s. SUFFICES ASSUME NEW v \in Workers PROVE PositionedAt(v)'
  BY DEF Positioned
<1>p. PositionedAt(v)
  BY DEF Typed, Positioned
<1>1. CASE pc'[v] = pc[v] /\ work'[v] = work[v]
  BY <1>1, <1>k, <1>p, Standing DEF PositionedAt
<1>2. CASE pc'[v] = "idle"
  BY <1>2 DEF PositionedAt, AlertSteps
<1>3. CASE Work(v) \/ StatementFails(v)
  <2>1. CASE Starts(v)
    <3>1. CASE pc'[v] = "reseen"
      BY <3>1 DEF PositionedAt, AlertSteps
    <3>2. CASE pc'[v] = "dedup"
      <4> DEFINE b == Head(ingestQueue)
      <4>1. b \in Batches
        BY <2>1 DEF Starts, Typed, TypeOK
      <4>2. Payload[b].alerts \in Seq(Cases) /\ Payload[b].alerts # <<>>
        BY <2>1, <3>2, <4>1, PipelineAssumption DEF Starts
      <4>3. work'[v].batch = b /\ work'[v].at = 1
        BY <2>1 DEF Starts, Fresh
      <4> HIDE DEF b
      <4>4. work'[v].at \in 1..Len(Payload[work'[v].batch].alerts)
        BY <4>2, <4>3
      <4> QED
        BY <3>2, <4>4 DEF PositionedAt
    <3> QED
      BY <2>1, <3>1, <3>2 DEF Starts
  <2>2. CASE Leaves(v)
    BY <2>2, LeavingGoesOn
  <2>3. CASE Stays(v) /\ pc[v] # "insert"
    <3>1. pc'[v] \in AlertSteps => pc[v] \in AlertSteps
      BY <2>3 DEF Stays, AlertSteps
    <3>2. /\ pc'[v] \in {"classify", "insert", "reconcile", "tag"} => NonPass(Alert(v))
          /\ pc'[v] \in {"scan", "resolve"} => ~NonPass(Alert(v))
      BY <2>3, <1>p DEF Stays, PositionedAt
    <3>3. pc'[v] \in {"reconcile", "tag"} =>
            pc[v] \in {"reconcile", "tag"} /\ work'[v].id = work[v].id
      BY <2>3 DEF Stays
    <3> QED
      BY <2>3, <3>1, <3>2, <3>3, <1>k, Standing DEF Stays
  <2>4. CASE Stays(v) /\ pc[v] = "insert"
    <3>1. /\ pc'[v] = "reconcile" /\ work'[v].id = Len(incidents) + 1
          /\ work'[v].batch = work[v].batch /\ work'[v].at = work[v].at
          /\ Appends(v)
      BY <2>4 DEF Stays
    <3>2. Alert(v)' = Alert(v) /\ RunOf(v)' = RunOf(v)
      BY <3>1 DEF Alert, RunOf
    <3>3. incidents \in Seq(Row)
      BY DEF Typed, TypeOK
    <3>4. PICK form : incidents' = Append(incidents,
            [test |-> Alert(v).test, form |-> form, run |-> RunOf(v),
             key |-> Alert(v).key, state |-> "open"])
      BY <3>1 DEF Appends
    <3>5. /\ work'[v].id \in 1..Len(incidents')
          /\ incidents'[work'[v].id] =
               [test |-> Alert(v).test, form |-> form, run |-> RunOf(v),
                key |-> Alert(v).key, state |-> "open"]
      BY <3>1, <3>3, <3>4
    <3>6. NonPass(Alert(v)) /\ work[v].at \in 1..Len(Payload[work[v].batch].alerts)
      BY <2>4, <1>p DEF PositionedAt, AlertSteps
    <3> QED
      BY <3>1, <3>2, <3>5, <3>6 DEF PositionedAt
  <2>5. CASE Finishes(v)
    BY <1>2, <2>5 DEF Finishes
  <2> QED
    BY <1>3, <2>1, <2>2, <2>3, <2>4, <2>5, WorkerMoves
<1> QED
  BY <1>1, <1>2, <1>3, WhoMoves

LEMMA TypedStep ==
  ASSUME Typed, [Next]_vars
  PROVE  Typed'
BY TypeStep, PositionedStep DEF Typed

THEOREM AlwaysTyped == Spec => []Typed
<1>1. Init => Typed
  BY TypeInit
<1>2. Typed /\ [Next]_vars => Typed'
  BY TypedStep
<1> QED
  BY <1>1, <1>2, PTL DEF Spec

(* Every variable keeps its type, for any payloads, workers and bounds. *)
THEOREM TypeCorrect == Spec => []TypeOK
<1>1. Typed => TypeOK
  BY DEF Typed
<1> QED
  BY <1>1, AlwaysTyped, PTL

-----------------------------------------------------------------------------
(* Repeated failures are tagged.                                            *)

(* A row that was not there was inserted by a worker that stays with its    *)
(* alert, to reconcile it.                                                  *)
LEMMA NewRow ==
  ASSUME Typed, [Next]_vars,
         NEW i \in 1..Len(incidents'), i \notin 1..Len(incidents)
  PROVE  \E w \in Workers :
           /\ Stays(w) /\ Appends(w) /\ pc'[w] = "reconcile"
           /\ Alert(w)' = Alert(w) /\ RunOf(w)' = RunOf(w)
           /\ i = Len(incidents) + 1
           /\ incidents'[i].test = Alert(w).test
           /\ incidents'[i].form = IF work[w].flaky THEN "flaky" ELSE Alert(w).form
           /\ incidents'[i].run = RunOf(w)
           /\ incidents'[i].key = Alert(w).key
<1>t. incidents \in Seq(Row) /\ pc \in [Workers -> Steps]
  BY DEF Typed, TypeOK
<1>1. PICK w \in Workers : Appends(w)
  <2>1. ASSUME NEW k \in Stored, incidents' = [incidents EXCEPT ![k].form = "flaky"] PROVE FALSE
    <3>1. Len(incidents') = Len(incidents)
      BY <2>1, <1>t
    <3> QED
      BY <3>1
  <2>2. ASSUME NEW k \in Stored, NEW st, incidents' = [incidents EXCEPT ![k].state = st] PROVE FALSE
    <3>1. Len(incidents') = Len(incidents)
      BY <2>2, <1>t
    <3> QED
      BY <3>1
  <2>3. incidents' # incidents
    OBVIOUS
  <2> QED
    BY <2>1, <2>2, <2>3, TableChanges DEF TableChange
<1>2. pc[w] = "insert" /\ pc'[w] = "reconcile"
  BY <1>1, <1>t DEF Appends
<1>3. Work(w) \/ StatementFails(w)
  BY <1>2, WhoMoves
<1>4. Stays(w)
  BY <1>2, <1>3, WorkerMoves, LeavingGoesOn DEF Starts, Finishes
<1>5. Alert(w)' = Alert(w) /\ RunOf(w)' = RunOf(w)
  BY <1>4 DEF Stays, Alert, RunOf
<1> DEFINE r == [test |-> Alert(w).test,
                 form |-> IF work[w].flaky THEN "flaky" ELSE Alert(w).form,
                 run |-> RunOf(w), key |-> Alert(w).key, state |-> "open"]
<1>6. incidents' = Append(incidents, r)
  BY <1>1 DEF Appends
<1> HIDE DEF r
<1>7. i = Len(incidents) + 1 /\ incidents'[i] = r
  BY <1>6, <1>t
<1>8. /\ r.test = Alert(w).test /\ r.run = RunOf(w) /\ r.key = Alert(w).key
      /\ r.form = IF work[w].flaky THEN "flaky" ELSE Alert(w).form
  BY DEF r
<1> QED
  BY <1>1, <1>2, <1>4, <1>5, <1>7, <1>8, Zenon

(* A failure of a test after a step that was a row before it was one then.  *)
LEMMA FailuresShrink ==
  ASSUME Typed, [Next]_vars, NEW t, NEW i \in Failures(t)', i \in 1..Len(incidents)
  PROVE  i \in Failures(t)
<1>1. KeptRows
  BY TableChanges, RowsKept
<1>2. aged \in Nat /\ aged' \in Nat /\ aged <= aged'
  <2>1. aged \in Nat
    BY DEF Typed, TypeOK
  <2>2. aged' = aged \/ aged' = aged + 1
    BY Frames DEF Frame, Age
  <2> QED
    BY <2>1, <2>2
<1> QED
  BY <1>1, <1>2 DEF Failures, Stored, KeptRows

LEMMA ErrorsGrow ==
  ASSUME Typed, [Next]_vars, errors' = 0
  PROVE  errors = 0 /\ \A w \in Workers : ~StatementFails(w)
<1>1. errors \in Nat
  BY DEF Typed, TypeOK
<1>2. \A w \in Workers : StatementFails(w) => errors' = errors + 1
  BY Zenon DEF StatementFails
<1> QED
  BY <1>1, <1>2, Frames DEF Frame

(* A row that a worker has read is tagged by it, or left for it to tag. *)
LEMMA Tagging ==
  ASSUME Typed, NEW w \in Workers, Tag(w), NEW i \in work[w].todo,
         NEW t, i \in Failures(t)
  PROVE  \/ incidents'[i].form = "flaky"
         \/ pc'[w] = pc[w] /\ i \in work'[w].todo
<1>t. work \in [Workers -> Locals \cup {NoWork}] /\ work[w] \in Locals
      /\ pc \in [Workers -> Steps] /\ incidents \in Seq(Row)
  BY DEF Tag, Typed, TypeOK
<1>1. PICK k \in work[w].todo :
         /\ incidents' = IF k \in Stored
                         THEN [incidents EXCEPT ![k].form = "flaky"]
                         ELSE incidents
         /\ Keep(w, [work[w] EXCEPT !.todo = @ \ {k}])
  BY DEF Tag, TagOne
<1>2. pc'[w] = pc[w] /\ work'[w].todo = work[w].todo \ {k}
  BY <1>1, <1>t DEF Tag, Keep, Locals
<1>3. CASE k # i
  BY <1>2, <1>3
<1>4. CASE k = i
  <2>1. i \in Stored /\ i \in 1..Len(incidents)
    BY DEF Failures, Stored
  <2>2. incidents' = [incidents EXCEPT ![i].form = "flaky"]
    BY <1>1, <1>4, <2>1
  <2>3. incidents[i] \in Row
    BY <1>t, <2>1
  <2> QED
    BY <1>t, <2>1, <2>2, <2>3 DEF Row
<1> QED
  BY <1>3, <1>4

(* A row that is tagged, or that some worker is about to tag. *)
InHand(i) == incidents[i].form = "flaky" \/ \E w \in Workers : WillTag(w, i)

(* Nobody lets go of a row of a test with two failures in the window: the   *)
(* worker that read it tags it, and a new row puts all of them in the hands *)
(* of the worker that inserted it.                                          *)
LEMMA HeldStep ==
  ASSUME Typed, [Next]_vars, errors' = 0, ~Crash,
         NEW t, NEW i \in Failures(t), NEW j \in Failures(t), i # j, InHand(i)
  PROVE  InHand(i)'
<1>k. KeptRows
  BY TableChanges, RowsKept
<1>q. \A w \in Workers : ~StatementFails(w)
  BY ErrorsGrow
<1>i. i \in 1..Len(incidents) /\ incidents[i].test = t /\ incidents'[i].test = t
  BY <1>k DEF Failures, Stored, KeptRows
<1>1. CASE incidents[i].form = "flaky"
  BY <1>i, <1>k, <1>1 DEF KeptRows, InHand
<1>2. ASSUME NEW w \in Workers, WillTag(w, i)
      PROVE  incidents'[i].form = "flaky" \/ WillTag(w, i)'
  <2>1. CASE pc'[w] = pc[w] /\ work'[w] = work[w]
    BY <1>2, <1>i, <2>1 DEF WillTag, Alert
  <2>2. CASE Work(w)
    <3>t. work \in [Workers -> Locals \cup {NoWork}] /\ work[w] \in Locals
          /\ pc \in [Workers -> Steps] /\ incidents \in Seq(Row)
      BY <1>2 DEF WillTag, Typed, TypeOK
    <3>1. CASE pc[w] = "reconcile"
      <4>1. Reconcile(w)
        BY <2>2, <3>1 DEF Work, Take, Dedup, Scan, Resolve, PassDone, Classify,
           Insert, Tag, Launch, Reseen, Retagged, Finalize
      <4>2. Alert(w).test = t
        BY <1>2, <1>i, <3>1 DEF WillTag
      <4>3. i \in ToTag(Alert(w).test)
        BY <4>2 DEF ToTag
      <4>4. pc'[w] = "tag" /\ work'[w].todo = ToTag(Alert(w).test)
        BY <4>1, <3>t DEF Reconcile, Goto, Keep, Locals
      <4> QED
        BY <4>3, <4>4 DEF WillTag
    <3>2. CASE pc[w] = "tag"
      <4>1. i \in work[w].todo
        BY <1>2, <3>2 DEF WillTag
      <4>2. Tag(w)
        BY <2>2, <3>2, <4>1 DEF Work, Take, Dedup, Scan, Resolve, PassDone, Classify,
           Insert, Reconcile, Launch, Reseen, Retagged, Finalize
      <4> QED
        BY <1>i, <3>2, <4>1, <4>2, Tagging DEF WillTag
    <3> QED
      BY <1>2, <3>1, <3>2 DEF WillTag
  <2> QED
    BY <1>q, <2>1, <2>2, WhoMoves
<1> QED
  BY <1>1, <1>2 DEF InHand

LEMMA InHandStep ==
  ASSUME Typed, [Next]_vars, errors' = 0, ~Crash,
         NEW t, NEW i \in Failures(t)', NEW j \in Failures(t)', i # j,
         i \in Failures(t) /\ j \in Failures(t) => InHand(i)
  PROVE  InHand(i)'
<1>r. /\ i \in 1..Len(incidents') /\ j \in 1..Len(incidents')
      /\ incidents'[i].test = t /\ incidents'[j].test = t
  BY DEF Failures, Stored
<1>1. CASE i \notin 1..Len(incidents) \/ j \notin 1..Len(incidents)
  <2>1. PICK k \in {i, j} : k \notin 1..Len(incidents)
    BY <1>1
  <2>2. k \in 1..Len(incidents') /\ incidents'[k].test = incidents'[i].test
    BY <2>1, <1>r
  <2>3. PICK w \in Workers : pc'[w] = "reconcile" /\ Alert(w)' = Alert(w)
                            /\ incidents'[k].test = Alert(w).test
    BY <2>1, <2>2, NewRow, Zenon
  <2> QED
    BY <2>2, <2>3 DEF WillTag, InHand
<1>2. CASE i \in 1..Len(incidents) /\ j \in 1..Len(incidents)
  <2>1. i \in Failures(t) /\ j \in Failures(t)
    BY <1>2, FailuresShrink
  <2> QED
    BY <2>1, HeldStep
<1> QED
  BY <1>1, <1>2

LEMMA FlakyStep ==
  ASSUME Typed, [Next]_vars, FlakyTagged
  PROVE  FlakyTagged'
<1> SUFFICES ASSUME crashes' = 0, errors' = 0, NEW t,
                    NEW i \in Failures(t)', NEW j \in Failures(t)', i # j
             PROVE  InHand(i)'
  BY DEF FlakyTagged, InHand
<1>q. crashes = 0 /\ errors = 0 /\ ~Crash
  <2>1. crashes \in Nat
    BY DEF Typed, TypeOK
  <2>2. Crash => crashes' = crashes + 1
    BY DEF Crash
  <2> QED
    BY <2>1, <2>2, ErrorsGrow, Frames DEF Frame
<1>1. i \in Failures(t) /\ j \in Failures(t) => InHand(i)
  BY <1>q DEF FlakyTagged, InHand, Failures, Stored
<1> QED
  BY <1>q, <1>1, InHandStep

(* Two failures of a test in the window are tagged or about to be, however  *)
(* many workers reconcile at once.                                          *)
THEOREM FailuresGetTagged == Spec => []FlakyTagged
<1>1. Init => FlakyTagged
  BY DEF Init, FlakyTagged
<1>2. Typed /\ FlakyTagged /\ [Next]_vars => FlakyTagged'
  BY FlakyStep
<1> QED
  BY <1>1, <1>2, AlwaysTyped, PTL DEF Spec

-----------------------------------------------------------------------------
(* The reconciliation after the loop.                                       *)

(* The tests a worker has ticked off have their failures tagged, about to   *)
(* be, or still on its own list.                                            *)
RepairedAt(w) ==
  pc[w] \in {"reseen", "retag"} =>
    \A t \in NonPassTests(work[w].batch) \ work[w].seen : \A i, j \in Failures(t) :
      i # j => InHand(i) \/ (pc[w] = "retag" /\ i \in work[w].todo)

Repaired == errors = 0 => \A w \in Workers : RepairedAt(w)

LEMMA RepairedStep ==
  ASSUME Typed, [Next]_vars, Repaired
  PROVE  Repaired'
<1> SUFFICES ASSUME errors' = 0, NEW w \in Workers, pc'[w] \in {"reseen", "retag"},
                    NEW t, t \in NonPassTests(work'[w].batch), t \notin work'[w].seen,
                    NEW i \in Failures(t)', NEW j \in Failures(t)', i # j
             PROVE  InHand(i)' \/ (pc'[w] = "retag" /\ i \in work'[w].todo)
  BY DEF Repaired, RepairedAt
<1>q. errors = 0 /\ ~StatementFails(w) /\ ~Crash
  BY ErrorsGrow DEF Crash
<1>a. RepairedAt(w)
  BY <1>q DEF Repaired
<1>l. pc[w] # "idle" => work[w] \in Locals
  BY DEF Typed, TypeOK
<1>t. pc \in [Workers -> Steps] /\ work \in [Workers -> Locals \cup {NoWork}]
  BY DEF Typed, TypeOK
<1>h. ASSUME i \in Failures(t) /\ j \in Failures(t) => InHand(i)
      PROVE  InHand(i)'
  BY <1>h, <1>q, InHandStep
<1>1. CASE pc'[w] = pc[w] /\ work'[w] = work[w]
  BY <1>1, <1>a, <1>h DEF RepairedAt
<1>2. CASE Work(w)
  <2>1. CASE Starts(w)
    <3>1. /\ work'[w].batch = Head(ingestQueue)
          /\ Payload[Head(ingestQueue)].alerts = <<>>
      BY <2>1 DEF Starts, Fresh
    <3> QED
      BY <3>1 DEF NonPassTests
  <2>2. CASE Leaves(w)
    <3>1. PICK p \in BOOLEAN : NextAlert(w, [work[w] EXCEPT !.processed = p])
      BY <2>2 DEF Leaves
    <3> DEFINE l == [work[w] EXCEPT !.processed = p]
    <3>2. work[w] \in Locals
      BY <2>2, <1>l, LeavingGoesOn DEF AlertSteps
    <3>3. l \in Locals /\ l.batch = work[w].batch
      BY <3>2 DEF Locals
    <3>4. NextAlert(w, l)
      BY <3>1
    <3> HIDE DEF l
    <3>5. Goto(w, "reseen") /\ Keep(w, [l EXCEPT !.seen = NonPassTests(l.batch)])
      <4>1. pc'[w] # "dedup"
        OBVIOUS
      <4> QED
        BY <4>1, <3>3, <3>4, <1>t, NextAlertMoves DEF Goto
    <3>6. work'[w].seen = NonPassTests(l.batch) /\ work'[w].batch = l.batch
      BY <3>3, <3>5, <1>t DEF Keep, Locals
    <3> QED
      BY <3>6
  <2>3. CASE Stays(w) /\ pc[w] = "reseen"
    <3>0. Reseen(w) \/ Finalize(w)
      BY <1>2, <2>3 DEF Work, Take, Dedup, Scan, Resolve, PassDone, Classify, Insert,
         Reconcile, Tag, Launch, Retagged
    <3>1. Reseen(w)
      BY <3>0, <1>t DEF Finalize, Goto
    <3>2. incidents' = incidents /\ aged' = aged
      BY <3>1 DEF Reseen, db
    <3>3. Failures(t)' = Failures(t)
      BY <3>2 DEF Failures, Stored
    <3>4. PICK u \in work[w].seen : Keep(w, [work[w] EXCEPT !.seen = @ \ {u}, !.todo = ToTag(u)])
      BY <3>1, Zenon DEF Reseen
    <3>5. /\ pc'[w] = "retag" /\ work'[w].todo = ToTag(u) /\ work'[w].seen = work[w].seen \ {u}
          /\ work'[w].batch = work[w].batch
      BY <2>3, <3>1, <3>4, <1>l, <1>t DEF Reseen, Goto, Keep, Locals
    <3>6. CASE t = u
      BY <3>3, <3>5, <3>6 DEF ToTag
    <3>7. CASE t # u
      <4>1. t \in NonPassTests(work[w].batch) \ work[w].seen
        BY <3>5, <3>7
      <4>2. i \in Failures(t) /\ j \in Failures(t) => InHand(i)
        BY <4>1, <2>3, <1>a DEF RepairedAt
      <4> QED
        BY <4>2, <1>h
    <3> QED
      BY <3>6, <3>7
  <2>4. CASE Stays(w) /\ pc[w] = "retag"
    <3>1. Tag(w) \/ Retagged(w)
      BY <1>2, <2>4 DEF Work, Take, Dedup, Scan, Resolve, PassDone, Classify, Insert,
         Reconcile, Launch, Reseen, Finalize
    <3>2. work'[w].batch = work[w].batch /\ work'[w].seen = work[w].seen
      BY <3>1, <2>4, <1>l, <1>t DEF Tag, TagOne, Retagged, Keep, Locals
    <3>3. t \in NonPassTests(work[w].batch) \ work[w].seen
      BY <3>2
    <3>4. CASE i \in Failures(t) /\ j \in Failures(t) /\ ~InHand(i)
      <4>1. i \in work[w].todo
        BY <3>3, <3>4, <2>4, <1>a DEF RepairedAt
      <4>2. Tag(w)
        BY <3>1, <4>1 DEF Retagged
      <4>3. incidents'[i].form = "flaky" \/ (pc'[w] = "retag" /\ i \in work'[w].todo)
        BY <4>1, <4>2, <3>4, <2>4, Tagging
      <4> QED
        BY <4>3 DEF InHand
    <3> QED
      BY <3>4, <1>h
  <2>5. CASE Finishes(w)
    BY <2>5 DEF Finishes
  <2>6. CASE Stays(w) /\ pc[w] \notin {"reseen", "retag"}
    BY <2>6 DEF Stays
  <2> QED
    BY <1>2, <2>1, <2>2, <2>3, <2>4, <2>5, <2>6, WorkerMoves
<1> QED
  BY <1>1, <1>2, <1>q, WhoMoves

(* A batch that is done leaves the tests it reported tagged, or about to be *)
(* by the worker that inserted another of their failures: though an earlier *)
(* delivery of it, and its tagging, may have died half way.                 *)
THEOREM FinishingRepairs == Spec => RepairedOnFinish
<1>1. Init => Repaired
  BY DEF Init, Repaired, RepairedAt
<1>2. Typed /\ Repaired /\ [Next]_vars => Repaired'
  BY RepairedStep
<1>3. Spec => []Repaired
  BY <1>1, <1>2, AlwaysTyped, PTL DEF Spec
<1> DEFINE P == \A w \in Workers :
       pc[w] = "reseen" /\ pc'[w] = "idle" /\ errors' = 0 /\ crashes' = crashes =>
         \A t \in NonPassTests(work[w].batch) : \A i, j \in Failures(t) :
           i # j => \/ incidents[i].form = "flaky"
                    \/ \E v \in Workers : WillTag(v, i)
<1>4. ASSUME Typed, Repaired, [Next]_vars PROVE [P]_vars
  <2> SUFFICES ASSUME NEW w \in Workers, pc[w] = "reseen", pc'[w] = "idle",
                      errors' = 0, crashes' = crashes,
                      NEW t \in NonPassTests(work[w].batch),
                      NEW i \in Failures(t), NEW j \in Failures(t), i # j
               PROVE  InHand(i)
    BY DEF InHand
  <2>1. errors = 0 /\ ~StatementFails(w) /\ ~Crash
    <3>1. crashes \in Nat
      BY <1>4 DEF Typed, TypeOK
    <3> QED
      BY <1>4, <3>1, ErrorsGrow DEF Crash
  <2>2. Work(w)
    BY <1>4, <2>1, WhoMoves
  <2>3. work[w].seen = {}
    BY <1>4, <2>2, WorkerMoves, LeavingGoesOn DEF Starts, Stays, Finishes
  <2> QED
    BY <1>4, <2>1, <2>3 DEF Repaired, RepairedAt
<1>5. Spec => [][P]_vars
  BY <1>3, <1>4, AlwaysTyped, PTL DEF Spec
<1> QED
  BY <1>5 DEF RepairedOnFinish

-----------------------------------------------------------------------------
(* Jira keys.                                                               *)

(* From its classification on, an alert with a key has put it in the        *)
(* routing map of its batch.                                                *)
Keyed ==
  \A w \in Workers :
    pc[w] \in {"insert", "reconcile", "tag"} /\ Alert(w).key # NoKey =>
      work[w].routed = Alert(w).key

LEMMA KeyStep ==
  ASSUME Typed, [Next]_vars, Keyed
  PROVE  Keyed'
<1> SUFFICES ASSUME NEW w \in Workers, pc'[w] \in {"insert", "reconcile", "tag"},
                    Alert(w)'.key # NoKey
             PROVE  work'[w].routed = Alert(w)'.key
  BY DEF Keyed
<1>1. CASE pc'[w] = pc[w] /\ work'[w] = work[w]
  <2>1. Alert(w)' = Alert(w)
    BY <1>1 DEF Alert
  <2> QED
    BY <1>1, <2>1 DEF Keyed
<1>2. CASE Work(w) \/ StatementFails(w)
  <2>1. Stays(w)
    BY <1>2, WorkerMoves, LeavingGoesOn DEF Starts, Finishes
  <2>2. Alert(w)' = Alert(w)
    BY <2>1 DEF Stays, Alert
  <2>3. pc[w] = "classify" \/ pc[w] \in {"insert", "reconcile", "tag"}
    BY <2>1 DEF Stays
  <2> QED
    BY <2>1, <2>2, <2>3 DEF Stays, Keyed
<1> QED
  BY <1>1, <1>2, WhoMoves

LEMMA OwnKeyStep ==
  ASSUME Typed, [Next]_vars, Keyed, OwnKeyWins
  PROVE  OwnKeyWins'
<1> SUFFICES ASSUME NEW l \in launched', incidents'[l.id].key # NoKey
             PROVE  l.key = incidents'[l.id].key
  BY DEF OwnKeyWins
<1>k. KeptRows
  BY TableChanges, RowsKept
<1>1. CASE l \in launched
  <2>1. l.id \in 1..Len(incidents)
    BY <1>1 DEF Typed, TypeOK
  <2> QED
    BY <1>1, <1>k, <2>1 DEF KeptRows, OwnKeyWins
<1>2. ASSUME NEW w \in Workers, Launch(w), l = [id |-> work[w].id, key |-> work[w].routed]
      PROVE  l.key = incidents'[l.id].key
  <2>1. pc[w] = "tag" /\ incidents' = incidents
    BY <1>2 DEF Launch, db
  <2>2. incidents[work[w].id].key = Alert(w).key
    BY <2>1 DEF Typed, Positioned, PositionedAt
  <2> QED
    BY <1>2, <2>1, <2>2 DEF Keyed
<1>3. l \in launched \/ \E w \in Workers :
        Launch(w) /\ l = [id |-> work[w].id, key |-> work[w].routed]
  BY Frames DEF Frame, Launch
<1> QED
  BY <1>1, <1>2, <1>3

(* An incident stored with a Jira key is remediated under that key. *)
THEOREM KeysAreOwn == Spec => []OwnKeyWins
<1>1. Init => Keyed /\ OwnKeyWins
  BY DEF Init, Keyed, OwnKeyWins
<1>2. Typed /\ (Keyed /\ OwnKeyWins) /\ [Next]_vars => (Keyed /\ OwnKeyWins)'
  BY KeyStep, OwnKeyStep
<1>3. Spec => [](Keyed /\ OwnKeyWins)
  BY <1>1, <1>2, AlwaysTyped, PTL DEF Spec
<1> QED
  BY <1>3, PTL

-----------------------------------------------------------------------------
(* No failure is swallowed.                                                 *)

Recorded(run, t) ==
  \E i \in 1..Len(incidents) : incidents[i].run = run /\ incidents[i].test = t

(* The failures a worker has gone past are recorded. *)
CoveredAt(w) ==
  /\ pc[w] \in AlertSteps =>
       \A j \in 1..(work[w].at - 1) :
         LET c == Payload[work[w].batch].alerts[j]
         IN  NonPass(c) => Recorded(RunOf(w), c.test)
  /\ pc[w] \in {"reseen", "retag"} =>
       \A t \in NonPassTests(work[w].batch) : Recorded(RunOf(w), t)

Covered == errors = 0 => \A w \in Workers : CoveredAt(w)

LEMMA RecordedStays ==
  ASSUME Typed, [Next]_vars, NEW run, NEW t, Recorded(run, t)
  PROVE  Recorded(run, t)'
<1>1. KeptRows
  BY TableChanges, RowsKept
<1>2. PICK i \in 1..Len(incidents) : incidents[i].run = run /\ incidents[i].test = t
  BY DEF Recorded
<1>3. i \in 1..Len(incidents')
  BY <1>1, <1>2 DEF KeptRows
<1> QED
  BY <1>1, <1>2, <1>3 DEF Recorded, KeptRows

LEMMA CoveredStep ==
  ASSUME Typed, [Next]_vars, Covered
  PROVE  Covered'
<1> SUFFICES ASSUME errors' = 0, NEW w \in Workers PROVE CoveredAt(w)'
  BY DEF Covered
<1>e. CoveredAt(w) /\ ~StatementFails(w)
  BY ErrorsGrow DEF Covered
<1>b. pc[w] # "idle" => work[w] \in Locals
  BY DEF Typed, TypeOK
<1>1. ASSUME work'[w].batch = work[w].batch, work'[w].at = work[w].at,
             pc'[w] \in AlertSteps => pc[w] \in AlertSteps,
             pc'[w] \in {"reseen", "retag"} => pc[w] \in {"reseen", "retag"}
      PROVE  CoveredAt(w)'
  BY <1>1, <1>e, RecordedStays DEF CoveredAt, RunOf
<1>2. CASE Crash /\ pc'[w] = "idle"
  BY <1>2 DEF CoveredAt, AlertSteps
<1>3. CASE Work(w)
  <2>1. CASE Starts(w)
    <3>1. work'[w] = Fresh(Head(ingestQueue)) /\ Head(ingestQueue) \in Batches
      BY <2>1 DEF Starts, Typed, TypeOK
    <3>2. work'[w].batch = Head(ingestQueue) /\ work'[w].at = 1
      BY <3>1 DEF Fresh
    <3>3. CASE pc'[w] = "dedup"
      BY <3>2, <3>3 DEF CoveredAt
    <3>4. CASE pc'[w] = "reseen"
      <4>1. Payload[work'[w].batch].alerts = <<>>
        BY <2>1, <3>2, <3>4 DEF Starts
      <4>2. NonPassTests(work'[w].batch) = {}
        BY <4>1 DEF NonPassTests
      <4> QED
        BY <3>4, <4>2 DEF CoveredAt, AlertSteps
    <3> QED
      BY <2>1, <3>3, <3>4 DEF Starts
  <2>2. CASE Leaves(w)
    <3>0. PICK b \in Batches : b = work[w].batch
      BY <2>2, LeavingGoesOn, AlertIsCase DEF Locals
    <3> DEFINE A == Payload[b].alerts
               r == Payload[b].run
    <3>1. pc[w] \in AlertSteps /\ A \in Seq(Cases) /\ work[w].at \in 1..Len(A)
      BY <2>2, <3>0, LeavingGoesOn, PipelineAssumption DEF Typed, Positioned, PositionedAt
    <3>2. Alert(w) = A[work[w].at] /\ RunOf(w) = r
      BY <3>0 DEF Alert, RunOf
    <3>3. NonPass(Alert(w)) => Recorded(r, Alert(w).test)
      <4>1. CASE pc[w] = "dedup"
        <5>1. PICK i \in Duplicates(RunOf(w), Alert(w).test) : TRUE
          BY <2>2, <4>1 DEF Leaves
        <5> QED
          BY <3>2, <5>1 DEF Duplicates, Open, Recorded
      <4>2. CASE pc[w] = "resolve"
        BY <4>2 DEF Typed, Positioned, PositionedAt
      <4>3. CASE pc[w] = "tag"
        BY <3>2, <4>3 DEF Typed, Positioned, PositionedAt, Recorded
      <4> QED
        BY <2>2, <1>e, <4>1, <4>2, <4>3 DEF Leaves
    <3>4. ASSUME NEW j \in 1..work[w].at, NonPass(A[j])
          PROVE  Recorded(r, A[j].test)'
      <4>1. CASE j = work[w].at
        BY <3>2, <3>3, <3>4, <4>1, RecordedStays
      <4>2. CASE j # work[w].at
        <5>1. j \in 1..(work[w].at - 1)
          BY <3>1, <3>4, <4>2
        <5>2. Recorded(r, A[j].test)
          BY <1>e, <3>0, <3>1, <3>2, <3>4, <5>1 DEF CoveredAt
        <5> QED
          BY <5>2, RecordedStays
      <4> QED
        BY <4>1, <4>2
    <3>6. RunOf(w)' = r /\ work'[w].batch = b
      BY <2>2, <3>0, LeavingGoesOn DEF RunOf
    <3>7. CASE pc'[w] = "dedup"
      <4>1. work'[w].at = work[w].at + 1
        BY <2>2, <3>7, LeavingGoesOn
      <4>2. 1..(work'[w].at - 1) = 1..work[w].at
        BY <3>1, <4>1
      <4> QED
        BY <3>4, <3>6, <3>7, <4>2 DEF CoveredAt
    <3>8. CASE pc'[w] = "reseen"
      <4>1. work[w].at = Len(A)
        BY <2>2, <3>0, <3>8, LeavingGoesOn
      <4>2. \A j \in 1..Len(A) : NonPass(A[j]) => Recorded(r, A[j].test)'
        BY <3>4, <4>1
      <4>3. \A t \in NonPassTests(b) : Recorded(r, t)'
        BY <4>2 DEF NonPassTests
      <4> QED
        BY <3>6, <3>8, <4>3 DEF CoveredAt, AlertSteps
    <3> QED
      BY <2>2, <3>7, <3>8, LeavingGoesOn
  <2>3. CASE Stays(w)
    BY <1>1, <2>3 DEF Stays, AlertSteps
  <2>4. CASE Finishes(w)
    BY <2>4 DEF Finishes, CoveredAt, AlertSteps
  <2> QED
    BY <1>3, <2>1, <2>2, <2>3, <2>4, WorkerMoves
<1> QED
  BY <1>1, <1>2, <1>3, <1>e, WhoMoves

LEMMA SwallowStep ==
  ASSUME Typed, [Next]_vars, Covered, NoFailureSwallowed
  PROVE  NoFailureSwallowed'
<1> SUFFICES ASSUME errors' = 0, NEW b \in finished', NEW t \in NonPassTests(b)
             PROVE  Recorded(Payload[b].run, t)'
  BY DEF NoFailureSwallowed, Recorded
<1>e. errors = 0
  BY ErrorsGrow
<1>1. CASE b \in finished
  <2>1. Recorded(Payload[b].run, t)
    BY <1>1, <1>e DEF NoFailureSwallowed, Recorded
  <2> QED
    BY <2>1, RecordedStays
<1>2. CASE b \notin finished
  <2>1. PICK w \in Workers : pc[w] = "reseen" /\ b = work[w].batch
    BY <1>2, Frames DEF Frame
  <2>2. Recorded(RunOf(w), t)
    BY <1>e, <2>1 DEF Covered, CoveredAt
  <2>3. RunOf(w) = Payload[b].run
    BY <2>1 DEF RunOf
  <2> QED
    BY <2>2, <2>3, RecordedStays
<1> QED
  BY <1>1, <1>2

(* Whatever is skipped as a duplicate, every failure of a finished batch    *)
(* has an incident of its run and test.                                     *)
THEOREM FailuresAreStored == Spec => []NoFailureSwallowed
<1>1. Init => Covered /\ NoFailureSwallowed
  BY DEF Init, Covered, CoveredAt, AlertSteps, NoFailureSwallowed
<1>2. Typed /\ (Covered /\ NoFailureSwallowed) /\ [Next]_vars
        => (Covered /\ NoFailureSwallowed)'
  BY CoveredStep, SwallowStep
<1>3. Spec => [](Covered /\ NoFailureSwallowed)
  BY <1>1, <1>2, AlwaysTyped, PTL DEF Spec
<1> QED
  BY <1>3, PTL

-----------------------------------------------------------------------------
(* The outcome of a run.                                                    *)

(* processed > 0 only after an alert that did not pass. *)
ProcessedIsFailure ==
  \A w \in Workers :
    pc[w] # "idle" /\ work[w].processed => NonPassTests(work[w].batch) # {}

LEMMA ProcessedStep ==
  ASSUME Typed, [Next]_vars, ProcessedIsFailure
  PROVE  ProcessedIsFailure'
<1> SUFFICES ASSUME NEW w \in Workers, pc'[w] # "idle", work'[w].processed
             PROVE  NonPassTests(work'[w].batch) # {}
  BY DEF ProcessedIsFailure
<1>1. CASE pc'[w] = pc[w] /\ work'[w] = work[w]
  BY <1>1 DEF ProcessedIsFailure
<1>2. CASE Work(w) \/ StatementFails(w)
  <2>1. CASE Starts(w)
    BY <2>1 DEF Starts, Fresh
  <2>2. CASE Leaves(w) /\ work'[w].processed = work[w].processed
    BY <2>2, LeavingGoesOn DEF ProcessedIsFailure, AlertSteps
  <2>3. CASE Leaves(w) /\ work'[w].processed # work[w].processed
    <3>1. NonPass(Alert(w)) /\ pc[w] \in AlertSteps /\ work'[w].batch = work[w].batch
      BY <2>3, LeavingGoesOn
    <3>2. work[w].at \in 1..Len(Payload[work[w].batch].alerts)
      BY <3>1 DEF Typed, Positioned, PositionedAt
    <3>3. Alert(w).test \in NonPassTests(work[w].batch)
      BY <3>1, <3>2 DEF NonPassTests, Alert
    <3> QED
      BY <3>1, <3>3
  <2>4. CASE Stays(w)
    BY <2>4 DEF Stays, ProcessedIsFailure
  <2>5. CASE Finishes(w)
    BY <2>5 DEF Finishes
  <2> QED
    BY <1>2, <2>1, <2>2, <2>3, <2>4, <2>5, WorkerMoves
<1> QED
  BY <1>1, <1>2, WhoMoves

LEMMA OutcomeStep ==
  ASSUME Typed, [Next]_vars, ProcessedIsFailure, OutcomeFaithful
  PROVE  OutcomeFaithful'
<1>t. outcome \in [Runs -> {"none", "success", "failure"}]
  BY DEF Typed, TypeOK
<1>f. Frame
  BY Frames
<1>1. ASSUME NEW w \in Workers, Finalize(w)
      PROVE  /\ work[w].batch \in Batches /\ RunOf(w) \in Runs
             /\ finished' = finished \cup {work[w].batch}
             /\ outcome' = [outcome EXCEPT ![RunOf(w)] =
                              IF @ = "failure" THEN @ ELSE OutcomeOf(w)]
             /\ OutcomeOf(w) = "failure" <=>
                  work[w].processed \/ ReportFails(work[w].batch)
             /\ OutcomeOf(w) = "failure" =>
                  ReportFails(work[w].batch) \/ NonPassTests(work[w].batch) # {}
  <2>1. pc[w] = "reseen" /\ work[w] \in Locals
    BY <1>1 DEF Finalize, Typed, TypeOK
  <2>2. work[w].batch \in Batches
    BY <2>1 DEF Locals
  <2>3. RunOf(w) \in Runs
    BY <2>2, PipelineAssumption DEF RunOf
  <2>4. OutcomeOf(w) = "failure" <=>
          work[w].processed \/ ReportFails(work[w].batch)
    BY DEF OutcomeOf
  <2> QED
    BY <1>1, <2>1, <2>2, <2>3, <2>4 DEF Finalize, Upsert, ProcessedIsFailure
<1>2. \A r \in Runs : outcome[r] = "failure" => outcome'[r] = "failure"
  BY <1>t, <1>f, <1>1 DEF Frame
<1>3. finished \subseteq finished'
  BY <1>f DEF Frame
<1>4. ASSUME errors' = 0, NEW b \in finished', ReportFails(b)
      PROVE  outcome'[Payload[b].run] = "failure"
  <2>1. errors = 0 /\ \A w \in Workers : ~StatementFails(w)
    BY <1>4, ErrorsGrow
  <2>2. CASE b \in finished
    <3>1. Payload[b].run \in Runs /\ outcome[Payload[b].run] = "failure"
      BY <1>4, <2>1, <2>2, PipelineAssumption DEF OutcomeFaithful, Typed, TypeOK
    <3> QED
      BY <1>2, <3>1
  <2>3. CASE b \notin finished
    <3>1. PICK w \in Workers : Finalize(w) /\ b = work[w].batch
      BY <1>f, <1>4, <2>1, <2>3 DEF Frame
    <3>2. RunOf(w) = Payload[b].run /\ OutcomeOf(w) = "failure"
      BY <1>1, <1>4, <3>1 DEF RunOf
    <3> QED
      BY <1>t, <1>1, <3>1, <3>2
  <2> QED
    BY <2>2, <2>3
<1>5. ASSUME NEW r \in Runs, outcome'[r] = "failure"
      PROVE  \E b \in finished' :
               Payload[b].run = r /\ (ReportFails(b) \/ NonPassTests(b) # {})
  <2>1. CASE outcome[r] = "failure"
    BY <1>3, <2>1 DEF OutcomeFaithful
  <2>2. CASE outcome[r] # "failure"
    <3>1. PICK w \in Workers : Finalize(w)
      BY <1>f, <1>5, <2>2 DEF Frame
    <3>2. RunOf(w) = r /\ OutcomeOf(w) = "failure"
      BY <1>t, <1>1, <1>5, <2>2, <3>1
    <3>3. Payload[work[w].batch].run = r
      BY <3>2 DEF RunOf
    <3> QED
      BY <1>1, <3>1, <3>2, <3>3
  <2> QED
    BY <2>1, <2>2
<1> QED
  BY <1>4, <1>5 DEF OutcomeFaithful

(* A run is a failure exactly because a finished batch of it had one,       *)
(* whatever order its batches finish in.                                    *)
THEOREM OutcomeIsRight == Spec => []OutcomeFaithful
<1>1. Init => ProcessedIsFailure /\ OutcomeFaithful
  BY DEF Init, ProcessedIsFailure, OutcomeFaithful
<1>2. Typed /\ (ProcessedIsFailure /\ OutcomeFaithful) /\ [Next]_vars
        => (ProcessedIsFailure /\ OutcomeFaithful)'
  BY ProcessedStep, OutcomeStep
<1>3. Spec => [](ProcessedIsFailure /\ OutcomeFaithful)
  BY <1>1, <1>2, AlwaysTyped, PTL DEF Spec
<1> QED
  BY <1>3, PTL

-----------------------------------------------------------------------------
(* Open incidents per run and test, and workers.                            *)

(* The rows of a test whose name is spelt plainly are found by that name.   *)
Spelt ==
  \A i \in 1..Len(incidents) :
    SpeltPlainly(incidents[i].test) => incidents[i].form \in {"plain", "flaky"}

(* The workers between the duplicate check and the INSERT of a test.        *)
InFlight(run, t) ==
  {w \in Workers : /\ pc[w] \in {"classify", "insert"}
                   /\ RunOf(w) = run /\ Alert(w).test = t}

(* Each of them may still add one row to those that are open: together they *)
(* are no more than the workers, because nobody comes to be between the two *)
(* statements while a row is open.                                          *)
Room ==
  errors = 0 =>
    \A r \in Runs : \A t \in Tests :
      SpeltPlainly(t) =>
        Cardinality(OpenFor(r, t)) + Cardinality(InFlight(r, t)) <= Cardinality(Workers)

LEMMA FinitelyMany ==
  ASSUME NEW n \in Nat, NEW O \in SUBSET (1..n), NEW F \in SUBSET Workers
  PROVE  /\ IsFiniteSet(O) /\ Cardinality(O) \in Nat
         /\ IsFiniteSet(F) /\ Cardinality(F) \in Nat
         /\ Cardinality(F) <= Cardinality(Workers)
         /\ Cardinality(Workers) \in Nat
<1>1. IsFiniteSet(1..n)
  BY FS_Interval
<1>2. IsFiniteSet(O)
  BY <1>1, FS_Subset
<1>3. IsFiniteSet(Workers)
  BY PipelineAssumption
<1>4. IsFiniteSet(F) /\ Cardinality(F) <= Cardinality(Workers)
  BY <1>3, FS_Subset
<1> QED
  BY <1>2, <1>3, <1>4, FS_CardinalityType

LEMMA SpeltStep ==
  ASSUME Typed, [Next]_vars, Spelt
  PROVE  Spelt'
<1> SUFFICES ASSUME NEW i \in 1..Len(incidents'), SpeltPlainly(incidents'[i].test)
             PROVE  incidents'[i].form \in {"plain", "flaky"}
  BY DEF Spelt, SpeltPlainly
<1>1. CASE i \in 1..Len(incidents)
  <2>1. KeptRows
    BY TableChanges, RowsKept
  <2> QED
    BY <1>1, <2>1 DEF KeptRows, Spelt
<1>2. CASE i \notin 1..Len(incidents)
  <2>1. PICK w \in Workers :
          /\ Appends(w)
          /\ incidents'[i].test = Alert(w).test
          /\ incidents'[i].form = IF work[w].flaky THEN "flaky" ELSE Alert(w).form
    BY <1>2, NewRow, Zenon
  <2>2. pc[w] \in AlertSteps
    BY <2>1 DEF Appends, AlertSteps
  <2>3. work[w].batch \in Batches /\ work[w].at \in 1..Len(Payload[work[w].batch].alerts)
    BY <2>2, AlertIsCase DEF Locals, Typed, Positioned, PositionedAt
  <2>4. Alert(w).form = "plain"
    BY <2>1, <2>3 DEF SpeltPlainly, Alert
  <2> QED
    BY <2>1, <2>4
<1> QED
  BY <1>1, <1>2

(* With no new row, what is open can only become less. *)
LEMMA OpenShrinks ==
  ASSUME Typed, [Next]_vars, NEW r, NEW t, NEW i \in OpenFor(r, t)', i \in 1..Len(incidents)
  PROVE  i \in OpenFor(r, t)
<1>1. KeptRows
  BY TableChanges, RowsKept
<1>2. /\ incidents'[i].state = "open" /\ incidents'[i].run = r
      /\ incidents'[i].test = t
  BY DEF OpenFor, Open
<1> QED
  BY <1>1, <1>2 DEF KeptRows, OpenFor, Open

(* Who gets between the two statements has found nothing open.              *)
LEMMA EnteringFindsNone ==
  ASSUME Typed, [Next]_vars, Spelt, errors' = 0, NEW r, NEW t, SpeltPlainly(t),
         NEW w \in InFlight(r, t)', w \notin InFlight(r, t)
  PROVE  OpenFor(r, t)' = {}
<1>w. /\ w \in Workers /\ pc'[w] \in {"classify", "insert"}
      /\ RunOf(w)' = r /\ Alert(w)'.test = t
  BY DEF InFlight
<1>1. ~StatementFails(w)
  BY <1>w, ErrorsGrow
<1>2. Work(w)
  <2>1. CASE pc'[w] = pc[w] /\ work'[w] = work[w]
    BY <1>w, <2>1 DEF InFlight, RunOf, Alert
  <2> QED
    BY <1>w, <1>1, <2>1, WhoMoves
<1>3. Stays(w)
  BY <1>w, <1>2, WorkerMoves, LeavingGoesOn DEF Starts, Finishes
<1>4. r = RunOf(w) /\ t = Alert(w).test
  BY <1>w, <1>3 DEF Stays, RunOf, Alert
<1>5. pc[w] = "dedup" /\ Duplicates(r, t) = {}
  BY <1>w, <1>1, <1>3, <1>4 DEF Stays, InFlight
<1>6. incidents' = incidents
  <2>1. Dedup(w)
    BY <1>2, <1>5 DEF Work, Take, Scan, Resolve, PassDone, Classify, Insert, Reconcile,
       Tag, Launch, Reseen, Retagged, Finalize
  <2> QED
    BY <2>1 DEF Dedup, db
<1>7. OpenFor(r, t) = {}
  BY <1>5 DEF OpenFor, Duplicates, Spelt, Open
<1> QED
  BY <1>6, <1>7 DEF OpenFor, Open

LEMMA RoomStep ==
  ASSUME Typed, [Next]_vars, Spelt, Room
  PROVE  Room'
<1> SUFFICES ASSUME errors' = 0, NEW r \in Runs, NEW t \in Tests, SpeltPlainly(t)
             PROVE  (Cardinality(OpenFor(r, t)) + Cardinality(InFlight(r, t))
                       <= Cardinality(Workers))'
  BY DEF Room, SpeltPlainly
<1> DEFINE O  == OpenFor(r, t)
           F  == InFlight(r, t)
           OO == OpenFor(r, t)'
           FF == InFlight(r, t)'
<1>n. Len(incidents) \in Nat /\ Len(incidents') \in Nat
  BY TableChanges, RowsKept DEF KeptRows
<1>s. /\ O \in SUBSET (1..Len(incidents)) /\ OO \in SUBSET (1..Len(incidents'))
      /\ F \in SUBSET Workers /\ FF \in SUBSET Workers
  BY DEF OpenFor, Open, InFlight
<1>f. /\ IsFiniteSet(O) /\ Cardinality(O) \in Nat
      /\ IsFiniteSet(F) /\ Cardinality(F) \in Nat
  <2> HIDE DEF O, F
  <2> QED
    BY <1>n, <1>s, FinitelyMany
<1>g. /\ IsFiniteSet(OO) /\ Cardinality(OO) \in Nat
      /\ IsFiniteSet(FF) /\ Cardinality(FF) \in Nat
      /\ Cardinality(FF) <= Cardinality(Workers) /\ Cardinality(Workers) \in Nat
  <2> HIDE DEF OO, FF
  <2> QED
    BY <1>n, <1>s, FinitelyMany
<1>h. Cardinality(O) + Cardinality(F) <= Cardinality(Workers)
  BY ErrorsGrow DEF Room
<1>1. ASSUME ~(FF \subseteq F)
      PROVE  Cardinality(OO) + Cardinality(FF) <= Cardinality(Workers)
  <2>1. OO = {}
    <3>1. PICK w \in FF : w \notin F
      BY <1>1
    <3> QED
      BY <3>1, EnteringFindsNone
  <2>2. Cardinality(OO) = 0
    BY <2>1, FS_EmptySet
  <2> QED
    BY <1>g, <2>2
<1>2. ASSUME FF \subseteq F, OO \subseteq O
      PROVE  Cardinality(OO) + Cardinality(FF) <= Cardinality(Workers)
  <2> HIDE DEF O, F, OO, FF
  <2>1. Cardinality(FF) <= Cardinality(F) /\ Cardinality(OO) <= Cardinality(O)
    BY <1>2, <1>f, FS_Subset
  <2> QED
    BY <1>f, <1>g, <1>h, <2>1
<1>3. ASSUME FF \subseteq F, NEW i \in OO, i \notin O
      PROVE  Cardinality(OO) + Cardinality(FF) <= Cardinality(Workers)
  <2>1. i \in 1..Len(incidents') /\ i \notin 1..Len(incidents)
    BY <1>3, OpenShrinks DEF OpenFor, Open
  <2>2. PICK w \in Workers : /\ Appends(w) /\ pc'[w] = "reconcile"
                             /\ i = Len(incidents) + 1
                             /\ incidents'[i].test = Alert(w).test
                             /\ incidents'[i].run = RunOf(w)
    BY <2>1, NewRow, Zenon
  <2>3. w \in F
    BY <1>3, <2>2 DEF Appends, InFlight, OpenFor
  <2>4. w \notin FF
    BY <2>2 DEF InFlight
  <2>5. OO \subseteq O \cup {i}
    <3> SUFFICES ASSUME NEW k \in OO, k # i PROVE k \in O
      OBVIOUS
    <3>1. k \in 1..Len(incidents')
      BY DEF OpenFor, Open
    <3>2. k \in 1..Len(incidents)
      <4>1. k \notin 1..Len(incidents) => k = Len(incidents) + 1
        BY <3>1, NewRow, Zenon
      <4> QED
        BY <2>2, <4>1
    <3> QED
      BY <3>2, OpenShrinks
  <2> HIDE DEF O, F, OO, FF
  <2>6. FF \subseteq F \ {w}
    BY <1>3, <2>4
  <2>7. IsFiniteSet(F \ {w}) /\ Cardinality(F \ {w}) = Cardinality(F) - 1
    BY <1>f, <2>3, FS_RemoveElement
  <2>8. IsFiniteSet(O \cup {i}) /\ Cardinality(O \cup {i}) = Cardinality(O) + 1
    BY <1>f, <1>3, FS_AddElement
  <2>9. Cardinality(FF) <= Cardinality(F) - 1 /\ Cardinality(OO) <= Cardinality(O) + 1
    BY <2>5, <2>6, <2>7, <2>8, FS_Subset
  <2> QED
    BY <1>f, <1>g, <1>h, <2>9
<1>w. Cardinality(Workers)' = Cardinality(Workers)
  OBVIOUS
<1>4. Cardinality(OO) + Cardinality(FF) <= Cardinality(Workers)
  BY <1>1, <1>2, <1>3
<1> QED
  BY <1>4, <1>w

LEMMA RoomIsEnough ==
  ASSUME Typed, Room
  PROVE  OneOpenPerWorker
<1> SUFFICES ASSUME errors = 0, NEW r \in Runs, NEW t \in Tests, SpeltPlainly(t)
             PROVE  Cardinality(OpenFor(r, t)) <= Cardinality(Workers)
  BY DEF OneOpenPerWorker
<1>1. Cardinality(OpenFor(r, t)) + Cardinality(InFlight(r, t)) <= Cardinality(Workers)
  BY DEF Room
<1>2. /\ Len(incidents) \in Nat /\ OpenFor(r, t) \in SUBSET (1..Len(incidents))
      /\ InFlight(r, t) \in SUBSET Workers
  BY DEF Typed, TypeOK, OpenFor, Open, InFlight
<1> DEFINE O == OpenFor(r, t)
           F == InFlight(r, t)
<1>3. /\ Cardinality(O) \in Nat /\ Cardinality(F) \in Nat /\ Cardinality(Workers) \in Nat
      /\ Cardinality(O) + Cardinality(F) <= Cardinality(Workers)
  <2>1. /\ O \in SUBSET (1..Len(incidents)) /\ F \in SUBSET Workers
        /\ Cardinality(O) + Cardinality(F) <= Cardinality(Workers)
    BY <1>1, <1>2
  <2> HIDE DEF O, F
  <2> QED
    BY <1>2, <2>1, FinitelyMany
<1>4. Cardinality(O) <= Cardinality(Workers)
  <2> HIDE DEF O, F
  <2> QED
    BY <1>3
<1> QED
  BY <1>4

(* However many workers there are and however often reports are posted, a   *)
(* run has at most one open incident of a test for each of them: those that *)
(* had asked before the first was stored.                                   *)
THEOREM WorkersBoundDuplicates == Spec => []OneOpenPerWorker
<1>1. Init => Spelt /\ Room
  <2> SUFFICES ASSUME Init PROVE Spelt /\ Room
    OBVIOUS
  <2>1. Spelt
    BY DEF Init, Spelt
  <2>2. ASSUME NEW r, NEW t PROVE OpenFor(r, t) = {} /\ InFlight(r, t) = {}
    BY DEF Init, OpenFor, Open, InFlight
  <2>3. Cardinality({}) = 0 /\ Cardinality(Workers) \in Nat
    BY FS_EmptySet, FS_CardinalityType, PipelineAssumption
  <2> QED
    BY <2>1, <2>2, <2>3 DEF Room
<1>2. Typed /\ (Spelt /\ Room) /\ [Next]_vars => (Spelt /\ Room)'
  BY SpeltStep, RoomStep
<1>3. Spec => [](Spelt /\ Room)
  BY <1>1, <1>2, AlwaysTyped, PTL DEF Spec
<1>4. Typed /\ Room => OneOpenPerWorker
  BY RoomIsEnough
<1> QED
  BY <1>3, <1>4, AlwaysTyped, PTL

-----------------------------------------------------------------------------
(* A pass closes what is open.                                              *)

(* The auto-resolve query has room for every open row of the project.       *)
UnderLimit == Cardinality(Open) <= ScanLimit

(* What is open of a test that passed, of the rows there were when the      *)
(* worker read the table, is on the list of that worker.                    *)
Closing ==
  errors = 0 =>
    \A w \in Workers : pc[w] = "resolve" =>
      /\ work[w].upto <= Len(incidents)
      /\ \A i \in Open :
           incidents[i].test = Alert(w).test /\ i <= work[w].upto => i \in work[w].todo

(* With room for every open row, the query returns all those of the test.   *)
LEMMA AllResolvable ==
  ASSUME Typed, UnderLimit, NEW i \in Open
  PROVE  i \in Resolvable(incidents[i].test)
<1> DEFINE Newer == {j \in Open : j > i}
<1>1. Len(incidents) \in Nat /\ Open \subseteq 1..Len(incidents)
  BY DEF Typed, TypeOK, Open
<1>2. IsFiniteSet(Open)
  <2>1. IsFiniteSet(1..Len(incidents))
    BY <1>1, FS_Interval
  <2> HIDE DEF Newer
  <2> QED
    BY <1>1, <2>1, FS_Subset, Zenon
<1>3. i \in Nat /\ Newer \subseteq Open \ {i}
  BY <1>1
<1>4. IsFiniteSet(Open \ {i}) /\ Cardinality(Open \ {i}) = Cardinality(Open) - 1
  BY <1>2, FS_RemoveElement
<1>5. Cardinality(Newer) <= Cardinality(Open \ {i})
  BY <1>3, <1>4, FS_Subset
<1>6. IsFiniteSet(Newer)
  BY <1>3, <1>4, FS_Subset
<1>7. Cardinality(Newer) \in Nat /\ Cardinality(Open) \in Nat
  BY <1>2, <1>6, FS_CardinalityType
<1>8. Cardinality(Newer) < ScanLimit
  BY <1>4, <1>5, <1>7, PipelineAssumption DEF UnderLimit
<1> QED
  BY <1>8 DEF Resolvable

(* A worker that resolves has just read the table or goes on resolving.     *)
LEMMA Resolving ==
  ASSUME Typed, [Next]_vars, NEW w \in Workers, errors' = 0, pc'[w] = "resolve"
  PROVE  /\ Alert(w)'.test = Alert(w).test
         /\ \/ pc[w] = "resolve" /\ work'[w] = work[w]
            \/ /\ work'[w].todo = Resolvable(Alert(w).test)
               /\ work'[w].upto = Len(incidents) /\ incidents' = incidents
            \/ /\ pc[w] = "resolve" /\ work'[w].upto = work[w].upto
               /\ \E k \in work[w].todo :
                    /\ work'[w].todo = work[w].todo \ {k}
                    /\ incidents' = IF k \in Stored
                                    THEN [incidents EXCEPT ![k].state = "resolved"]
                                    ELSE incidents
<1>t. /\ pc \in [Workers -> Steps] /\ work \in [Workers -> Locals \cup {NoWork}]
      /\ pc[w] # "idle" => work[w] \in Locals
  BY DEF Typed, TypeOK
<1>1. CASE pc'[w] = pc[w] /\ work'[w] = work[w]
  BY <1>1 DEF Alert
<1>2. CASE Work(w)
  <2>1. Stays(w)
    BY <1>2, WorkerMoves, LeavingGoesOn DEF Starts, Finishes
  <2>2. Alert(w)'.test = Alert(w).test
    BY <2>1 DEF Stays, Alert
  <2>3. CASE pc[w] = "scan"
    <3>1. Scan(w)
      BY <1>2, <2>3 DEF Work, Take, Dedup, Resolve, PassDone, Classify, Insert, Reconcile,
         Tag, Launch, Reseen, Retagged, Finalize
    <3> QED
      BY <2>2, <3>1, <2>3, <1>t DEF Scan, Keep, Locals, db
  <2>4. CASE pc[w] = "resolve"
    <3>1. Resolve(w) \/ PassDone(w)
      BY <1>2, <2>4 DEF Work, Take, Dedup, Scan, Classify, Insert, Reconcile,
         Tag, Launch, Reseen, Retagged, Finalize
    <3>2. ~PassDone(w)
      <4>1. PassDone(w) => NextAlert(w, work[w]) /\ work[w] \in Locals
        BY <1>t, <2>4 DEF PassDone, Skipped
      <4> QED
        BY <4>1, <1>t, NextAlertMoves DEF Goto
    <3>3. PICK k \in work[w].todo :
            /\ incidents' = IF k \in Stored THEN [incidents EXCEPT ![k].state = "resolved"]
                                            ELSE incidents
            /\ Keep(w, [work[w] EXCEPT !.todo = @ \ {k}])
      BY <3>1, <3>2 DEF Resolve
    <3>4. work'[w].todo = work[w].todo \ {k} /\ work'[w].upto = work[w].upto
      BY <2>4, <3>3, <1>t DEF Keep, Locals
    <3> QED
      BY <2>2, <2>4, <3>3, <3>4
  <2> QED
    BY <2>1, <2>3, <2>4 DEF Stays
<1> QED
  BY <1>1, <1>2, ErrorsGrow, WhoMoves

LEMMA ClosingStep ==
  ASSUME Typed, UnderLimit, [Next]_vars, Closing
  PROVE  Closing'
<1> SUFFICES ASSUME errors' = 0, NEW w \in Workers, pc'[w] = "resolve"
             PROVE  /\ work'[w].upto <= Len(incidents')
                    /\ \A i \in Open' :
                         incidents'[i].test = Alert(w)'.test /\ i <= work'[w].upto
                           => i \in work'[w].todo
  BY DEF Closing
<1>k. KeptRows
  BY TableChanges, RowsKept
<1>q. errors = 0
  BY ErrorsGrow
<1>t. incidents \in Seq(Row) /\ Len(incidents) \in Nat
  BY DEF Typed, TypeOK
<1>r. pc[w] = "resolve" => work[w].upto \in Nat
  BY DEF Typed, TypeOK, Locals
<1>o. ASSUME NEW i \in Open', i <= Len(incidents)
      PROVE  i \in Open /\ incidents'[i].test = incidents[i].test
  <2>1. i \in 1..Len(incidents')
    BY DEF Open
  <2>2. i \in 1..Len(incidents)
    BY <1>o, <1>t, <2>1
  <2> QED
    BY <1>k, <2>2 DEF Open, KeptRows
<1>1. CASE pc[w] = "resolve" /\ work'[w] = work[w]
  <2>1. work[w].upto <= Len(incidents)
    BY <1>1, <1>q DEF Closing
  <2>2. work'[w].upto <= Len(incidents')
    BY <1>1, <1>k, <1>r, <2>1 DEF KeptRows
  <2>3. ASSUME NEW i \in Open', incidents'[i].test = Alert(w)'.test, i <= work'[w].upto
        PROVE  i \in work'[w].todo
    <3>1. i \in Nat
      BY <1>k DEF Open, KeptRows
    <3>2. i \in Open /\ incidents'[i].test = incidents[i].test
      BY <1>1, <1>o, <1>r, <1>t, <2>1, <2>3, <3>1
    <3> QED
      BY <1>1, <1>q, <2>3, <3>2, Resolving DEF Closing
  <2> QED
    BY <2>2, <2>3
<1>2. CASE /\ work'[w].todo = Resolvable(Alert(w).test)
           /\ work'[w].upto = Len(incidents) /\ incidents' = incidents
  <2>1. ASSUME NEW i \in Open', incidents'[i].test = Alert(w)'.test
        PROVE  i \in work'[w].todo
    <3>1. i \in Open /\ incidents[i].test = Alert(w).test
      BY <1>2, <2>1, Resolving DEF Open
    <3> QED
      BY <1>2, <3>1, AllResolvable
  <2> QED
    BY <1>2, <1>t, <2>1
<1>3. ASSUME pc[w] = "resolve", work'[w].upto = work[w].upto, NEW k \in work[w].todo,
             work'[w].todo = work[w].todo \ {k},
             incidents' = IF k \in Stored THEN [incidents EXCEPT ![k].state = "resolved"]
                                           ELSE incidents
      PROVE  /\ work'[w].upto <= Len(incidents')
             /\ \A i \in Open' :
                  incidents'[i].test = Alert(w)'.test /\ i <= work'[w].upto
                    => i \in work'[w].todo
  <2>1. work[w].upto <= Len(incidents)
    BY <1>3, <1>q DEF Closing
  <2>2. work'[w].upto <= Len(incidents')
    BY <1>3, <1>k, <1>r, <2>1 DEF KeptRows
  <2>3. ASSUME NEW i \in Open', incidents'[i].test = Alert(w)'.test, i <= work'[w].upto
        PROVE  i \in work'[w].todo
    <3>1. i \in Nat
      BY <1>k DEF Open, KeptRows
    <3>2. i \in Open /\ incidents'[i].test = incidents[i].test
      BY <1>3, <1>o, <1>r, <1>t, <2>1, <2>3, <3>1
    <3>3. i \in work[w].todo
      BY <1>3, <1>q, <2>3, <3>2, Resolving DEF Closing
    <3>4. k # i
      <4> SUFFICES ASSUME k = i PROVE FALSE
        OBVIOUS
      <4>1. i \in 1..Len(incidents) /\ incidents[i].state = "open"
        BY <3>2 DEF Open
      <4>2. i \in Stored /\ incidents[i] \in Row
        BY <1>t, <4>1 DEF Stored
      <4>3. incidents' = [incidents EXCEPT ![i].state = "resolved"]
        BY <1>3, <4>2
      <4>4. incidents'[i].state = "resolved"
        BY <1>t, <4>1, <4>2, <4>3 DEF Row
      <4> QED
        BY <4>4 DEF Open
    <3> QED
      BY <1>3, <3>3, <3>4
  <2> QED
    BY <2>2, <2>3
<1> QED
  BY <1>1, <1>2, <1>3, Resolving

(* As long as the project has no more open incidents than the auto-resolve  *)
(* query returns, a pass that is handled leaves no incident open that the   *)
(* test had when the worker read the table, whatever the other workers      *)
(* insert and users resolve or delete meanwhile.                            *)
THEOREM PassesClose == Spec /\ []UnderLimit => PassCloses
<1>1. Init => Closing
  BY DEF Init, Closing
<1>2. Typed /\ UnderLimit /\ Closing /\ [Next]_vars => Closing'
  BY ClosingStep
<1>3. Spec /\ []UnderLimit => []Closing
  BY <1>1, <1>2, AlwaysTyped, PTL DEF Spec
<1> DEFINE P == \A w \in Workers : errors = 0 /\ pc[w] = "resolve" /\ pc'[w] # "resolve" =>
       \/ crashes' # crashes
       \/ \A i \in Open : incidents[i].test = Alert(w).test => i > work[w].upto
<1>4. ASSUME Typed, Closing, [Next]_vars PROVE [P]_vars
  <2> SUFFICES ASSUME NEW w \in Workers, errors = 0, pc[w] = "resolve", pc'[w] # "resolve",
                      crashes' = crashes, NEW i \in Open, incidents[i].test = Alert(w).test
               PROVE  i > work[w].upto
    OBVIOUS
  <2>1. ~Crash
    <3>1. crashes \in Nat
      BY <1>4 DEF Typed, TypeOK
    <3> QED
      BY <3>1 DEF Crash
  <2>2. Work(w) \/ StatementFails(w)
    BY <1>4, <2>1, WhoMoves
  <2>3. Leaves(w)
    BY <1>4, <2>2, WorkerMoves DEF Starts, Stays, Finishes
  <2>4. work[w].todo = {}
    BY <2>3 DEF Leaves
  <2>5. i \in Nat /\ work[w].upto \in Nat
    BY <1>4 DEF Open, Typed, TypeOK, Locals
  <2>6. ~(i <= work[w].upto)
    BY <1>4, <2>4 DEF Closing
  <2> QED
    BY <2>5, <2>6
<1>5. Spec /\ []UnderLimit => [][P]_vars
  BY <1>3, <1>4, AlwaysTyped, PTL DEF Spec
<1> QED
  BY <1>5 DEF PassCloses
==============================================================================
