------------------------------ MODULE Records -------------------------------
(* What other requests hang on incidents, while incidents come and go and  *)
(* the process restarts: artifacts (pkg/service/artifacts.go, pkg/core     *)
(* artifacts_repo.go, pkg/storage/local.go, pkg/api/server                 *)
(* artifact_handlers.go) and external signals (pkg/core                    *)
(* external_signals.go, pkg/api/server dora_handlers.go).                  *)
(*                                                                         *)
(* Every statement takes one of the connections of the pool for as long as *)
(* it runs, and a result set keeps its own until it is read to its end: a  *)
(* statement that finds no connection free waits, without a deadline.      *)
(* Statements fail when the start left them without their table.  Foreign  *)
(* keys are declared ON DELETE CASCADE, but SQLite enforces them only on   *)
(* connections that ask, and none does: a deleted incident's rows stay.    *)
EXTENDS Schema

CONSTANTS Uploads,       \* requests that bring a file
          FileName,      \* [Uploads -> names]
          Refusable,     \* the uploads ValidateUpload refuses
          Posts,         \* posts of the monitoring system
          Projects, Times,
          Connections,   \* SetMaxOpenConns
          MaxIncidents,  \* bound: incidents ever stored
          MaxBegun       \* bound: starts and requests together

VARIABLES incidents,     \* [ids of the rows -> [project, at, serial]]
          sequence,      \* sqlite_sequence of incidents
          ingested,      \* incidents stored so far: the serial tells them apart
          upload,        \* [Uploads -> the request and its goroutine]
          blobs,         \* [paths of files -> the upload written there]
          own,           \* uploads that have, or had, their file to themselves
          artifacts,     \* rows of incident_artifacts
          post,          \* [Posts -> the request]
          correlations   \* <<signal, incident>> rows

recordVars == <<incidents, sequence, ingested, upload, blobs, own, artifacts, post, correlations>>
vars == <<schemaVars, recordVars>>

None == "none"
Mixed == "mixed"    \* parts of several uploads
Idle == [pc |-> "idle", incident |-> 0, serial |-> 0]
Unposted == [pc |-> "idle", project |-> None, at |-> 0, todo |-> {}]
Path(u) == <<upload[u].incident, FileName[u]>>
Forget(f, k) == [x \in DOMAIN f \ {k} |-> f[x]]
Store(f, k, v) == [x \in DOMAIN f \cup {k} |-> IF x = k THEN v ELSE f[x]]

Held == {p \in Posts : post[p].pc = "reading"}
Connection == Serving /\ Cardinality(Held) < Connections

Begun == starts + ingested + Cardinality({u \in Uploads : upload[u].pc # "idle"})
           + Cardinality({p \in Posts : post[p].pc # "idle"})

Init ==
  /\ SchemaInit
  /\ incidents = <<>> /\ sequence = 0 /\ ingested = 0
  /\ upload = [u \in Uploads |-> Idle]
  /\ blobs = <<>> /\ own = {} /\ artifacts = {}
  /\ post = [p \in Posts |-> Unposted] /\ correlations = {}

-----------------------------------------------------------------------------
(* Incidents.                                                              *)
IncidentColumns ==
  {"incidents"} \X {"id", "pipeline_run_id", "browser", "os", "viewport", "execution_time_ms", "jira_issue_key"}

\* Mutant of Ingest: INTEGER PRIMARY KEY without AUTOINCREMENT.
IngestReusing(pr, t) ==
  /\ Connection /\ ingested < MaxIncidents /\ Begun < MaxBegun /\ IncidentColumns \subseteq columns
  /\ LET id == 1 + Cardinality(DOMAIN incidents) IN
       /\ id \notin DOMAIN incidents
       /\ incidents' = Store(incidents, id, [project |-> pr, at |-> t, serial |-> ingested + 1])
  /\ ingested' = ingested + 1
  /\ UNCHANGED <<schemaVars, sequence, upload, blobs, own, artifacts, post, correlations>>

(* The id of a row is one more than any id the table ever had.             *)
Ingest(pr, t) ==
  /\ Connection /\ ingested < MaxIncidents /\ Begun < MaxBegun /\ IncidentColumns \subseteq columns
  /\ sequence' = sequence + 1 /\ ingested' = ingested + 1
  /\ incidents' = Store(incidents, sequence + 1, [project |-> pr, at |-> t, serial |-> ingested + 1])
  /\ UNCHANGED <<schemaVars, upload, blobs, own, artifacts, post, correlations>>

Delete(i) ==
  /\ Connection /\ i \in DOMAIN incidents
  /\ incidents' = Forget(incidents, i)
  /\ UNCHANGED <<schemaVars, sequence, ingested, upload, blobs, own, artifacts, post, correlations>>

-----------------------------------------------------------------------------
(* Artifacts.                                                              *)
Moves(u, pc) == upload' = [upload EXCEPT ![u].pc = pc]

(* ValidateUpload and IncidentExists.                                      *)
Admitted(u, i) == u \notin Refusable /\ i \in DOMAIN incidents

(* uploadArtifact and SaveBackground up to the goroutine: 202 is answered  *)
(* for a file that passes and an incident that is there.                   *)
UploadArtifact(u, i) ==
  /\ Connection /\ upload[u].pc = "idle" /\ Begun < MaxBegun
  /\ IF Admitted(u, i)
       THEN upload' = [upload EXCEPT ![u] = [pc |-> "saving", incident |-> i, serial |-> incidents[i].serial]]
       ELSE Moves(u, "refused")
  /\ UNCHANGED <<schemaVars, incidents, sequence, ingested, blobs, own, artifacts, post, correlations>>

(* The file is created, or truncated if it is there: it is under the name  *)
(* that the upload gave it, which others may give as well.                 *)
Sharing(u) == {v \in Uploads \ {u} : upload[v].pc \notin {"idle", "refused", "saving"} /\ Path(v) = Path(u)}
HasOpen(v) == upload[v].pc \in {"writing", "adrift"}

OpenFile(u) ==
  /\ Serving /\ upload[u].pc = "saving"
  /\ blobs' = Store(blobs, Path(u), None)
  /\ own' = (own \ Sharing(u)) \cup (IF \E v \in Sharing(u) : HasOpen(v) THEN {} ELSE {u})
  /\ Moves(u, "writing")
  /\ UNCHANGED <<schemaVars, incidents, sequence, ingested, artifacts, post, correlations>>

(* Two that write at once may leave a file of parts of both.  What is      *)
(* written to a file that has been removed is gone, and no error tells.    *)
WriteFile(u) ==
  /\ Serving /\ HasOpen(u)
  /\ \/ upload[u].pc = "adrift" /\ UNCHANGED blobs
     \/ /\ upload[u].pc = "writing"
        /\ \E text \in {u} \cup (IF u \in own THEN {} ELSE {Mixed}) : blobs' = Store(blobs, Path(u), text)
  /\ Moves(u, "written")
  /\ UNCHANGED <<schemaVars, incidents, sequence, ingested, own, artifacts, post, correlations>>

(* Save fails, and removes what is under the name.                         *)
FailSave(u) ==
  /\ Serving /\ (upload[u].pc = "saving" \/ HasOpen(u))
  /\ faults < MaxFaults /\ faults' = faults + 1
  /\ IF HasOpen(u)
       THEN /\ blobs' = Forget(blobs, Path(u))
            /\ upload' = [v \in Uploads |->
                 [upload[v] EXCEPT !.pc = IF v = u THEN "lost"
                                          ELSE IF @ = "writing" /\ Path(v) = Path(u) THEN "adrift" ELSE @]]
       ELSE Moves(u, "lost") /\ UNCHANGED blobs
  /\ UNCHANGED <<columns, roles, rows, line, spoilt, clean, starts, incidents, sequence, ingested,
                 own, artifacts, post, correlations>>

(* Nothing asks whether the incident is there still.                       *)
InsertArtifact(u) ==
  /\ Connection /\ upload[u].pc = "written"
  /\ IF Has("incident_artifacts")
       THEN /\ artifacts' = artifacts \cup
                 {[incident |-> upload[u].incident, name |-> FileName[u], upload |-> u]}
            /\ Moves(u, "done")
       ELSE Moves(u, "lost") /\ UNCHANGED artifacts
  /\ UNCHANGED <<schemaVars, incidents, sequence, ingested, blobs, own, post, correlations>>

(* listArtifactsJSON.                                                      *)
Listed(i) == {a \in artifacts : a.incident = i}

-----------------------------------------------------------------------------
(* External signals.                                                       *)
(* created_at within 15 minutes of firedAt, in the project of the post.    *)
Matches(p) ==
  {i \in DOMAIN incidents : /\ incidents[i].project = post[p].project
                            /\ incidents[i].at - post[p].at \in -15..15}

(* The first alert of the payload is stored, under the project asked for,  *)
(* the gateway's otherwise.                                                *)
StoreSignal(p, pr, t) ==
  /\ Connection /\ post[p].pc = "idle" /\ Begun < MaxBegun
  /\ post' = [post EXCEPT ![p] = [pc |-> IF Has("external_signals") THEN "stored" ELSE "refused",
                                  project |-> pr, at |-> t, todo |-> {}]]
  /\ UNCHANGED <<schemaVars, incidents, sequence, ingested, upload, blobs, own, artifacts, correlations>>

(* handlePrometheusWebhook: the key is a gateway's, the project any.       *)
PostSignal(p) == \E pr \in Projects, t \in Times : StoreSignal(p, pr, t)

(* The result set keeps its connection until CloseRows.                    *)
QueryIncidents(p) ==
  /\ Connection /\ post[p].pc = "stored"
  /\ post' = [post EXCEPT ![p].pc = "reading", ![p].todo = Matches(p)]
  /\ UNCHANGED <<schemaVars, incidents, sequence, ingested, upload, blobs, own, artifacts, correlations>>

(* INSERT OR IGNORE, on a second connection; its error is ignored.         *)
Correlate(p, i) ==
  /\ Connection /\ post[p].pc = "reading" /\ i \in post[p].todo
  /\ correlations' = IF Has("external_signal_correlations") THEN correlations \cup {<<p, i>>} ELSE correlations
  /\ post' = [post EXCEPT ![p].todo = @ \ {i}]
  /\ UNCHANGED <<schemaVars, incidents, sequence, ingested, upload, blobs, own, artifacts>>

CloseRows(p) ==
  /\ Serving /\ post[p].pc = "reading" /\ post[p].todo = {}
  /\ post' = [post EXCEPT ![p].pc = "done"]
  /\ UNCHANGED <<schemaVars, incidents, sequence, ingested, upload, blobs, own, artifacts, correlations>>

(* ListSignalCorrelations joins both tables.                               *)
ListedCorrelations == {c \in correlations : c[2] \in DOMAIN incidents}

-----------------------------------------------------------------------------
StartUp == (Start \/ RunStatement \/ FailStatement) /\ UNCHANGED recordVars

(* Requests and goroutines are gone; the database and the files stay.      *)
Crash ==
  /\ starts < MaxStarts /\ Begun < MaxBegun /\ Die
  /\ upload' = [u \in Uploads |-> IF upload[u].pc \in {"saving", "writing", "adrift", "written"}
                                   THEN [upload[u] EXCEPT !.pc = "lost"] ELSE upload[u]]
  /\ post' = [p \in Posts |-> IF post[p].pc \in {"stored", "reading"}
                               THEN [post[p] EXCEPT !.pc = "cut", !.todo = {}] ELSE post[p]]
  /\ UNCHANGED <<incidents, sequence, ingested, blobs, own, artifacts, correlations>>

SaveSteps(u) == OpenFile(u) \/ WriteFile(u) \/ InsertArtifact(u)
CorrelateSteps(p) == QueryIncidents(p) \/ (\E i \in post[p].todo : Correlate(p, i)) \/ CloseRows(p)

Next ==
  \/ StartUp \/ Crash
  \/ \E pr \in Projects, t \in Times : Ingest(pr, t)
  \/ \E i \in DOMAIN incidents : Delete(i)
  \/ \E u \in Uploads : SaveSteps(u) \/ FailSave(u) \/ \E i \in 1..MaxIncidents : UploadArtifact(u, i)
  \/ \E p \in Posts : CorrelateSteps(p) \/ PostSignal(p)

(* Every started goroutine and request is scheduled again and again.       *)
Fairness ==
  /\ WF_vars(Start /\ UNCHANGED recordVars) /\ WF_vars(RunStatement /\ UNCHANGED recordVars)
  /\ \A u \in Uploads : WF_vars(SaveSteps(u))
  /\ \A p \in Posts : WF_vars(CorrelateSteps(p))

Spec == Init /\ [][Next]_vars /\ Fairness

-----------------------------------------------------------------------------
(* What is listed for an incident was uploaded to that very failure; its   *)
(* file is there, whole, unless another upload of that name to that        *)
(* incident opened it at the same time or later, and even then it holds    *)
(* nothing of another failure.  What is listed as correlated with a signal *)
(* is a failure of the signal's project and time.  So it is though         *)
(* incidents are deleted between the answer and the row, saves fail, and   *)
(* the process dies anywhere.                                              *)
ShownAsUploaded ==
  /\ \A i \in DOMAIN incidents : \A a \in Listed(i) :
       LET OfFailure == {u \in Uploads : upload[u].serial = incidents[i].serial}
           file == <<i, a.name>>
       IN  /\ a.upload \in OfFailure
           /\ a.upload \in own => file \in DOMAIN blobs /\ blobs[file] = a.upload
           /\ file \in DOMAIN blobs => blobs[file] \in {None, Mixed} \cup OfFailure
  /\ \A c \in ListedCorrelations :
       /\ incidents[c[2]].project = post[c[1]].project
       /\ incidents[c[2]].at - post[c[1]].at \in -15..15

(* A signal that is stored has its correlation come to an end, unless the  *)
(* process dies: docs/guides/architecture.md:269.                          *)
CorrelationEnds ==
  \A p \in Posts : post[p].pc = "stored" ~> post[p].pc \in {"done", "cut"}
=============================================================================
