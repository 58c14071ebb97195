----------------------------- MODULE PipelineRun -----------------------------
(***************************************************************************)
(* One row of pipeline_runs (pkg/core/execution.go): ingest workers upsert *)
(* it when a batch of the run is done, in one statement, and leads change  *)
(* its flags through PATCH /api/executions/{run}/flag                      *)
(* (pkg/api/server/execution_handlers.go), which is a SELECT, an UPDATE or *)
(* INSERT, and a SELECT and an UPDATE of the report.                       *)
(*                                                                         *)
(* The totals and the tests of the report are named by the batch they come *)
(* from.  Left out: commit and branch, and the time stamps.                *)
(***************************************************************************)
EXTENDS Naturals, FiniteSets

CONSTANTS
  Envs, Types,   (* execution_env, execution_type; "UNKNOWN", "REAL" among them *)
  Batches,       (* batches of the run                                          *)
  Sent, Failed,  (* a batch's flags; the batches with a failure                 *)
  Patches, Ask,  (* flag requests, and what each asks for                       *)
  Omit,          (* in a request: the dimension is left out                     *)
  None,          (* no row, no batch, no flags                                  *)
  MaxErrors      (* bound: statements that fail                                 *)

Flags  == [env : Envs, type : Types]
Report == [flags : Flags \cup {None}, tests : Batches \cup {None}]
Row    == [outcome : {"unknown", "success", "failure"}, flags : Flags,
           totals : Batches \cup {None}, report : Report]

(* NormalizeExecutionType, to "UNKNOWN" for what it does not know, and the  *)
(* default that every user of it applies.                                   *)
TypeOrReal(t) == IF t = "UNKNOWN" THEN "REAL" ELSE t
Defaults      == [env |-> "UNKNOWN", type |-> "REAL"]

ASSUME RunAssumption ==
  /\ "UNKNOWN" \in Envs /\ "REAL" \in Types /\ "UNKNOWN" \notin Types
  /\ Sent \in [Batches -> [env : Envs, type : Types \cup {"UNKNOWN"}]]
  /\ Failed \subseteq Batches
  /\ Ask \in [Patches -> [env : Envs \cup {Omit}, type : Types \cup {"UNKNOWN", Omit}]]
  /\ Omit \notin Envs \cup Types \cup {"UNKNOWN"}
  /\ None \notin Batches \cup Flags \cup Row
  /\ MaxErrors \in Nat

VARIABLES
  row,         (* the row, or None                                        *)
  pc,          (* each request: its next statement                        *)
  existing,    (* ... the flags it loaded                                 *)
  read,        (* ... the tests of the report it read                     *)
  finalized,   (* batches whose upsert was done                           *)
  errors,
  (* Auxiliary, read by no guard: each dimension as it was last asked for  *)
  (* or sent, the dimensions set since a request loaded them (all, if its  *)
  (* load failed), and those that such a request has undone since.         *)
  meant, overtaken, undone

vars  == <<row, pc, existing, read, finalized, errors, meant, overtaken, undone>>
aux   == <<meant, overtaken, undone>>
Dims  == {"env", "type"}
Steps == {"load", "update", "insert", "read", "write", "done", "failed"}

-----------------------------------------------------------------------------
Init ==
  /\ row = None
  /\ pc = [p \in Patches |-> "load"]
  /\ existing = [p \in Patches |-> Defaults]
  /\ read = [p \in Patches |-> None]
  /\ finalized = {}
  /\ errors = 0
  /\ meant = Defaults
  /\ overtaken = [p \in Patches |-> {}]
  /\ undone = {}

(* Flags f were written, of which the dimensions D on purpose, by somebody  *)
(* who may undo the dimensions S.                                           *)
Means(f, D, S) ==
  /\ meant' = [d \in Dims |-> IF d \in D THEN f[d] ELSE meant[d]]
  /\ overtaken' = [p \in Patches |-> overtaken[p] \cup D]
  /\ undone' = (undone \cup S) \ D

Goto(p, step) == pc' = [pc EXCEPT ![p] = step]

(* FinalizePipelineExecution: mergeExecutionFlags, then the upsert.         *)
Merged(b) == [Sent[b] EXCEPT !.type = TypeOrReal(@)]
Verdict(b) == IF b \in Failed THEN "failure" ELSE "success"

(* Mutant of Outcome: the last batch decides.                               *)
OutcomeOfLast(b) == Verdict(b)

Outcome(b) ==
  IF row # None /\ row.outcome = "failure" THEN "failure" ELSE Verdict(b)

Finalize(b) ==
  /\ row' = [outcome |-> Outcome(b), flags |-> Merged(b), totals |-> b,
             report |-> [flags |-> Merged(b), tests |-> b]]
  /\ finalized' = finalized \cup {b}
  /\ Means(Merged(b), Dims, {})
  /\ UNCHANGED <<pc, existing, read, errors>>

(* Mutant of Wanted: a dimension that is left out gets its default.         *)
WantedOrDefault(p) ==
  [env  |-> IF Ask[p].env = Omit THEN existing[p].env ELSE Ask[p].env,
   type |-> IF Ask[p].type = Omit THEN "REAL" ELSE TypeOrReal(Ask[p].type)]

(* What the handler makes of the flags it loaded.                           *)
Wanted(p) ==
  [env  |-> IF Ask[p].env = Omit THEN existing[p].env ELSE Ask[p].env,
   type |-> IF Ask[p].type = Omit THEN existing[p].type ELSE TypeOrReal(Ask[p].type)]

Asked(p) == {d \in Dims : Ask[p][d] # Omit}

Load(p) ==
  /\ pc[p] = "load"
  /\ overtaken' = [overtaken EXCEPT ![p] = {}]
  /\ existing' = [existing EXCEPT ![p] = IF row = None THEN Defaults ELSE row.flags]
  /\ Goto(p, "update")
  /\ UNCHANGED <<row, read, finalized, errors, meant, undone>>

(* Mutant of Update: the number of rows that were updated is not looked at. *)
UpdateUnchecked(p) ==
  /\ pc[p] = "update"
  /\ Goto(p, "read")
  /\ row' = IF row = None THEN row ELSE [row EXCEPT !.flags = Wanted(p)]
  /\ UNCHANGED <<existing, read, finalized, errors, aux>>

(* UpdatePipelineFlags: both columns are written.                           *)
Update(p) ==
  /\ pc[p] = "update"
  /\ IF row = None
     THEN Goto(p, "insert") /\ UNCHANGED <<row, aux>>
     ELSE /\ Goto(p, "read")
          /\ row' = [row EXCEPT !.flags = Wanted(p)]
          /\ Means(Wanted(p), Asked(p), overtaken[p])
  /\ UNCHANGED <<existing, read, finalized, errors>>

(* Mutant of Insert: the row is replaced, as by INSERT OR REPLACE.          *)
InsertOrReplace(p) ==
  /\ pc[p] = "insert"
  /\ Goto(p, "done")
  /\ row' = [outcome |-> "unknown", flags |-> Wanted(p), totals |-> None,
             report |-> [flags |-> None, tests |-> None]]
  /\ Means(Wanted(p), Asked(p), overtaken[p])
  /\ UNCHANGED <<existing, read, finalized, errors>>

(* No row was updated: INSERT, which UNIQUE refuses if one is there by now. *)
Insert(p) ==
  /\ pc[p] = "insert"
  /\ IF row = None
     THEN /\ Goto(p, "done")
          /\ row' = [outcome |-> "unknown", flags |-> Wanted(p), totals |-> None,
                     report |-> [flags |-> None, tests |-> None]]
          /\ Means(Wanted(p), Asked(p), {})
     ELSE Goto(p, "failed") /\ UNCHANGED <<row, aux>>
  /\ UNCHANGED <<existing, read, finalized, errors>>

(* The report is read, its flags replaced, and it is written back whole.    *)
Read(p) ==
  /\ pc[p] = "read"
  /\ read' = [read EXCEPT ![p] = row.report.tests]
  /\ Goto(p, "write")
  /\ UNCHANGED <<row, existing, finalized, errors, aux>>

Write(p) ==
  /\ pc[p] = "write"
  /\ row' = [row EXCEPT !.report = [flags |-> Wanted(p), tests |-> read[p]]]
  /\ Goto(p, "done")
  /\ UNCHANGED <<existing, read, finalized, errors, aux>>

(* A statement fails: a load that fails is taken for a missing row, a       *)
(* failed UPDATE or INSERT is answered with 500, and the errors of the last *)
(* two are ignored.                                                         *)
StatementFails(p) ==
  /\ errors < MaxErrors
  /\ errors' = errors + 1
  /\ \/ /\ pc[p] = "load"
        /\ existing' = [existing EXCEPT ![p] = Defaults]
        /\ overtaken' = [overtaken EXCEPT ![p] = Dims]
        /\ Goto(p, "update")
     \/ /\ pc[p] \in {"update", "insert"}
        /\ Goto(p, "failed")
        /\ UNCHANGED <<existing, overtaken>>
     \/ /\ pc[p] \in {"read", "write"}
        /\ Goto(p, "done")
        /\ UNCHANGED <<existing, overtaken>>
  /\ UNCHANGED <<row, read, finalized, meant, undone>>

Handle(p) ==
  Load(p) \/ Update(p) \/ Insert(p) \/ Read(p) \/ Write(p) \/ StatementFails(p)

Next == (\E b \in Batches : Finalize(b)) \/ \E p \in Patches : Handle(p)

Spec == Init /\ [][Next]_vars

-----------------------------------------------------------------------------
TypeOK ==
  /\ row \in Row \cup {None}
  /\ pc \in [Patches -> Steps]
  /\ existing \in [Patches -> Flags]
  /\ read \in [Patches -> Batches \cup {None}]
  /\ finalized \subseteq Batches
  /\ errors \in 0..MaxErrors
  /\ meant \in Flags
  /\ overtaken \in [Patches -> SUBSET Dims]
  /\ undone \subseteq Dims
  /\ \A p \in Patches : pc[p] \in {"read", "write"} => row # None

(* The outcome is the one of the batches, whoever created the row and       *)
(* whatever requests run meanwhile: failure once one has failed, success    *)
(* only if none has, unknown only before the first.                         *)
OutcomeFollows ==
  IF row = None THEN finalized = {}
  ELSE row.outcome = IF finalized = {} THEN "unknown"
                     ELSE IF finalized \cap Failed # {} THEN "failure" ELSE "success"

(* The totals are those of a batch as soon as one was upserted, and the     *)
(* tests of the report are of that same batch unless a request has written  *)
(* back the ones it had read.                                               *)
ReportFollows ==
  row # None =>
    /\ row.totals \in finalized \/ (row.totals = None /\ finalized = {})
    /\ \/ row.report.tests = row.totals
       \/ \E p \in Patches : pc[p] = "done" /\ read[p] = row.report.tests

(* "Omit env or type to leave that dimension unchanged (partial update)":   *)
(* of that promise the two statements keep this.  Env and type are what was *)
(* last asked for or sent, whoever writes the other dimension, but for one  *)
(* that a request left out and wrote back although it was set while the     *)
(* request was between its load and its UPDATE, or its load had failed.     *)
FlagsAsMeant ==
  row # None => \A d \in Dims \ undone : row.flags[d] = meant[d]
=============================================================================
