------------------------- MODULE PipelineRun_proofs -------------------------
(* What requests and upserts keep of a run's row, for any batches, requests *)
(* and flags.                                                               *)
EXTENDS PipelineRun, TLAPS

LEMMA FlagsTyped ==
  /\ Defaults \in Flags
  /\ \A b \in Batches : Merged(b) \in Flags
  /\ TypeOK => \A p \in Patches : Wanted(p) \in Flags
<1>1. Defaults \in Flags
  BY RunAssumption DEF Defaults, Flags
<1>2. ASSUME NEW b \in Batches PROVE Merged(b) \in Flags
  <2>1. Sent[b] \in [env : Envs, type : Types \cup {"UNKNOWN"}]
    BY RunAssumption
  <2> QED
    BY <2>1, RunAssumption DEF Merged, Flags, TypeOrReal
<1>3. ASSUME TypeOK, NEW p \in Patches PROVE Wanted(p) \in Flags
  <2>1. /\ Ask[p].env \in Envs \cup {Omit}
        /\ Ask[p].type \in Types \cup {"UNKNOWN", Omit}
        /\ existing[p].env \in Envs /\ existing[p].type \in Types
    BY <1>3, RunAssumption DEF TypeOK, Flags
  <2> QED
    BY <2>1, RunAssumption DEF Wanted, Flags, TypeOrReal
<1> QED
  BY <1>1, <1>2, <1>3

(* A row with one field replaced.                                           *)
LEMMA RowParts ==
  ASSUME NEW r \in Row
  PROVE  /\ r # None
         /\ r.flags \in Flags /\ r.totals \in Batches \cup {None}
         /\ r.report.tests \in Batches \cup {None}
         /\ \A f \in Flags : [r EXCEPT !.flags = f] \in Row
         /\ \A g \in Report : [r EXCEPT !.report = g] \in Row
BY RunAssumption DEF Row, Report

(* The row after each kind of step that writes it.                          *)
LEMMA FinalizeWrites ==
  ASSUME NEW b \in Batches, Finalize(b)
  PROVE  /\ row' \in Row /\ row' # None
         /\ row'.outcome = Outcome(b) /\ row'.totals = b /\ row'.report.tests = b
<1>1. Merged(b) \in Flags
  BY FlagsTyped
<1>2. row' \in Row
  BY <1>1 DEF Finalize, Row, Report, Outcome, Verdict
<1> QED
  BY <1>2, RowParts DEF Finalize

LEMMA TypeStep == TypeOK /\ [Next]_vars => TypeOK'
<1> SUFFICES ASSUME TypeOK, [Next]_vars PROVE TypeOK'
  OBVIOUS
<1> USE DEF Goto
<1>m. ASSUME NEW f \in Flags, NEW D \in SUBSET Dims, NEW S \in SUBSET Dims, Means(f, D, S)
      PROVE  /\ meant' \in Flags
             /\ overtaken' \in [Patches -> SUBSET Dims]
             /\ undone' \subseteq Dims
  <2>1. \A d \in Dims : meant'[d] = IF d \in D THEN f[d] ELSE meant[d]
    BY <1>m DEF Means
  <2>2. meant' = [env |-> meant'.env, type |-> meant'.type]
    BY <1>m DEF Means, Dims
  <2>3. meant'.env \in Envs /\ meant'.type \in Types
    BY <2>1 DEF Dims, Flags, TypeOK
  <2>4. meant' \in Flags
    BY <2>2, <2>3 DEF Flags
  <2> QED
    BY <1>m, <2>4 DEF Means, TypeOK
<1>a. \A p \in Patches : Asked(p) \in SUBSET Dims /\ overtaken[p] \in SUBSET Dims
  BY DEF Asked, TypeOK
<1>1. ASSUME NEW b \in Batches, Finalize(b) PROVE TypeOK'
  <2>1. /\ meant' \in Flags /\ overtaken' \in [Patches -> SUBSET Dims]
        /\ undone' \subseteq Dims
    BY <1>1, <1>m, FlagsTyped DEF Finalize
  <2> QED
    BY <1>1, <2>1, FinalizeWrites DEF TypeOK, Finalize
<1>2. ASSUME NEW p \in Patches, Load(p) PROVE TypeOK'
  <2>1. (IF row = None THEN Defaults ELSE row.flags) \in Flags
    BY FlagsTyped, RowParts DEF TypeOK
  <2> QED
    BY <1>2, <2>1 DEF TypeOK, Load, Steps, aux
<1>3. ASSUME NEW p \in Patches, Update(p) PROVE TypeOK'
  <2>1. row # None => row' \in Row /\ row' # None
    BY <1>3, FlagsTyped, RowParts DEF TypeOK, Update
  <2>2. /\ meant' \in Flags /\ overtaken' \in [Patches -> SUBSET Dims]
        /\ undone' \subseteq Dims
    BY <1>3, <1>a, <1>m, FlagsTyped DEF Update, aux, TypeOK
  <2> QED
    BY <1>3, <2>1, <2>2 DEF TypeOK, Update, Steps
<1>4. ASSUME NEW p \in Patches, Insert(p) PROVE TypeOK'
  <2>1. row = None => row' \in Row /\ row' # None
    BY <1>4, FlagsTyped, RunAssumption DEF Insert, Row, Report
  <2>2. /\ meant' \in Flags /\ overtaken' \in [Patches -> SUBSET Dims]
        /\ undone' \subseteq Dims
    BY <1>4, <1>a, <1>m, FlagsTyped DEF Insert, aux, TypeOK
  <2> QED
    BY <1>4, <2>1, <2>2 DEF TypeOK, Insert, Steps
<1>5. ASSUME NEW p \in Patches, Read(p) PROVE TypeOK'
  <2>1. row \in Row /\ row.report.tests \in Batches \cup {None}
    BY <1>5, RowParts DEF TypeOK, Read
  <2> QED
    BY <1>5, <2>1 DEF TypeOK, Read, Steps, aux
<1>6. ASSUME NEW p \in Patches, Write(p) PROVE TypeOK'
  <2>1. [flags |-> Wanted(p), tests |-> read[p]] \in Report
    BY FlagsTyped DEF TypeOK, Report
  <2>2. row \in Row
    BY <1>6 DEF TypeOK, Write
  <2>3. row' \in Row /\ row' # None
    BY <1>6, <2>1, <2>2, RowParts DEF Write
  <2> QED
    BY <1>6, <2>3 DEF TypeOK, Write, Steps, aux
<1>7. ASSUME NEW p \in Patches, StatementFails(p) PROVE TypeOK'
  <2>1. errors' \in 0..MaxErrors
    BY <1>7, RunAssumption DEF TypeOK, StatementFails
  <2>2. /\ existing' \in [Patches -> Flags] /\ pc' \in [Patches -> Steps]
        /\ overtaken' \in [Patches -> SUBSET Dims]
    BY <1>7, FlagsTyped DEF TypeOK, StatementFails, Steps
  <2>3. \A q \in Patches : pc'[q] \in {"read", "write"} => row' # None
    BY <1>7 DEF TypeOK, StatementFails
  <2> QED
    BY <1>7, <2>1, <2>2, <2>3 DEF TypeOK, StatementFails
<1>8. CASE UNCHANGED vars
  BY <1>8 DEF vars, TypeOK
<1> QED
  BY <1>1, <1>2, <1>3, <1>4, <1>5, <1>6, <1>7, <1>8 DEF Next, Handle

LEMMA TypeInit == Init => TypeOK
  BY FlagsTyped, RunAssumption DEF Init, TypeOK, Steps

(* The row and every request keep their types; a request that reads or      *)
(* writes a report has a row to do it on.                                   *)
THEOREM TypeCorrect == Spec => []TypeOK
  BY TypeInit, TypeStep, PTL DEF Spec

-----------------------------------------------------------------------------
(* What a request writes: it leaves the outcome and the totals as they are, *)
(* or creates the row.                                                      *)
LEMMA HandleWrites ==
  ASSUME TypeOK, NEW p \in Patches, Handle(p)
  PROVE  /\ finalized' = finalized
         /\ \/ row' = row
            \/ /\ row # None /\ row' # None
               /\ row'.outcome = row.outcome /\ row'.totals = row.totals
               /\ \/ row'.report.tests = row.report.tests
                  \/ pc'[p] = "done" /\ read[p] = row'.report.tests
            \/ /\ row = None /\ row' # None
               /\ row'.outcome = "unknown" /\ row'.totals = None
               /\ row'.report.tests = None
         /\ \A q \in Patches : pc[q] = "done" => pc'[q] = "done" /\ read'[q] = read[q]
         /\ pc[p] # "done"
         /\ row' # row => read' = read
<1> USE DEF Goto
<1>1. \A q \in Patches : pc[q] = "done" => pc'[q] = "done" /\ read'[q] = read[q]
  BY DEF Handle, Load, Update, Insert, Read, Write, StatementFails, TypeOK
<1>2. finalized' = finalized /\ pc[p] # "done"
  BY DEF Handle, Load, Update, Insert, Read, Write, StatementFails
<1>3. CASE Load(p) \/ Read(p) \/ StatementFails(p)
  <2>1. row' = row
    BY <1>3 DEF Load, Read, StatementFails
  <2> QED
    BY <1>1, <1>2, <2>1
<1>4. CASE Update(p)
  <2>1. CASE row = None
    BY <1>1, <1>2, <1>4, <2>1 DEF Update
  <2>2. CASE row # None
    <3>1. row \in Row /\ row' = [row EXCEPT !.flags = Wanted(p)]
      BY <1>4, <2>2 DEF Update, TypeOK
    <3>2. /\ row'.outcome = row.outcome /\ row'.totals = row.totals
          /\ row'.report.tests = row.report.tests
      BY <3>1 DEF Row
    <3>3. row' # None
      BY <2>2, <3>1, FlagsTyped, RowParts
    <3> QED
      BY <1>1, <1>2, <1>4, <2>2, <3>2, <3>3 DEF Update
  <2> QED
    BY <2>1, <2>2
<1>5. CASE Insert(p)
  <2>1. CASE row = None
    <3>1. row' \in Row
      BY <1>5, <2>1, FlagsTyped, RunAssumption DEF Insert, Row, Report
    <3> QED
      BY <1>1, <1>2, <1>5, <2>1, <3>1, RowParts DEF Insert
  <2>2. CASE row # None
    BY <1>1, <1>2, <1>5, <2>2 DEF Insert
  <2> QED
    BY <2>1, <2>2
<1>6. CASE Write(p)
  <2>1. row \in Row /\ row # None
    BY <1>6, RowParts DEF Write, TypeOK
  <2>2. [flags |-> Wanted(p), tests |-> read[p]] \in Report
    BY FlagsTyped DEF TypeOK, Report
  <2>3. row' = [row EXCEPT !.report = [flags |-> Wanted(p), tests |-> read[p]]]
    BY <1>6 DEF Write
  <2>4. row' # None
    BY <2>1, <2>2, <2>3, RowParts
  <2>5. /\ row'.outcome = row.outcome /\ row'.totals = row.totals
        /\ row'.report.tests = read[p]
    BY <2>1, <2>3 DEF Row
  <2>6. pc'[p] = "done" /\ read' = read
    BY <1>6 DEF Write, TypeOK
  <2> QED
    BY <1>1, <1>2, <2>1, <2>4, <2>5, <2>6
<1> QED
  BY <1>3, <1>4, <1>5, <1>6 DEF Handle

IInv == TypeOK /\ OutcomeFollows /\ ReportFollows

LEMMA StepKeeps == IInv /\ [Next]_vars => IInv'
<1> SUFFICES ASSUME IInv, [Next]_vars PROVE OutcomeFollows' /\ ReportFollows'
  BY TypeStep DEF IInv
<1>1. ASSUME NEW b \in Batches, Finalize(b) PROVE OutcomeFollows' /\ ReportFollows'
  <2>1. /\ row' # None /\ row'.outcome = Outcome(b)
        /\ row'.totals = b /\ row'.report.tests = b
        /\ finalized' = finalized \cup {b}
    BY <1>1, FinalizeWrites DEF Finalize
  <2>2. OutcomeFollows'
    BY <2>1 DEF IInv, OutcomeFollows, Outcome, Verdict
  <2> QED
    BY <2>1, <2>2 DEF ReportFollows
<1>2. ASSUME NEW p \in Patches, Handle(p) PROVE OutcomeFollows' /\ ReportFollows'
  <2>1. CASE row' = row
    BY <1>2, <2>1, HandleWrites DEF IInv, OutcomeFollows, ReportFollows
  <2>2. CASE row = None /\ row' # None
    BY <1>2, <2>2, HandleWrites DEF IInv, OutcomeFollows, ReportFollows
  <2>3. CASE row # None /\ row' # None /\ row' # row
    <3>1. /\ row'.outcome = row.outcome /\ row'.totals = row.totals
          /\ finalized' = finalized /\ read' = read
          /\ \/ row'.report.tests = row.report.tests
             \/ pc'[p] = "done" /\ read[p] = row'.report.tests
          /\ \A q \in Patches : pc[q] = "done" => pc'[q] = "done"
      BY <1>2, <2>3, HandleWrites DEF IInv
    <3> QED
      BY <2>3, <3>1 DEF IInv, OutcomeFollows, ReportFollows
  <2> QED
    BY <1>2, <2>1, <2>2, <2>3, HandleWrites DEF IInv
<1>3. CASE UNCHANGED vars
  BY <1>3 DEF vars, IInv, OutcomeFollows, ReportFollows
<1> QED
  BY <1>1, <1>2, <1>3 DEF Next

LEMMA InitHolds == Init => IInv
  BY TypeInit DEF Init, IInv, OutcomeFollows, ReportFollows

(* The outcome of a run is that of its batches, in any order and whatever   *)
(* requests run meanwhile.                                                  *)
THEOREM OutcomeIsOfBatches == Spec => []OutcomeFollows
<1>1. IInv => OutcomeFollows
  BY DEF IInv
<1> QED
  BY InitHolds, StepKeeps, <1>1, PTL DEF Spec

(* Totals and tests are of the same batch, unless a request wrote back the  *)
(* tests it had read.                                                       *)
THEOREM ReportIsOfBatch == Spec => []ReportFollows
<1>1. IInv => ReportFollows
  BY DEF IInv
<1> QED
  BY InitHolds, StepKeeps, <1>1, PTL DEF Spec

-----------------------------------------------------------------------------
(* Flags stay as they were meant.                                           *)

(* A dimension that a request has loaded, that nobody has set since and     *)
(* that is not undone, is loaded as it is meant; where there is no row,     *)
(* everybody has the defaults.                                              *)
LoadedAsMeant ==
  /\ row = None =>
       /\ meant = Defaults /\ undone = {}
       /\ \A p \in Patches : existing[p] = Defaults
  /\ \A p \in Patches : pc[p] \in {"update", "insert"} =>
       \A d \in Dims \ (undone \cup overtaken[p]) : existing[p][d] = meant[d]

FlagsInv == FlagsAsMeant /\ LoadedAsMeant

LEMMA WantedParts ==
  ASSUME TypeOK, NEW p \in Patches
  PROVE  /\ Asked(p) \subseteq Dims
         /\ \A d \in Dims \ Asked(p) : Wanted(p)[d] = existing[p][d]
<1>1. \A d \in Dims : Wanted(p)[d] = IF d = "env" THEN Wanted(p).env ELSE Wanted(p).type
  BY DEF Dims
<1> QED
  BY DEF Asked, Wanted, Dims

(* Writing some dimensions on purpose leaves the others as meant, and the   *)
(* requests that had loaded the others too.                                 *)
LEMMA MeaningWell ==
  ASSUME TypeOK, FlagsInv, NEW f, NEW D \in SUBSET Dims, NEW S \in SUBSET Dims,
         Means(f, D, S), UNCHANGED existing,
         \A q \in Patches : pc'[q] \in {"update", "insert"} => pc[q] \in {"update", "insert"},
         row' # None, row'.flags = f,
         \A d \in Dims \ (D \cup S \cup undone) : f[d] = meant[d]
  PROVE  FlagsInv'
<1>1. /\ \A d \in Dims : meant'[d] = IF d \in D THEN f[d] ELSE meant[d]
      /\ \A q \in Patches : overtaken'[q] = overtaken[q] \cup D
      /\ undone' = (undone \cup S) \ D
  BY DEF Means
<1>2. FlagsAsMeant'
  BY <1>1 DEF FlagsAsMeant
<1>3. LoadedAsMeant'
  <2> SUFFICES ASSUME NEW q \in Patches, pc'[q] \in {"update", "insert"},
                      NEW d \in Dims, d \notin undone', d \notin overtaken'[q]
               PROVE  existing'[q][d] = meant'[d]
    BY DEF LoadedAsMeant
  <2>1. d \notin D /\ d \notin undone /\ d \notin overtaken[q]
    BY <1>1
  <2> QED
    BY <1>1, <2>1 DEF FlagsInv, LoadedAsMeant
<1> QED
  BY <1>2, <1>3 DEF FlagsInv

LEMMA FlagsStep ==
  ASSUME TypeOK, [Next]_vars, FlagsInv
  PROVE  FlagsInv'
<1>d. /\ Defaults \in Flags /\ \A b \in Batches : Merged(b) \in Flags
      /\ \A p \in Patches : Wanted(p) \in Flags
  BY FlagsTyped
<1>1. ASSUME NEW b \in Batches, Finalize(b) PROVE FlagsInv'
  <2>1. /\ row' # None /\ row'.flags = Merged(b) /\ Means(Merged(b), Dims, {})
        /\ UNCHANGED existing /\ UNCHANGED pc
    BY <1>1, FinalizeWrites DEF Finalize
  <2> QED
    BY <2>1, MeaningWell
<1>2. ASSUME NEW p \in Patches, Load(p) \/ (StatementFails(p) /\ pc[p] = "load")
      PROVE FlagsInv'
  <2>1. UNCHANGED <<row, meant, undone>>
    BY <1>2 DEF Load, StatementFails
  <2>2. \A q \in Patches \ {p} : /\ existing'[q] = existing[q] /\ pc'[q] = pc[q]
                                 /\ overtaken'[q] = overtaken[q]
    BY <1>2 DEF Load, StatementFails, Goto, TypeOK
  <2>3. \/ /\ existing'[p] = IF row = None THEN Defaults ELSE row.flags
           /\ overtaken'[p] = {}
        \/ existing'[p] = Defaults /\ overtaken'[p] = Dims
    BY <1>2 DEF Load, StatementFails, TypeOK
  <2>4. FlagsAsMeant'
    BY <2>1 DEF FlagsInv, FlagsAsMeant
  <2>5. \A d \in Dims \ (undone' \cup overtaken'[p]) : existing'[p][d] = meant'[d]
    BY <2>1, <2>3 DEF FlagsInv, FlagsAsMeant, LoadedAsMeant
  <2> QED
    BY <2>1, <2>2, <2>3, <2>4, <2>5 DEF FlagsInv, LoadedAsMeant
<1>3. ASSUME NEW p \in Patches, Update(p) PROVE FlagsInv'
  <2>1. CASE row = None
    BY <1>3, <2>1 DEF Update, aux, Goto, TypeOK, FlagsInv, FlagsAsMeant, LoadedAsMeant
  <2>2. CASE row # None
    <3>1. /\ row \in Row /\ row' = [row EXCEPT !.flags = Wanted(p)]
          /\ Means(Wanted(p), Asked(p), overtaken[p]) /\ UNCHANGED existing
      BY <1>3, <2>2 DEF Update, TypeOK
    <3>2. row' # None /\ row'.flags = Wanted(p)
      BY <1>d, <3>1, RowParts DEF Row
    <3>3. pc[p] = "update" /\ pc' = [pc EXCEPT ![p] = "read"]
      BY <1>3, <2>2 DEF Update, Goto
    <3>4. \A q \in Patches : pc'[q] \in {"update", "insert"} => pc[q] \in {"update", "insert"}
      BY <3>3 DEF TypeOK
    <3>5. \A d \in Dims \ (Asked(p) \cup overtaken[p] \cup undone) : Wanted(p)[d] = meant[d]
      BY <3>3, WantedParts DEF FlagsInv, LoadedAsMeant
    <3>6. Asked(p) \in SUBSET Dims /\ overtaken[p] \in SUBSET Dims
      BY WantedParts DEF TypeOK
    <3> QED
      BY <3>1, <3>2, <3>4, <3>5, <3>6, MeaningWell
  <2> QED
    BY <2>1, <2>2
<1>4. ASSUME NEW p \in Patches, Insert(p) PROVE FlagsInv'
  <2>1. CASE row = None
    <3>1. /\ Means(Wanted(p), Asked(p), {}) /\ UNCHANGED existing
          /\ row' = [outcome |-> "unknown", flags |-> Wanted(p), totals |-> None,
                     report |-> [flags |-> None, tests |-> None]]
          /\ pc[p] = "insert" /\ pc' = [pc EXCEPT ![p] = "done"]
      BY <1>4, <2>1 DEF Insert, Goto
    <3>2. row' \in Row
      BY <1>d, <3>1, RunAssumption DEF Row, Report
    <3>3. row' # None /\ row'.flags = Wanted(p)
      BY <3>1, <3>2, RowParts
    <3>4. \A q \in Patches : pc'[q] \in {"update", "insert"} => pc[q] \in {"update", "insert"}
      BY <3>1 DEF TypeOK
    <3>5. \A d \in Dims \ Asked(p) : Wanted(p)[d] = meant[d]
      BY <2>1, WantedParts DEF FlagsInv, LoadedAsMeant
    <3> QED
      BY <3>1, <3>3, <3>4, <3>5, WantedParts, MeaningWell
  <2>2. CASE row # None
    BY <1>4, <2>2 DEF Insert, aux, Goto, TypeOK, FlagsInv, FlagsAsMeant, LoadedAsMeant
  <2> QED
    BY <2>1, <2>2
<1>5. ASSUME NEW p \in Patches,
             Read(p) \/ Write(p) \/ (StatementFails(p) /\ pc[p] # "load")
      PROVE FlagsInv'
  <2>1. UNCHANGED <<existing, aux>>
    BY <1>5 DEF Read, Write, StatementFails, aux
  <2>2. \A q \in Patches : pc'[q] \in {"update", "insert"} => pc[q] \in {"update", "insert"}
    BY <1>5 DEF Read, Write, StatementFails, Goto, TypeOK
  <2>3. /\ row' = None => row = None
        /\ row' # None => row # None /\ row'.flags = row.flags
    <3>1. CASE Write(p)
      <4>1. row \in Row /\ row # None
        BY <3>1, RowParts DEF Write, TypeOK
      <4>2. /\ row' = [row EXCEPT !.report = [flags |-> Wanted(p), tests |-> read[p]]]
            /\ [flags |-> Wanted(p), tests |-> read[p]] \in Report
        BY <1>d, <3>1 DEF Write, TypeOK, Report
      <4>3. row' # None /\ row'.flags = row.flags
        BY <4>1, <4>2, RowParts DEF Row
      <4> QED
        BY <4>1, <4>3
    <3> QED
      BY <1>5, <3>1 DEF Read, StatementFails
  <2> QED
    BY <2>1, <2>2, <2>3 DEF aux, FlagsInv, FlagsAsMeant, LoadedAsMeant
<1>6. CASE UNCHANGED vars
  BY <1>6 DEF vars, FlagsInv, FlagsAsMeant, LoadedAsMeant
<1> QED
  BY <1>1, <1>2, <1>3, <1>4, <1>5, <1>6 DEF Next, Handle

(* Whatever requests and upserts interleave and fail, env and type are as   *)
(* they were last asked for or sent, but for what a request wrote back that *)
(* was overtaken by the one who set it.                                     *)
THEOREM FlagsStayAsMeant == Spec => []FlagsAsMeant
<1>1. Init => FlagsInv
  BY DEF Init, FlagsInv, FlagsAsMeant, LoadedAsMeant
<1>2. TypeOK /\ FlagsInv /\ [Next]_vars => FlagsInv'
  BY FlagsStep
<1>3. FlagsInv => FlagsAsMeant
  BY DEF FlagsInv
<1> QED
  BY <1>1, <1>2, <1>3, TypeCorrect, PTL DEF Spec
==============================================================================
