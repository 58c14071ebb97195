-------------------------- MODULE MCIngestPipeline --------------------------
(* Small instances of IngestPipeline: a few payloads, each a handful of     *)
(* cases, and the runs and tests they mention.                              *)
EXTENDS IngestPipeline, TLC

CONSTANTS w1, w2, b1, b2, r1, r2, t1, t2, k1, k2

TwoWorkers == {w1, w2}
WorkerSymmetry == Permutations(TwoWorkers)
MCTests == {t1, t2}
MCRuns  == {r1, r2}
MCKeys  == {k1, k2}
TwoBatches   == {b1, b2}

Fail(t) == [test |-> t, form |-> "plain", status |-> "fail", timed |-> FALSE, key |-> NoKey]
Pass(t) == [Fail(t) EXCEPT !.status = "pass", !.timed = TRUE]
Skip(t) == [Fail(t) EXCEPT !.status = "skip"]
Keyed(c, k) == [c EXCEPT !.key = k]
Prefixed(c) == [c EXCEPT !.form = "prefixed"]
Flaky(t) == [Fail(t) EXCEPT !.status = "flaky"]

(* Two runs fail in one test, one of them in another before it; both of its *)
(* alerts have a Jira key.                                                  *)
TwoFailures ==
  b1 :> JSONBatch(r1, <<Keyed(Fail(t2), k1), Keyed(Fail(t1), k2)>>, TRUE) @@
  b2 :> JUnitBatch(r2, <<Prefixed(Fail(t1)), Pass(t2)>>, FALSE)
PostedTwice == b1 :> 2 @@ b2 :> 2

(* A run that reports one test twice, and a pass of it in the next run,     *)
(* whose report counts a failure it does not list.                          *)
FailThenPass ==
  b1 :> JSONBatch(r1, <<Flaky(t1), Fail(t1)>>, TRUE) @@
  b2 :> JSONBatch(r2, <<Pass(t1)>>, TRUE)
FailurePostedTwice == b1 :> 2 @@ b2 :> 1
=============================================================================
