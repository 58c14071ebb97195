--------------------------- MODULE RemediationPool ---------------------------
(***************************************************************************)
(* The bounded remediation pool: RunRemediationAsync and its workers       *)
(* (pkg/integrations/async.go), fed by RunPostIngestRemediation            *)
(* (pkg/core/remediation.go) with one job per stored alert.  A job either  *)
(* executes the project's workflow in place, or evaluates the alert rules  *)
(* (pkg/integrations/engine.go), and then itself enqueues one more job for *)
(* every manifest that matches.                                            *)
(*                                                                         *)
(* Left out: what a manifest does.  A job that panics ends like one that   *)
(* returns, runRemediationJob recovers.                                    *)
(***************************************************************************)
EXTENDS Naturals, Sequences, FiniteSets, Functions

CONSTANTS
  Callers,    (* ingest workers, and handlers that replay an incident     *)
  Slots,      (* remediationWorker goroutines, 32 in the code             *)
  QueueSize,  (* remediationQueueSize, 512 in the code                    *)
  Alerts,     (* stored alerts                                            *)
  Mode,       (* whether the alert's project has an active workflow       *)
  Matches,    (* how many manifests match an alert, in the rules mode     *)
  None        (* no alert, no job                                         *)

(* The job of an alert is <<a, 0>>; <<a, n>> runs its n-th match.           *)
AlertJob(a)   == <<a, 0>>
MatchJobs(a)  == IF Mode[a] = "rules" THEN {<<a, n>> : n \in 1..Matches[a]} ELSE {}
JobsOf(a)     == {AlertJob(a)} \cup MatchJobs(a)
Jobs          == UNION {JobsOf(a) : a \in Alerts}
Fans(j)       == j[2] = 0 /\ Mode[j[1]] = "rules"

ASSUME PoolAssumption ==
  /\ QueueSize \in Nat \ {0}
  /\ Mode \in [Alerts -> {"workflow", "rules"}]
  /\ Matches \in [Alerts -> Nat]
  /\ None \notin Alerts \cup Jobs

VARIABLES
  remediationJobs,  (* the channel                                        *)
  caller,           (* the alert a caller is enqueueing                   *)
  job,              (* what a worker runs                                 *)
  next,             (* in EvaluateAlertRules: the next match to enqueue   *)
  handed,           (* alerts that reached RunPostIngestRemediation       *)
  ran               (* jobs that have ended                               *)

vars == <<remediationJobs, caller, job, next, handed, ran>>

Queued == Range(remediationJobs)
Busy   == {s \in Slots : job[s] # None}

Init ==
  /\ remediationJobs = <<>>
  /\ caller = [c \in Callers |-> None]
  /\ job = [s \in Slots |-> None]
  /\ next = [s \in Slots |-> 1]
  /\ handed = {}
  /\ ran = {}

(* RunPostIngestRemediation is called for an alert.                         *)
HandOver(c, a) ==
  /\ caller[c] = None
  /\ a \notin handed
  /\ handed' = handed \cup {a}
  /\ caller' = [caller EXCEPT ![c] = a]
  /\ UNCHANGED <<remediationJobs, job, next, ran>>

(* Mutant of Enqueue: the send does not wait, a job for which there is no   *)
(* room is dropped.                                                         *)
EnqueueOrDrop(c) ==
  /\ caller[c] # None
  /\ remediationJobs' = IF Len(remediationJobs) < QueueSize
                        THEN Append(remediationJobs, AlertJob(caller[c]))
                        ELSE remediationJobs
  /\ caller' = [caller EXCEPT ![c] = None]
  /\ UNCHANGED <<job, next, handed, ran>>

(* RunRemediationAsync; the send waits while the channel is full.           *)
Enqueue(c) ==
  /\ caller[c] # None
  /\ Len(remediationJobs) < QueueSize
  /\ remediationJobs' = Append(remediationJobs, AlertJob(caller[c]))
  /\ caller' = [caller EXCEPT ![c] = None]
  /\ UNCHANGED <<job, next, handed, ran>>

(* Mutant of Receive: the matches are counted from zero.                    *)
ReceiveFromZero(s) ==
  /\ job[s] = None
  /\ remediationJobs # <<>>
  /\ job' = [job EXCEPT ![s] = Head(remediationJobs)]
  /\ next' = [next EXCEPT ![s] = 0]
  /\ remediationJobs' = Tail(remediationJobs)
  /\ UNCHANGED <<caller, handed, ran>>

(* remediationWorker takes the next job from the channel.                   *)
Receive(s) ==
  /\ job[s] = None
  /\ remediationJobs # <<>>
  /\ job' = [job EXCEPT ![s] = Head(remediationJobs)]
  /\ next' = [next EXCEPT ![s] = 1]
  /\ remediationJobs' = Tail(remediationJobs)
  /\ UNCHANGED <<caller, handed, ran>>

(* Mutant of EnqueueMatch: every round enqueues the first match.            *)
EnqueueFirst(s) ==
  /\ job[s] # None /\ Fans(job[s])
  /\ next[s] <= Matches[job[s][1]]
  /\ Len(remediationJobs) < QueueSize
  /\ remediationJobs' = Append(remediationJobs, <<job[s][1], 1>>)
  /\ next' = [next EXCEPT ![s] = @ + 1]
  /\ UNCHANGED <<caller, job, handed, ran>>

(* EvaluateAlertRules calls RunRemediationAsync for the next match, from    *)
(* inside a job: this send waits on the same channel.                       *)
EnqueueMatch(s) ==
  /\ job[s] # None /\ Fans(job[s])
  /\ next[s] <= Matches[job[s][1]]
  /\ Len(remediationJobs) < QueueSize
  /\ remediationJobs' = Append(remediationJobs, <<job[s][1], next[s]>>)
  /\ next' = [next EXCEPT ![s] = @ + 1]
  /\ UNCHANGED <<caller, job, handed, ran>>

(* Mutant of Finish: a job may end before it has enqueued all its matches.  *)
FinishEarly(s) ==
  /\ job[s] # None
  /\ Fans(job[s]) => next[s] >= Matches[job[s][1]]
  /\ ran' = ran \cup {job[s]}
  /\ job' = [job EXCEPT ![s] = None]
  /\ UNCHANGED <<remediationJobs, caller, next, handed>>

Finish(s) ==
  /\ job[s] # None
  /\ Fans(job[s]) => next[s] > Matches[job[s][1]]
  /\ ran' = ran \cup {job[s]}
  /\ job' = [job EXCEPT ![s] = None]
  /\ UNCHANGED <<remediationJobs, caller, next, handed>>

Next ==
  \/ \E c \in Callers : Enqueue(c) \/ \E a \in Alerts : HandOver(c, a)
  \/ \E s \in Slots : Receive(s) \/ EnqueueMatch(s) \/ Finish(s)

Spec == Init /\ [][Next]_vars

(* Go runs every goroutine that can proceed, and the runners' calls return  *)
(* (their HTTP clients have timeouts).  A channel serves those who wait on  *)
(* it in turn, so a waiting sender is not overtaken for ever.  Nothing      *)
(* obliges an alert to arrive.                                              *)
Fairness ==
  /\ \A s \in Slots : WF_vars(Receive(s) \/ Finish(s)) /\ SF_vars(EnqueueMatch(s))
  /\ \A c \in Callers : SF_vars(Enqueue(c))

FairSpec == Spec /\ Fairness

-----------------------------------------------------------------------------
TypeOK ==
  /\ remediationJobs \in Seq(Jobs)
  /\ caller \in [Callers -> Alerts \cup {None}]
  /\ job \in [Slots -> Jobs \cup {None}]
  /\ next \in [Slots -> Nat \ {0}]
  /\ handed \subseteq Alerts
  /\ ran \subseteq Jobs

(* No remediation is run twice: a job is queued once, run by one worker,    *)
(* and not queued again after it has run.                                   *)
RunOnce ==
  /\ IsInjective(remediationJobs)
  /\ \A s \in Busy : job[s] \notin Queued \cup ran
  /\ \A s, t \in Busy : job[s] = job[t] => s = t
  /\ Queued \cap ran = {}

(* "Blocks when the queue is full so jobs are never dropped": of a handed   *)
(* alert, every job is still to be sent (by the caller, or by the worker    *)
(* that is going through the matches), queued, running or has run.          *)
Held(j) == j \in Queued \cup ran \/ \E s \in Slots : job[s] = j

Unsent(a, j) ==
  \/ \E c \in Callers : caller[c] = a
  \/ j # AlertJob(a) /\ AlertJob(a) \in Queued
  \/ \E s \in Slots : job[s] = AlertJob(a) /\ j[2] >= next[s]

NeverDropped ==
  \A a \in handed : \A j \in JobsOf(a) : Held(j) \/ Unsent(a, j)

(* Every job of a handed alert runs in the end.                             *)
EveryJobRuns ==
  \A a \in Alerts : a \in handed ~> JobsOf(a) \subseteq ran
==============================================================================
