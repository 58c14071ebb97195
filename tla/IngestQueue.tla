---------------------------- MODULE IngestQueue ----------------------------
(***************************************************************************)
(* The in-memory ingest queue of pkg/core/ingest_queue.go: webhook         *)
(* handlers hand batches to a bounded channel, a fixed set of workers      *)
(* takes them, and three atomic counters are kept beside the channel.      *)
(* What a worker does with a batch is one step here; IngestPipeline opens  *)
(* that step.  A crash is the death of the process and its restart.        *)
(***************************************************************************)
EXTENDS Integers, Sequences, FiniteSets, Functions

CONSTANTS
  Requests,     (* webhook deliveries; a CI retry is another delivery    *)
  Workers,      (* goroutines running ingestWorker                       *)
  NoBatch,      (* what a worker holds between two batches               *)
  QueueSize,    (* QACAPSULE_INGEST_QUEUE_SIZE                           *)
  MaxCrashes    (* bound: how often the process may die                  *)

ASSUME QueueAssumption ==
  /\ QueueSize \in Nat \ {0}
  /\ MaxCrashes \in Nat
  /\ NoBatch \notin Requests
  /\ IsFiniteSet(Requests)
  /\ IsFiniteSet(Workers)

VARIABLES
  ingestQueue,          (* contents of the channel                             *)
  handler,              (* how far the webhook handler of each delivery is     *)
  pc,                   (* where each ingestWorker is in its loop              *)
  job,                  (* the batch each worker has                           *)
  ingestQueueDepth,     (* the three atomic counters                           *)
  ingestDropped,
  ingestProcessed,
  sent,                 (* deliveries put in the channel since the last boot   *)
  finished,             (* batches whose processing has returned               *)
  lost,                 (* batches that died with the process                  *)
  crashes

vars == <<ingestQueue, handler, pc, job, ingestQueueDepth, ingestDropped,
          ingestProcessed, sent, finished, lost, crashes>>

counters == <<ingestQueueDepth, ingestDropped, ingestProcessed>>

HandlerStates == {"new", "sent", "accepted", "refused", "broken"}
WorkerStates  == {"receive", "process", "decrement", "count"}

Queued == Range(ingestQueue)

(* Workers between the receive of a batch and the end of its processing,   *)
(* and workers whose batch is still in the depth gauge.                    *)
Processing == {w \in Workers : pc[w] = "process"}
Gauged     == {w \in Workers : pc[w] \in {"process", "decrement"}}
Busy       == {w \in Workers : pc[w] # "receive"}
InHand     == {job[w] : w \in Processing}
MidSend    == {r \in Requests : handler[r] = "sent"}

-----------------------------------------------------------------------------
Init ==
  /\ ingestQueue = <<>>
  /\ handler = [r \in Requests |-> "new"]
  /\ pc = [w \in Workers |-> "receive"]
  /\ job = [w \in Workers |-> NoBatch]
  /\ ingestQueueDepth = 0
  /\ ingestDropped = 0
  /\ ingestProcessed = 0
  /\ sent = {}
  /\ finished = {}
  /\ lost = {}
  /\ crashes = 0

(* EnqueueIngest: the select takes the send case.  The gauge is added to    *)
(* only after the send, so a worker may be done with the batch before it.  *)
Send(r) ==
  /\ handler[r] = "new"
  /\ Len(ingestQueue) < QueueSize
  /\ ingestQueue' = Append(ingestQueue, r)
  /\ handler' = [handler EXCEPT ![r] = "sent"]
  /\ sent' = sent \cup {r}
  /\ UNCHANGED <<pc, job, counters, finished, lost, crashes>>

(* ... the gauge is raised and the handler answers 202. *)
Accept(r) ==
  /\ handler[r] = "sent"
  /\ handler' = [handler EXCEPT ![r] = "accepted"]
  /\ ingestQueueDepth' = ingestQueueDepth + 1
  /\ UNCHANGED <<ingestQueue, pc, job, ingestDropped, ingestProcessed, sent,
                 finished, lost, crashes>>

(* Mutants of Refuse: the gauge is raised all the same, the batch is put in *)
(* the channel all the same, or the last place of the channel is not used.  *)
RefuseGauged(r) ==
  /\ handler[r] = "new"
  /\ Len(ingestQueue) = QueueSize
  /\ handler' = [handler EXCEPT ![r] = "refused"]
  /\ ingestDropped' = ingestDropped + 1
  /\ ingestQueueDepth' = ingestQueueDepth + 1
  /\ UNCHANGED <<ingestQueue, pc, job, ingestProcessed, sent, finished, lost, crashes>>
RefuseQueued(r) ==
  /\ handler[r] = "new"
  /\ Len(ingestQueue) = QueueSize
  /\ handler' = [handler EXCEPT ![r] = "refused"]
  /\ ingestQueue' = Append(ingestQueue, r)
  /\ sent' = sent \cup {r}
  /\ UNCHANGED <<pc, job, counters, finished, lost, crashes>>
RefuseEarly(r) ==
  /\ handler[r] = "new"
  /\ Len(ingestQueue) >= QueueSize - 1
  /\ handler' = [handler EXCEPT ![r] = "refused"]
  /\ ingestDropped' = ingestDropped + 1
  /\ UNCHANGED <<ingestQueue, pc, job, ingestQueueDepth, ingestProcessed, sent,
                 finished, lost, crashes>>

(* EnqueueIngest: the select falls through to default; the handler answers 503. *)
Refuse(r) ==
  /\ handler[r] = "new"
  /\ Len(ingestQueue) = QueueSize
  /\ handler' = [handler EXCEPT ![r] = "refused"]
  /\ ingestDropped' = ingestDropped + 1
  /\ UNCHANGED <<ingestQueue, pc, job, ingestQueueDepth, ingestProcessed, sent,
                 finished, lost, crashes>>

(* Mutant of Receive: the batch stays in the channel.                       *)
ReceivePeek(w) ==
  /\ pc[w] = "receive"
  /\ ingestQueue # <<>>
  /\ job' = [job EXCEPT ![w] = Head(ingestQueue)]
  /\ pc' = [pc EXCEPT ![w] = "process"]
  /\ UNCHANGED <<ingestQueue, handler, counters, sent, finished, lost, crashes>>

Receive(w) ==
  /\ pc[w] = "receive"
  /\ ingestQueue # <<>>
  /\ job' = [job EXCEPT ![w] = Head(ingestQueue)]
  /\ ingestQueue' = Tail(ingestQueue)
  /\ pc' = [pc EXCEPT ![w] = "process"]
  /\ UNCHANGED <<handler, counters, sent, finished, lost, crashes>>

(* processIngestBatch returns. *)
Process(w) ==
  /\ pc[w] = "process"
  /\ finished' = finished \cup {job[w]}
  /\ pc' = [pc EXCEPT ![w] = "decrement"]
  /\ UNCHANGED <<ingestQueue, handler, job, counters, sent, lost, crashes>>

Decrement(w) ==
  /\ pc[w] = "decrement"
  /\ ingestQueueDepth' = ingestQueueDepth - 1
  /\ pc' = [pc EXCEPT ![w] = "count"]
  /\ UNCHANGED <<ingestQueue, handler, job, ingestDropped, ingestProcessed, sent,
                 finished, lost, crashes>>

(* Mutants of Count: the batch is kept, is not counted, or is the last one. *)
CountKeeping(w) ==
  /\ pc[w] = "count"
  /\ ingestProcessed' = ingestProcessed + 1
  /\ pc' = [pc EXCEPT ![w] = "receive"]
  /\ UNCHANGED <<ingestQueue, handler, job, ingestQueueDepth, ingestDropped, sent,
                 finished, lost, crashes>>
CountNothing(w) ==
  /\ pc[w] = "count"
  /\ pc' = [pc EXCEPT ![w] = "receive"]
  /\ job' = [job EXCEPT ![w] = NoBatch]
  /\ UNCHANGED <<ingestQueue, handler, counters, sent, finished, lost, crashes>>
CountLast(w) ==
  /\ pc[w] = "count" /\ job[w] # NoBatch
  /\ ingestProcessed' = ingestProcessed + 1
  /\ job' = [job EXCEPT ![w] = NoBatch]
  /\ UNCHANGED <<ingestQueue, handler, pc, ingestQueueDepth, ingestDropped, sent,
                 finished, lost, crashes>>

Count(w) ==
  /\ pc[w] = "count"
  /\ ingestProcessed' = ingestProcessed + 1
  /\ pc' = [pc EXCEPT ![w] = "receive"]
  /\ job' = [job EXCEPT ![w] = NoBatch]
  /\ UNCHANGED <<ingestQueue, handler, ingestQueueDepth, ingestDropped, sent,
                 finished, lost, crashes>>

(* The process dies and comes back with a new channel, new workers and new  *)
(* counters.  A handler that had not answered leaves its client without an *)
(* answer; nothing puts the batches of the old channel back.                *)
Crash ==
  /\ crashes < MaxCrashes
  /\ crashes' = crashes + 1
  /\ ingestQueue' = <<>>
  /\ handler' = [r \in Requests |-> IF handler[r] = "sent" THEN "broken" ELSE handler[r]]
  /\ pc' = [w \in Workers |-> "receive"]
  /\ job' = [w \in Workers |-> NoBatch]
  /\ ingestQueueDepth' = 0
  /\ ingestDropped' = 0
  /\ ingestProcessed' = 0
  /\ sent' = {}
  /\ lost' = lost \cup Queued \cup InHand
  /\ UNCHANGED finished

Next ==
  \/ \E r \in Requests : Send(r) \/ Accept(r) \/ Refuse(r)
  \/ \E w \in Workers : Receive(w) \/ Process(w) \/ Decrement(w) \/ Count(w)
  \/ Crash

Spec == Init /\ [][Next]_vars

(* The Go scheduler runs every ready goroutine, and processIngestBatch      *)
(* returns (it waits only for the remediation pool, see RemediationPool).   *)
(* Nothing obliges a CI system to post, or the process to die.              *)
Fairness ==
  /\ \A w \in Workers : WF_vars(Receive(w) \/ Process(w) \/ Decrement(w) \/ Count(w))
  /\ \A r \in Requests : WF_vars(Accept(r))

FairSpec == Spec /\ Fairness

-----------------------------------------------------------------------------
TypeOK ==
  /\ ingestQueue \in Seq(Requests)
  /\ handler \in [Requests -> HandlerStates]
  /\ pc \in [Workers -> WorkerStates]
  /\ job \in [Workers -> Requests \cup {NoBatch}]
  /\ \A w \in Workers : (job[w] = NoBatch) <=> (pc[w] = "receive")
  /\ ingestQueueDepth \in Int
  /\ ingestDropped \in Nat
  /\ ingestProcessed \in Nat
  /\ sent \subseteq Requests
  /\ finished \subseteq Requests
  /\ lost \subseteq Requests
  /\ crashes \in 0..MaxCrashes

(* No batch is in two places: queued twice, queued and taken, taken by two  *)
(* workers, or taken again after it was processed.                          *)
InOnePlace ==
  /\ IsInjective(ingestQueue)
  /\ \A w \in Workers : pc[w] # "receive" => job[w] \notin Queued
  /\ \A v, w \in Busy : job[v] = job[w] => v = w
  /\ finished \cap (Queued \cup InHand) = {}

(* What the gauge really measures, at every instant: the batches in the     *)
(* channel and those being processed, less the sends that have not been     *)
(* added yet.  It dips below zero when a worker overtakes the handler.      *)
GaugeExact ==
  ingestQueueDepth =
    Len(ingestQueue) + Cardinality(Gauged) - Cardinality(MidSend)

(* Every batch put in the channel since boot is in it, with a worker, or    *)
(* counted as processed: no worker and no counter loses one.                *)
Conservation ==
  Cardinality(sent) = Len(ingestQueue) + Cardinality(Busy) + ingestProcessed

(* A batch is never answered 503 and processed all the same, and one that   *)
(* was answered 202 is still somewhere, or was lost in a crash.             *)
AnswerMatchesFate ==
  \A r \in Requests :
    /\ handler[r] = "refused" => r \notin sent \cup finished \cup lost
    /\ handler[r] = "accepted" =>
         r \in Queued \cup InHand \cup finished \cup lost

(* The queue implements BatchDelivery: a 503 is answered only while the     *)
(* channel is full, so with QueueSize batches outstanding.                  *)
fateBar ==
  [r \in Requests |->
     IF r \in finished THEN "processed"
     ELSE IF r \in Queued \cup InHand THEN "outstanding"
     ELSE IF r \in lost THEN "lost"
     ELSE IF handler[r] = "refused" THEN "refused"
     ELSE "new"]

Delivery == INSTANCE BatchDelivery
              WITH fate <- fateBar, Capacity <- QueueSize,
                   Limit <- QueueSize + Cardinality(Workers)

ImplementsDelivery == Delivery!Spec

(* Every batch answered 202 is processed, as long as the process lives.     *)
AcceptedIsProcessed ==
  \A r \in Requests : handler[r] = "accepted" ~> (r \in finished \/ r \in lost)
=============================================================================
