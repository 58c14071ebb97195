--------------------------- MODULE BatchDelivery ---------------------------
(***************************************************************************)
(* What the ingest queue promises to the CI systems that post to it,       *)
(* without queue, workers or counters.  A webhook batch is taken or        *)
(* refused.  It is refused only when Capacity batches are outstanding,     *)
(* never both refused and processed, and processed at most once.  The      *)
(* batches that are outstanding when the server process dies are lost.     *)
(***************************************************************************)
EXTENDS Naturals, FiniteSets

CONSTANTS
  Requests,   (* webhook deliveries, each with its batch            *)
  Capacity,   (* outstanding batches below which none is refused    *)
  Limit       (* outstanding batches above which none is taken      *)

VARIABLE fate

Fates == {"new", "outstanding", "processed", "refused", "lost"}

Outstanding == {r \in Requests : fate[r] = "outstanding"}

Init == fate = [r \in Requests |-> "new"]

Take(r) ==
  /\ fate[r] = "new"
  /\ Cardinality(Outstanding) < Limit
  /\ fate' = [fate EXCEPT ![r] = "outstanding"]

Refuse(r) ==
  /\ fate[r] = "new"
  /\ Cardinality(Outstanding) >= Capacity
  /\ fate' = [fate EXCEPT ![r] = "refused"]

Process(r) ==
  /\ fate[r] = "outstanding"
  /\ fate' = [fate EXCEPT ![r] = "processed"]

Die ==
  fate' = [r \in Requests |-> IF r \in Outstanding THEN "lost" ELSE fate[r]]

Next == Die \/ \E r \in Requests : Take(r) \/ Refuse(r) \/ Process(r)

Spec == Init /\ [][Next]_fate
============================================================================
