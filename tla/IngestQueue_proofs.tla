------------------------- MODULE IngestQueue_proofs -------------------------
(***************************************************************************)
(* Proofs about IngestQueue, for every number of deliveries and workers    *)
(* and every channel size.  The inductive invariant adds to the checked    *)
(* invariants that a delivery whose handler has not sent it is nowhere in  *)
(* the system (Fresh), that what is queued or taken was sent since boot    *)
(* (Tracked), and that a send is accounted for before its 202 (Placed).    *)
(***************************************************************************)
EXTENDS IngestQueue, FiniteSetTheorems, FunctionTheorems, TLAPS

Fresh ==
  \A r \in Requests :
    handler[r] \in {"new", "refused"} => r \notin sent \cup finished \cup lost

Tracked ==
  /\ Queued \subseteq sent
  /\ \A w \in Workers : pc[w] # "receive" => job[w] \in sent

Placed ==
  \A r \in Requests :
    handler[r] \in {"sent", "accepted"} =>
      r \in Queued \cup InHand \cup finished \cup lost

IInv == TypeOK /\ Fresh /\ Tracked /\ InOnePlace /\ Placed

-----------------------------------------------------------------------------
(* The channel is a sequence, sent to with Append and received from with    *)
(* Head and Tail: what a send and a receive do to what is in it.            *)
LEMMA AppendMembers ==
  ASSUME NEW S, NEW s \in Seq(S), NEW e \in S
  PROVE  /\ Append(s, e) \in Seq(S)
         /\ Len(Append(s, e)) = Len(s) + 1 /\ Len(s) \in Nat
         /\ Range(Append(s, e)) = Range(s) \cup {e}
         /\ IsInjective(s) /\ e \notin Range(s) => IsInjective(Append(s, e))
<1>1. /\ Append(s, e) \in Seq(S) /\ Len(Append(s, e)) = Len(s) + 1 /\ Len(s) \in Nat
      /\ DOMAIN s = 1..Len(s) /\ DOMAIN Append(s, e) = 1..Len(s) + 1
      /\ \A i \in 1..Len(s) : Append(s, e)[i] = s[i]
      /\ Append(s, e)[Len(s) + 1] = e
  OBVIOUS
<1>2. 1..Len(s) + 1 = 1..Len(s) \cup {Len(s) + 1}
  BY <1>1
<1>3. Range(Append(s, e)) = Range(s) \cup {e}
  <2>1. ASSUME NEW x PROVE x \in Range(Append(s, e)) <=> x \in Range(s) \cup {e}
    BY <1>1, <1>2 DEF Range
  <2> QED
    BY <2>1
<1>4. ASSUME IsInjective(s), e \notin Range(s) PROVE IsInjective(Append(s, e))
  BY <1>1, <1>2, <1>4 DEF IsInjective, Range
<1> QED
  BY <1>1, <1>3, <1>4

LEMMA TailMembers ==
  ASSUME NEW S, NEW s \in Seq(S), s # <<>>
  PROVE  /\ Head(s) \in S
         /\ Len(s) \in Nat \ {0}
         /\ Tail(s) \in Seq(S)
         /\ Len(Tail(s)) = Len(s) - 1
         /\ Range(s) = Range(Tail(s)) \cup {Head(s)}
         /\ IsInjective(s) => IsInjective(Tail(s)) /\ Head(s) \notin Range(Tail(s))
<1>1. /\ Head(s) = s[1] /\ Head(s) \in S
      /\ Len(s) \in Nat \ {0}
      /\ Tail(s) \in Seq(S)
      /\ Len(Tail(s)) = Len(s) - 1
      /\ DOMAIN s = 1..Len(s) /\ DOMAIN Tail(s) = 1..Len(s) - 1
      /\ \A i \in 1..Len(s) - 1 : Tail(s)[i] = s[i + 1]
  OBVIOUS
<1>2. \A i \in 1..Len(s) - 1 : i + 1 \in 1..Len(s) /\ i + 1 # 1
  BY <1>1
<1>3. \A i \in 1..Len(s) : i # 1 => i - 1 \in 1..Len(s) - 1 /\ (i - 1) + 1 = i
  BY <1>1
<1>4. 1 \in 1..Len(s)
  BY <1>1
<1>5. Range(s) = Range(Tail(s)) \cup {Head(s)}
  <2>1. ASSUME NEW x \in Range(s) PROVE x \in Range(Tail(s)) \cup {Head(s)}
    <3>1. PICK i \in 1..Len(s) : x = s[i]
      BY <1>1 DEF Range
    <3>2. CASE i # 1
      <4>1. i - 1 \in DOMAIN Tail(s) /\ Tail(s)[i - 1] = x
        BY <1>1, <1>3, <3>1, <3>2
      <4> QED
        BY <4>1 DEF Range
    <3> QED
      BY <1>1, <3>1, <3>2
  <2>2. ASSUME NEW x \in Range(Tail(s)) \cup {Head(s)} PROVE x \in Range(s)
    BY <1>1, <1>2, <1>4 DEF Range
  <2> QED
    BY <2>1, <2>2
<1>6. ASSUME IsInjective(s) PROVE IsInjective(Tail(s)) /\ Head(s) \notin Range(Tail(s))
  <2>1. IsInjective(Tail(s))
    <3> SUFFICES ASSUME NEW a \in 1..Len(s) - 1, NEW b \in 1..Len(s) - 1,
                        Tail(s)[a] = Tail(s)[b]
                 PROVE  a = b
      BY <1>1 DEF IsInjective
    <3>1. s[a + 1] = s[b + 1] /\ a + 1 \in DOMAIN s /\ b + 1 \in DOMAIN s
      BY <1>1, <1>2
    <3>2. a + 1 = b + 1
      BY <3>1, <1>6 DEF IsInjective
    <3> QED
      BY <3>2
  <2>2. Head(s) \notin Range(Tail(s))
    BY <1>1, <1>2, <1>4, <1>6 DEF IsInjective, Range
  <2> QED
    BY <2>1, <2>2
<1> QED
  BY <1>1, <1>5, <1>6

(* A channel that holds nothing twice holds as many elements as it is long. *)
LEMMA InjectiveSeqSize ==
  ASSUME NEW S, NEW s \in Seq(S), IsInjective(s)
  PROVE  IsFiniteSet(Range(s)) /\ Cardinality(Range(s)) = Len(s)
<1>1. s \in [1..Len(s) -> S] /\ DOMAIN s = 1..Len(s) /\ Len(s) \in Nat
  OBVIOUS
<1>2. s \in Injection(1..Len(s), S)
  BY <1>1, Fun_IsInj DEF IsInjective
<1>3. s \in Bijection(1..Len(s), Range(s))
  BY <1>2, Fun_InjMeansBijImage
<1>4. ExistsBijection(1..Len(s), Range(s))
  BY <1>3, Fun_ExistsBij
<1>5. Cardinality(Range(s)) = Len(s)
  BY <1>1, <1>4, FS_CountingElements
<1>6. IsFiniteSet(1..Len(s))
  BY <1>1, FS_Interval
<1>7. IsFiniteSet(Range(s))
  BY <1>4, <1>6, FS_Bijection
<1> QED
  BY <1>5, <1>7

-----------------------------------------------------------------------------
LEMMA TypeInit == Init => TypeOK
  BY QueueAssumption DEF Init, TypeOK, HandlerStates, WorkerStates

LEMMA TypeStep == TypeOK /\ [Next]_vars => TypeOK'
<1> SUFFICES ASSUME TypeOK, [Next]_vars PROVE TypeOK'
  OBVIOUS
<1> USE DEF TypeOK, HandlerStates, WorkerStates
<1>1. ASSUME NEW r \in Requests, Send(r) PROVE TypeOK'
  BY <1>1, AppendMembers DEF Send, counters
<1>2. ASSUME NEW r \in Requests, Accept(r) PROVE TypeOK'
  BY <1>2 DEF Accept
<1>3. ASSUME NEW r \in Requests, Refuse(r) PROVE TypeOK'
  BY <1>3 DEF Refuse
<1>4. ASSUME NEW w \in Workers, Receive(w) PROVE TypeOK'
  BY <1>4, TailMembers, QueueAssumption DEF Receive, counters
<1>5. ASSUME NEW w \in Workers, Process(w) PROVE TypeOK'
  BY <1>5 DEF Process, counters
<1>6. ASSUME NEW w \in Workers, Decrement(w) PROVE TypeOK'
  BY <1>6 DEF Decrement
<1>7. ASSUME NEW w \in Workers, Count(w) PROVE TypeOK'
  BY <1>7 DEF Count
<1>8. CASE Crash
  <2>1. Queued \subseteq Requests /\ InHand \subseteq Requests
    BY DEF Queued, Range, InHand, Processing
  <2> QED
    BY <1>8, <2>1, QueueAssumption DEF Crash
<1>9. CASE UNCHANGED vars
  BY <1>9 DEF vars
<1> QED
  BY <1>1, <1>2, <1>3, <1>4, <1>5, <1>6, <1>7, <1>8, <1>9 DEF Next

(* The type invariant: every variable keeps its type, and a worker holds a  *)
(* batch exactly while it is between receive and the end of its loop body.  *)
THEOREM TypeCorrect == Spec => []TypeOK
  BY TypeInit, TypeStep, PTL DEF Spec
-----------------------------------------------------------------------------
LEMMA InvInit == Init => IInv
<1> SUFFICES ASSUME Init PROVE IInv
  OBVIOUS
<1>1. Queued = {} /\ IsInjective(ingestQueue)
  BY DEF Init, Queued, Range, IsInjective
<1>2. Busy = {} /\ Processing = {}
  BY DEF Init, Busy, Processing
<1> QED
  BY <1>1, <1>2, TypeInit
     DEF Init, IInv, Fresh, Tracked, InOnePlace, Placed, InHand
LEMMA InvStep == IInv /\ [Next]_vars => IInv'
<1> SUFFICES ASSUME IInv, [Next]_vars PROVE IInv'
  OBVIOUS
<1>0. TypeOK /\ TypeOK'
  BY TypeStep DEF IInv
<1> USE <1>0
<1> USE DEF Fresh, Tracked, InOnePlace, Placed
<1>1. ASSUME NEW r \in Requests, Send(r) PROVE IInv'
  <2>1. /\ r \notin sent /\ r \notin finished /\ r \notin Queued
        /\ \A w \in Workers : pc[w] # "receive" => job[w] # r
    BY <1>1 DEF Send, IInv
  <2>2. Queued' = Queued \cup {r} /\ IsInjective(ingestQueue')
    BY <1>1, <2>1, AppendMembers DEF Send, Queued, IInv, TypeOK
  <2>3. Busy' = Busy /\ InHand' = InHand
    BY <1>1 DEF Send, Busy, Processing, InHand
  <2>4. Fresh' /\ Tracked'
    BY <1>1, <2>2 DEF Send, IInv, TypeOK
  <2>5. InOnePlace'
    BY <1>1, <2>1, <2>2, <2>3 DEF Send, IInv, InHand, Processing
  <2>6. Placed'
    BY <1>1, <2>2, <2>3 DEF Send, IInv, TypeOK
  <2> QED
    BY <2>4, <2>5, <2>6 DEF IInv
<1>2. ASSUME NEW r \in Requests, Accept(r) PROVE IInv'
  BY <1>2 DEF Accept, Queued, Busy, InHand, Processing, IInv, TypeOK
<1>3. ASSUME NEW r \in Requests, Refuse(r) PROVE IInv'
  BY <1>3 DEF Refuse, Queued, Busy, InHand, Processing, IInv, TypeOK
<1>4. ASSUME NEW w \in Workers, Receive(w) PROVE IInv'
  <2> DEFINE b == Head(ingestQueue)
  <2>1. Queued = Queued' \cup {b} /\ b \notin Queued' /\ IsInjective(ingestQueue')
    BY <1>4, TailMembers DEF Receive, Queued, IInv, TypeOK
  <2>2. /\ pc[w] = "receive" /\ job' = [job EXCEPT ![w] = b]
        /\ \A v \in Workers : pc'[v] = IF v = w THEN "process" ELSE pc[v]
    BY <1>4 DEF Receive, TypeOK
  <2>3. Busy' = Busy \cup {w} /\ InHand' = InHand \cup {b}
    BY <2>2 DEF Busy, InHand, Processing, TypeOK
  <2> HIDE DEF b
  <2>4. Fresh' /\ Tracked'
    BY <1>4, <2>1, <2>2 DEF Receive, IInv, TypeOK
  <2>5. InOnePlace'
    BY <1>4, <2>1, <2>2, <2>3 DEF Receive, IInv, TypeOK, Busy
  <2>6. Placed'
    BY <1>4, <2>1, <2>3 DEF Receive, IInv
  <2> QED
    BY <2>4, <2>5, <2>6 DEF IInv
<1>5. ASSUME NEW w \in Workers, Process(w) PROVE IInv'
  <2>1. Queued' = Queued /\ Busy' = Busy /\ job[w] \notin Queued
    BY <1>5 DEF Process, Queued, Busy, TypeOK, IInv
  <2>2. InHand' = InHand \ {job[w]} /\ job[w] \in InHand
    BY <1>5 DEF Process, InHand, Processing, Busy, TypeOK, IInv
  <2>3. /\ pc[w] # "receive" /\ finished' = finished \cup {job[w]}
        /\ \A v \in Workers : (pc'[v] = "receive") <=> (pc[v] = "receive")
        /\ job' = job /\ handler' = handler /\ sent' = sent /\ lost' = lost
        /\ IsInjective(ingestQueue')
    BY <1>5 DEF Process, TypeOK, IInv
  <2>4. Fresh' /\ Tracked'
    BY <2>1, <2>3 DEF IInv
  <2>5. InOnePlace' /\ Placed'
    BY <2>1, <2>2, <2>3 DEF IInv
  <2> QED
    BY <2>4, <2>5 DEF IInv
<1>6. ASSUME NEW w \in Workers, Decrement(w) PROVE IInv'
  <2>1. Queued' = Queued /\ Busy' = Busy /\ InHand' = InHand
    BY <1>6 DEF Decrement, Queued, Busy, InHand, Processing, TypeOK
  <2> QED
    BY <1>6, <2>1 DEF Decrement, Busy, IInv, TypeOK
<1>7. ASSUME NEW w \in Workers, Count(w) PROVE IInv'
  <2>1. Queued' = Queued /\ Busy' = Busy \ {w} /\ InHand' = InHand
    BY <1>7 DEF Count, Queued, Busy, InHand, Processing, TypeOK
  <2> QED
    BY <1>7, <2>1 DEF Count, Busy, IInv, TypeOK
<1>8. CASE Crash
  <2>1. /\ Queued' = {} /\ IsInjective(ingestQueue')
        /\ Busy' = {} /\ InHand' = {}
    BY <1>8 DEF Crash, Queued, Range, IsInjective, Busy, InHand, Processing
  <2>2. Fresh'
    <3>1. ASSUME NEW r \in Requests, handler[r] \in {"new", "refused"}
          PROVE  r \notin Queued \cup InHand
      BY <3>1 DEF IInv, InHand, Processing
    <3> QED
      BY <1>8, <3>1 DEF Crash, IInv, TypeOK
  <2>3. Tracked' /\ InOnePlace'
    BY <1>8, <2>1 DEF Crash
  <2>4. Placed'
    BY <1>8 DEF Crash, IInv, TypeOK
  <2> QED
    BY <2>2, <2>3, <2>4 DEF IInv
<1>9. CASE UNCHANGED vars
  BY <1>9 DEF vars, Queued, Busy, InHand, Processing, IInv
<1> QED
  BY <1>1, <1>2, <1>3, <1>4, <1>5, <1>6, <1>7, <1>8, <1>9 DEF Next

THEOREM Invariant == Spec => []IInv
  BY InvInit, InvStep, PTL DEF Spec

(* No batch is in two places: neither the channel nor the workers duplicate *)
(* one, and a processed batch is never taken again.                         *)
THEOREM NoDoubleProcessing == Spec => []InOnePlace
  BY Invariant, PTL DEF IInv

(* A delivery answered 503 is never processed and one answered 202 is       *)
(* queued, in progress, done, or was lost when the process died.            *)
THEOREM AnswerIsTrue == Spec => []AnswerMatchesFate
<1>1. IInv => AnswerMatchesFate
  BY DEF IInv, Fresh, Placed, AnswerMatchesFate
<1> QED
  BY <1>1, Invariant, PTL

-----------------------------------------------------------------------------
(* The counters.  Each is tied to the size of a set of workers or handlers  *)
(* that gains or loses one member in a step.                                *)

LEMMA Finite ==
  /\ IsFiniteSet(Gauged) /\ IsFiniteSet(Busy) /\ IsFiniteSet(MidSend)
  /\ Cardinality(Gauged) \in Nat
  /\ Cardinality(Busy) \in Nat
  /\ Cardinality(MidSend) \in Nat
<1>1. Gauged \subseteq Workers /\ Busy \subseteq Workers /\ MidSend \subseteq Requests
  BY DEF Gauged, Busy, MidSend
<1>2. IsFiniteSet(Gauged) /\ IsFiniteSet(Busy) /\ IsFiniteSet(MidSend)
  BY <1>1, QueueAssumption, FS_Subset
<1> QED
  BY <1>2, FS_CardinalityType

LEMMA Gains ==
  ASSUME NEW S, NEW x, IsFiniteSet(S), x \notin S
  PROVE  Cardinality(S \cup {x}) = Cardinality(S) + 1
  BY FS_AddElement

LEMMA Loses ==
  ASSUME NEW S, NEW x, IsFiniteSet(S), x \in S
  PROVE  Cardinality(S \ {x}) = Cardinality(S) - 1
  BY FS_RemoveElement

LEMMA GaugeStep == TypeOK /\ GaugeExact /\ [Next]_vars => GaugeExact'
<1> SUFFICES ASSUME TypeOK, GaugeExact, [Next]_vars PROVE GaugeExact'
  OBVIOUS
<1> USE Finite DEF TypeOK, GaugeExact
<1>1. ASSUME NEW r \in Requests, Send(r) PROVE GaugeExact'
  <2>1. r \notin MidSend /\ MidSend' = MidSend \cup {r} /\ Gauged' = Gauged
    BY <1>1 DEF Send, MidSend, Gauged
  <2>2. Len(ingestQueue') = Len(ingestQueue) + 1 /\ Len(ingestQueue) \in Nat
    BY <1>1, AppendMembers DEF Send
  <2>3. Cardinality(MidSend') = Cardinality(MidSend) + 1
    BY <2>1, Gains
  <2> QED
    BY <1>1, <2>1, <2>2, <2>3 DEF Send, counters
<1>2. ASSUME NEW r \in Requests, Accept(r) PROVE GaugeExact'
  <2>1. r \in MidSend /\ MidSend' = MidSend \ {r} /\ Gauged' = Gauged
    BY <1>2 DEF Accept, MidSend, Gauged
  <2>2. Cardinality(MidSend') = Cardinality(MidSend) - 1
    BY <2>1, Loses
  <2> QED
    BY <1>2, <2>1, <2>2 DEF Accept
<1>3. ASSUME NEW r \in Requests, Refuse(r) PROVE GaugeExact'
  BY <1>3 DEF Refuse, MidSend, Gauged
<1>4. ASSUME NEW w \in Workers, Receive(w) PROVE GaugeExact'
  <2>1. w \notin Gauged /\ Gauged' = Gauged \cup {w} /\ MidSend' = MidSend
    BY <1>4 DEF Receive, MidSend, Gauged
  <2>2. Len(ingestQueue') = Len(ingestQueue) - 1 /\ Len(ingestQueue) \in Nat
    BY <1>4, TailMembers DEF Receive
  <2>3. Cardinality(Gauged') = Cardinality(Gauged) + 1
    BY <2>1, Gains
  <2> QED
    BY <1>4, <2>1, <2>2, <2>3 DEF Receive, counters
<1>5. ASSUME NEW w \in Workers, Process(w) PROVE GaugeExact'
  BY <1>5 DEF Process, counters, MidSend, Gauged
<1>6. ASSUME NEW w \in Workers, Decrement(w) PROVE GaugeExact'
  <2>1. w \in Gauged /\ Gauged' = Gauged \ {w} /\ MidSend' = MidSend
    BY <1>6 DEF Decrement, MidSend, Gauged
  <2>2. Cardinality(Gauged') = Cardinality(Gauged) - 1
    BY <2>1, Loses
  <2> QED
    BY <1>6, <2>1, <2>2 DEF Decrement
<1>7. ASSUME NEW w \in Workers, Count(w) PROVE GaugeExact'
  <2>1. Gauged' = Gauged /\ MidSend' = MidSend
    BY <1>7 DEF Count, MidSend, Gauged
  <2> QED
    BY <1>7, <2>1 DEF Count
<1>8. CASE Crash
  <2>1. Gauged' = {} /\ MidSend' = {} /\ Len(ingestQueue') = 0
    BY <1>8 DEF Crash, MidSend, Gauged
  <2> QED
    BY <1>8, <2>1, FS_EmptySet DEF Crash
<1>9. CASE UNCHANGED vars
  BY <1>9 DEF vars, MidSend, Gauged
<1> QED
  BY <1>1, <1>2, <1>3, <1>4, <1>5, <1>6, <1>7, <1>8, <1>9 DEF Next

(* The depth gauge is, at every instant, the channel and the batches being  *)
(* processed less the sends not yet added: no interleaving makes it drift.  *)
THEOREM GaugeNeverDrifts == Spec => []GaugeExact
<1>1. Init => GaugeExact
  <2> SUFFICES ASSUME Init PROVE GaugeExact
    OBVIOUS
  <2>1. Gauged = {} /\ MidSend = {} /\ Len(ingestQueue) = 0
    BY DEF Init, MidSend, Gauged
  <2> QED
    BY <2>1, FS_EmptySet DEF Init, GaugeExact
<1> QED
  BY <1>1, GaugeStep, TypeCorrect, PTL DEF Spec

LEMMA ConservationStep ==
  IInv /\ IsFiniteSet(sent) /\ Conservation /\ [Next]_vars => Conservation'
<1> SUFFICES ASSUME IInv, IsFiniteSet(sent), Conservation, [Next]_vars
             PROVE  Conservation'
  OBVIOUS
<1>0. Cardinality(sent) \in Nat
  BY FS_CardinalityType
<1>00. TypeOK /\ Fresh
  BY DEF IInv
<1> USE Finite, <1>0, <1>00 DEF TypeOK, Conservation
<1>1. ASSUME NEW r \in Requests, Send(r) PROVE Conservation'
  <2>1. r \notin sent /\ sent' = sent \cup {r} /\ Busy' = Busy
    BY <1>1 DEF Send, Busy, Fresh
  <2>2. Len(ingestQueue') = Len(ingestQueue) + 1 /\ Len(ingestQueue) \in Nat
    BY <1>1, AppendMembers DEF Send
  <2>3. Cardinality(sent') = Cardinality(sent) + 1
    BY <2>1, Gains
  <2> QED
    BY <1>1, <2>1, <2>2, <2>3 DEF Send, counters
<1>2. ASSUME NEW r \in Requests, Accept(r) \/ Refuse(r) PROVE Conservation'
  <2>1. Busy' = Busy
    BY <1>2 DEF Accept, Refuse, Busy
  <2> QED
    BY <1>2, <2>1 DEF Accept, Refuse
<1>4. ASSUME NEW w \in Workers, Receive(w) PROVE Conservation'
  <2>1. w \notin Busy /\ Busy' = Busy \cup {w}
    BY <1>4 DEF Receive, Busy
  <2>2. Len(ingestQueue') = Len(ingestQueue) - 1 /\ Len(ingestQueue) \in Nat
    BY <1>4, TailMembers DEF Receive
  <2>3. Cardinality(Busy') = Cardinality(Busy) + 1
    BY <2>1, Gains
  <2> QED
    BY <1>4, <2>1, <2>2, <2>3 DEF Receive, counters
<1>5. ASSUME NEW w \in Workers, Process(w) \/ Decrement(w) PROVE Conservation'
  <2>1. Busy' = Busy
    BY <1>5 DEF Process, Decrement, Busy
  <2> QED
    BY <1>5, <2>1 DEF Process, Decrement, counters
<1>7. ASSUME NEW w \in Workers, Count(w) PROVE Conservation'
  <2>1. w \in Busy /\ Busy' = Busy \ {w}
    BY <1>7 DEF Count, Busy
  <2>2. Cardinality(Busy') = Cardinality(Busy) - 1
    BY <2>1, Loses
  <2> QED
    BY <1>7, <2>1, <2>2 DEF Count
<1>8. CASE Crash
  <2>1. Busy' = {} /\ Len(ingestQueue') = 0
    BY <1>8 DEF Crash, Busy
  <2> QED
    BY <1>8, <2>1, FS_EmptySet DEF Crash
<1>9. CASE UNCHANGED vars
  BY <1>9 DEF vars, Busy
<1> QED
  BY <1>1, <1>2, <1>4, <1>5, <1>7, <1>8, <1>9 DEF Next

(* Every batch put in the channel since boot is in it, with a worker, or    *)
(* counted as processed.                                                    *)
THEOREM NoBatchUnaccounted == Spec => []Conservation
<1>1. Init => Conservation
  <2> SUFFICES ASSUME Init PROVE Conservation
    OBVIOUS
  <2>1. Busy = {} /\ Len(ingestQueue) = 0
    BY DEF Init, Busy
  <2> QED
    BY <2>1, FS_EmptySet DEF Init, Conservation
<1>2. IInv => IsFiniteSet(sent)
  BY QueueAssumption, FS_Subset DEF IInv, TypeOK
<1> QED
  BY <1>1, <1>2, ConservationStep, Invariant, PTL DEF Spec

-----------------------------------------------------------------------------
(* The refinement.  Outstanding batches are those in the channel and those  *)
(* being processed: at least as many as the channel holds, and at most one  *)
(* more for each worker.                                                    *)

LEMMA InHandSize ==
  ASSUME TypeOK
  PROVE  IsFiniteSet(InHand) /\ Cardinality(InHand) <= Cardinality(Workers)
<1> DEFINE f == [w \in Processing |-> job[w]]
<1>1. Processing \in SUBSET Workers
  BY DEF Processing
<1>2. IsFiniteSet(Processing) /\ Cardinality(Processing) <= Cardinality(Workers)
  BY <1>1, QueueAssumption, FS_Subset
<1>3. f \in Surjection(Processing, InHand)
  BY Fun_IsSurj DEF InHand
<1>4. IsFiniteSet(InHand) /\ Cardinality(InHand) <= Cardinality(Processing)
  BY <1>2, <1>3, FS_Surjection
<1>5. /\ Cardinality(InHand) \in Nat /\ Cardinality(Processing) \in Nat
      /\ Cardinality(Workers) \in Nat
  BY <1>2, <1>4, FS_CardinalityType, QueueAssumption
<1> QED
  BY <1>2, <1>4, <1>5

LEMMA OutstandingSize ==
  ASSUME IInv
  PROVE  /\ Delivery!Outstanding = Queued \cup InHand
         /\ Cardinality(Delivery!Outstanding) \in Nat
         /\ Cardinality(Delivery!Outstanding) >= Len(ingestQueue)
         /\ Cardinality(Delivery!Outstanding) <= Len(ingestQueue) + Cardinality(Workers)
<1>1. Queued \subseteq Requests /\ InHand \subseteq Requests
  BY DEF IInv, TypeOK, Queued, Range, InHand, Processing
<1>2. \A r \in Queued \cup InHand : r \notin finished
  BY DEF IInv, InOnePlace, InHand, Processing
<1>3. Delivery!Outstanding = Queued \cup InHand
  BY <1>1, <1>2 DEF Delivery!Outstanding, fateBar
<1>4. IsFiniteSet(Queued) /\ Cardinality(Queued) = Len(ingestQueue)
  BY InjectiveSeqSize DEF Queued, IInv, TypeOK, InOnePlace
<1>5. IsFiniteSet(InHand) /\ Cardinality(InHand) <= Cardinality(Workers)
  BY InHandSize DEF IInv
<1>6. /\ IsFiniteSet(Queued \cup InHand)
      /\ Cardinality(Queued \cup InHand)
           = Cardinality(Queued) + Cardinality(InHand) - Cardinality(Queued \cap InHand)
  BY <1>4, <1>5, FS_Union
<1>7. Queued \in SUBSET (Queued \cup InHand)
  OBVIOUS
<1>8. Cardinality(Queued) <= Cardinality(Queued \cup InHand)
  BY <1>6, <1>7, FS_Subset
<1>9. IsFiniteSet(Queued \cap InHand)
  BY <1>4, FS_Intersection
<1>10. /\ Cardinality(Queued) \in Nat /\ Cardinality(InHand) \in Nat
       /\ Cardinality(Queued \cap InHand) \in Nat /\ Cardinality(Workers) \in Nat
       /\ Cardinality(Queued \cup InHand) \in Nat
  BY <1>4, <1>5, <1>6, <1>9, FS_CardinalityType, QueueAssumption
<1> QED
  BY <1>3, <1>4, <1>5, <1>6, <1>8, <1>10

(* Cardinality inside the instance is the same operator.                    *)
LEMMA SameCardinality == \A S : Delivery!Cardinality(S) = Cardinality(S)
  BY DEF Delivery!Cardinality, Cardinality

LEMMA FateOf ==
  ASSUME NEW r \in Requests
  PROVE  fateBar[r] = IF r \in finished THEN "processed"
                      ELSE IF r \in Queued \cup InHand THEN "outstanding"
                      ELSE IF r \in lost THEN "lost"
                      ELSE IF handler[r] = "refused" THEN "refused"
                      ELSE "new"
  BY DEF fateBar

LEMMA DeliveryInit == Init => Delivery!Init
<1> SUFFICES ASSUME Init PROVE \A r \in Requests : fateBar[r] = "new"
  BY DEF Delivery!Init, fateBar
<1>1. Queued = {} /\ InHand = {}
  BY DEF Init, Queued, Range, InHand, Processing
<1> QED
  BY <1>1, FateOf DEF Init

LEMMA DeliveryStep == IInv /\ IInv' /\ [Next]_vars => [Delivery!Next]_fateBar
<1> SUFFICES ASSUME IInv, IInv', [Next]_vars PROVE [Delivery!Next]_fateBar
  OBVIOUS
<1>0. TypeOK /\ Fresh /\ Tracked /\ InOnePlace
  BY DEF IInv
<1>a. \A r \in Requests :
        fateBar'[r] = IF r \in finished' THEN "processed"
                      ELSE IF r \in Queued' \cup InHand' THEN "outstanding"
                      ELSE IF r \in lost' THEN "lost"
                      ELSE IF handler'[r] = "refused" THEN "refused"
                      ELSE "new"
  BY DEF fateBar
<1>b. fateBar = [r \in Requests |-> fateBar[r]] /\ fateBar' = [r \in Requests |-> fateBar'[r]]
  BY DEF fateBar
<1>1. ASSUME NEW r \in Requests, Send(r) PROVE Delivery!Take(r)
  <2>1. r \notin sent \cup finished \cup lost /\ r \notin Queued \cup InHand
    BY <1>1, <1>0 DEF Send, Fresh, Tracked, InHand, Processing
  <2>2. fateBar[r] = "new"
    BY <1>1, <2>1, FateOf DEF Send
  <2>3. Queued' = Queued \cup {r} /\ InHand' = InHand
    BY <1>1, <1>0, AppendMembers DEF Send, Queued, TypeOK, InHand, Processing
  <2>4. Cardinality(Delivery!Outstanding) < QueueSize + Cardinality(Workers)
    <3>1. Len(ingestQueue) < QueueSize /\ Len(ingestQueue) \in Nat
      BY <1>1, <1>0 DEF Send, TypeOK
    <3>2. Cardinality(Workers) \in Nat
      BY FS_CardinalityType, QueueAssumption
    <3> QED
      BY <3>1, <3>2, OutstandingSize, QueueAssumption
  <2>5. \A q \in Requests : fateBar'[q] = IF q = r THEN "outstanding" ELSE fateBar[q]
    BY <1>1, <1>0, <1>a, <2>1, <2>3, FateOf DEF Send, TypeOK
  <2>6. fateBar' = [fateBar EXCEPT ![r] = "outstanding"]
    BY <2>5, <1>b
  <2> QED
    BY <2>2, <2>4, <2>6, SameCardinality DEF Delivery!Take
<1>2. ASSUME NEW r \in Requests, Accept(r) PROVE UNCHANGED fateBar
  <2>1. Queued' = Queued /\ InHand' = InHand
    BY <1>2 DEF Accept, Queued, InHand, Processing
  <2>2. \A q \in Requests : fateBar'[q] = fateBar[q]
    BY <1>2, <1>0, <1>a, <2>1, FateOf DEF Accept, TypeOK
  <2> QED
    BY <2>2, <1>b
<1>3. ASSUME NEW r \in Requests, Refuse(r) PROVE Delivery!Refuse(r)
  <2>1. r \notin sent \cup finished \cup lost /\ r \notin Queued \cup InHand
    BY <1>3, <1>0 DEF Refuse, Fresh, Tracked, InHand, Processing
  <2>2. fateBar[r] = "new"
    BY <1>3, <2>1, FateOf DEF Refuse
  <2>3. Queued' = Queued /\ InHand' = InHand
    BY <1>3 DEF Refuse, Queued, InHand, Processing
  <2>4. Cardinality(Delivery!Outstanding) >= QueueSize
    BY <1>3, OutstandingSize DEF Refuse
  <2>5. \A q \in Requests : fateBar'[q] = IF q = r THEN "refused" ELSE fateBar[q]
    BY <1>3, <1>0, <1>a, <2>1, <2>3, FateOf DEF Refuse, TypeOK
  <2>6. fateBar' = [fateBar EXCEPT ![r] = "refused"]
    BY <2>5, <1>b
  <2> QED
    BY <2>2, <2>4, <2>6, SameCardinality DEF Delivery!Refuse
<1>4. ASSUME NEW w \in Workers, Receive(w) PROVE UNCHANGED fateBar
  <2>1. /\ Queued = Queued' \cup {Head(ingestQueue)}
        /\ pc[w] = "receive" /\ pc' = [pc EXCEPT ![w] = "process"]
        /\ job' = [job EXCEPT ![w] = Head(ingestQueue)]
    BY <1>4, <1>0, TailMembers DEF Receive, Queued, TypeOK
  <2>2. InHand' = InHand \cup {Head(ingestQueue)}
    BY <2>1, <1>0 DEF InHand, Processing, TypeOK
  <2>3. Queued' \cup InHand' = Queued \cup InHand
    BY <2>1, <2>2
  <2>4. \A q \in Requests : fateBar'[q] = fateBar[q]
    BY <1>4, <1>a, <2>3, FateOf DEF Receive
  <2> QED
    BY <2>4, <1>b
<1>5. ASSUME NEW w \in Workers, Process(w) PROVE Delivery!Process(job[w])
  <2>1. job[w] \in Requests /\ job[w] \in InHand /\ job[w] \notin finished
    BY <1>5, <1>0, QueueAssumption DEF Process, TypeOK, InHand, Processing, InOnePlace
  <2>2. fateBar[job[w]] = "outstanding"
    BY <2>1, FateOf
  <2>3. Queued' = Queued /\ Processing' = Processing \ {w} /\ w \in Processing
    BY <1>5, <1>0 DEF Process, Queued, Processing, TypeOK
  <2>4. InHand' = InHand \ {job[w]}
    BY <1>5, <1>0, <2>3 DEF Process, InHand, InOnePlace, Busy, Processing
  <2>5. \A q \in Requests : fateBar'[q] = IF q = job[w] THEN "processed" ELSE fateBar[q]
    BY <1>5, <1>a, <2>3, <2>4, FateOf DEF Process
  <2>6. fateBar' = [fateBar EXCEPT ![job[w]] = "processed"]
    BY <2>5, <1>b
  <2> QED
    BY <2>2, <2>6 DEF Delivery!Process
<1>6. ASSUME NEW w \in Workers, Decrement(w) \/ Count(w) PROVE UNCHANGED fateBar
  <2>1. Queued' = Queued /\ Processing' = Processing
    BY <1>6, <1>0 DEF Decrement, Count, Queued, Processing, TypeOK
  <2>2. InHand' = InHand
    BY <1>6, <1>0, <2>1 DEF Decrement, Count, InHand, Processing, TypeOK
  <2>3. \A q \in Requests : fateBar'[q] = fateBar[q]
    BY <1>6, <1>a, <2>1, <2>2, FateOf DEF Decrement, Count
  <2> QED
    BY <2>3, <1>b
<1>7. ASSUME Crash PROVE Delivery!Die
  <2>1. Queued' = {} /\ InHand' = {} /\ lost' = lost \cup (Queued \cup InHand)
    BY <1>7 DEF Crash, Queued, Range, InHand, Processing
  <2>2. \A q \in Requests : q \in Queued \cup InHand => q \notin finished
    BY <1>0 DEF InOnePlace, InHand, Processing
  <2>3. \A q \in Requests :
          fateBar'[q] = IF q \in Delivery!Outstanding THEN "lost" ELSE fateBar[q]
    BY <1>7, <1>0, <1>a, <2>1, <2>2, OutstandingSize, FateOf DEF Crash, TypeOK
  <2> QED
    BY <2>3, <1>b DEF Delivery!Die
<1>8. CASE UNCHANGED vars
  <2>1. Queued' = Queued /\ InHand' = InHand
    BY <1>8 DEF vars, Queued, InHand, Processing
  <2>2. \A q \in Requests : fateBar'[q] = fateBar[q]
    BY <1>8, <1>a, <2>1, FateOf DEF vars
  <2> QED
    BY <2>2, <1>b
<1>9. \A w \in Workers : Process(w) => job[w] \in Requests
  BY <1>0 DEF Process, TypeOK
<1> QED
  BY <1>1, <1>2, <1>3, <1>4, <1>5, <1>6, <1>7, <1>8, <1>9 DEF Next, Delivery!Next

(* Channel, workers and counters together implement BatchDelivery: a batch  *)
(* is processed at most once, never after a 503, and refused only while the *)
(* channel is full.                                                         *)
THEOREM QueueImplementsDelivery == Spec => ImplementsDelivery
  BY DeliveryInit, DeliveryStep, Invariant, PTL DEF Spec, ImplementsDelivery, Delivery!Spec
=============================================================================
