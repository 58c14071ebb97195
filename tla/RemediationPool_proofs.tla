------------------------ MODULE RemediationPool_proofs ------------------------
(* No remediation job is run twice and none is dropped, for any number of   *)
(* slots, callers and alerts, any matches and any length of the channel.    *)
EXTENDS RemediationPool, TLAPS

(* An alert that a caller is about to send is sent by it alone and has no   *)
(* job anywhere yet; a match has a job only if the job of its alert has     *)
(* gone past it; and only handed alerts have jobs.                          *)
Sending ==
  /\ \A c \in Callers : caller[c] # None =>
       caller[c] \in handed /\ ~Held(AlertJob(caller[c]))
  /\ \A c, d \in Callers : caller[c] # None /\ caller[c] = caller[d] => c = d

Matched ==
  \A k \in Jobs : Held(k) /\ k # AlertJob(k[1]) =>
    \/ AlertJob(k[1]) \in ran
    \/ \E s \in Slots : job[s] = AlertJob(k[1]) /\ k[2] < next[s]

OnlyHanded == \A a \in Alerts : Held(AlertJob(a)) => a \in handed

IInv == TypeOK /\ RunOnce /\ Sending /\ Matched /\ OnlyHanded

-----------------------------------------------------------------------------
(* The channel is a sequence, sent to with Append and received from with    *)
(* Head and Tail: what a send and a receive do to what is in it.            *)
LEMMA AppendMembers ==
  ASSUME NEW S, NEW s \in Seq(S), NEW e \in S
  PROVE  /\ Append(s, e) \in Seq(S)
         /\ Len(Append(s, e)) = Len(s) + 1 /\ Len(s) \in Nat
         /\ Range(Append(s, e)) = Range(s) \cup {e}
         /\ IsInjective(s) /\ e \notin Range(s) => IsInjective(Append(s, e))
<1>1. /\ Append(s, e) \in Seq(S) /\ Len(Append(s, e)) = Len(s) + 1 /\ Len(s) \in Nat
      /\ DOMAIN s = 1..Len(s) /\ DOMAIN Append(s, e) = 1..Len(s) + 1
      /\ \A i \in 1..Len(s) : Append(s, e)[i] = s[i]
      /\ Append(s, e)[Len(s) + 1] = e
  OBVIOUS
<1>2. 1..Len(s) + 1 = 1..Len(s) \cup {Len(s) + 1}
  BY <1>1
<1>3. Range(Append(s, e)) = Range(s) \cup {e}
  <2>1. ASSUME NEW x PROVE x \in Range(Append(s, e)) <=> x \in Range(s) \cup {e}
    BY <1>1, <1>2 DEF Range
  <2> QED
    BY <2>1
<1>4. ASSUME IsInjective(s), e \notin Range(s) PROVE IsInjective(Append(s, e))
  BY <1>1, <1>2, <1>4 DEF IsInjective, Range
<1> QED
  BY <1>1, <1>3, <1>4

LEMMA TailMembers ==
  ASSUME NEW S, NEW s \in Seq(S), s # <<>>
  PROVE  /\ Head(s) \in S
         /\ Len(s) \in Nat \ {0}
         /\ Tail(s) \in Seq(S)
         /\ Len(Tail(s)) = Len(s) - 1
         /\ Range(s) = Range(Tail(s)) \cup {Head(s)}
         /\ IsInjective(s) => IsInjective(Tail(s)) /\ Head(s) \notin Range(Tail(s))
<1>1. /\ Head(s) = s[1] /\ Head(s) \in S
      /\ Len(s) \in Nat \ {0}
      /\ Tail(s) \in Seq(S)
      /\ Len(Tail(s)) = Len(s) - 1
      /\ DOMAIN s = 1..Len(s) /\ DOMAIN Tail(s) = 1..Len(s) - 1
      /\ \A i \in 1..Len(s) - 1 : Tail(s)[i] = s[i + 1]
  OBVIOUS
<1>2. \A i \in 1..Len(s) - 1 : i + 1 \in 1..Len(s) /\ i + 1 # 1
  BY <1>1
<1>3. \A i \in 1..Len(s) : i # 1 => i - 1 \in 1..Len(s) - 1 /\ (i - 1) + 1 = i
  BY <1>1
<1>4. 1 \in 1..Len(s)
  BY <1>1
<1>5. Range(s) = Range(Tail(s)) \cup {Head(s)}
  <2>1. ASSUME NEW x \in Range(s) PROVE x \in Range(Tail(s)) \cup {Head(s)}
    <3>1. PICK i \in 1..Len(s) : x = s[i]
      BY <1>1 DEF Range
    <3>2. CASE i # 1
      <4>1. i - 1 \in DOMAIN Tail(s) /\ Tail(s)[i - 1] = x
        BY <1>1, <1>3, <3>1, <3>2
      <4> QED
        BY <4>1 DEF Range
    <3> QED
      BY <1>1, <3>1, <3>2
  <2>2. ASSUME NEW x \in Range(Tail(s)) \cup {Head(s)} PROVE x \in Range(s)
    BY <1>1, <1>2, <1>4 DEF Range
  <2> QED
    BY <2>1, <2>2
<1>6. ASSUME IsInjective(s) PROVE IsInjective(Tail(s)) /\ Head(s) \notin Range(Tail(s))
  <2>1. IsInjective(Tail(s))
    <3> SUFFICES ASSUME NEW a \in 1..Len(s) - 1, NEW b \in 1..Len(s) - 1,
                        Tail(s)[a] = Tail(s)[b]
                 PROVE  a = b
      BY <1>1 DEF IsInjective
    <3>1. s[a + 1] = s[b + 1] /\ a + 1 \in DOMAIN s /\ b + 1 \in DOMAIN s
      BY <1>1, <1>2
    <3>2. a + 1 = b + 1
      BY <3>1, <1>6 DEF IsInjective
    <3> QED
      BY <3>2
  <2>2. Head(s) \notin Range(Tail(s))
    BY <1>1, <1>2, <1>4, <1>6 DEF IsInjective, Range
  <2> QED
    BY <2>1, <2>2
<1> QED
  BY <1>1, <1>5, <1>6

-----------------------------------------------------------------------------
(* The jobs are the pairs of an alert and zero or the number of a match. *)
LEMMA JobParts ==
  ASSUME NEW j \in Jobs
  PROVE  /\ j[1] \in Alerts /\ j[2] \in Nat
         /\ j = <<j[1], j[2]>>
         /\ j[2] = 0 => j = AlertJob(j[1])
<1>1. PICK a \in Alerts : j \in JobsOf(a)
  BY DEF Jobs
<1>2. PICK n \in Nat : j = <<a, n>>
  <2>1. CASE j \in MatchJobs(a)
    <3>1. PICK n \in 1..Matches[a] : j = <<a, n>>
      BY <2>1 DEF MatchJobs
    <3>2. n \in Nat
      BY PoolAssumption
    <3> QED
      BY <3>1, <3>2
  <2>2. CASE j = <<a, 0>>
    BY <2>2
  <2> QED
    BY <1>1, <2>1, <2>2 DEF JobsOf, AlertJob
<1>3. j[1] = a /\ j[2] = n
  BY <1>2
<1> QED
  BY <1>2, <1>3 DEF AlertJob

-----------------------------------------------------------------------------
LEMMA TypeInit == Init => TypeOK
  BY PoolAssumption DEF Init, TypeOK

LEMMA AlertJobs == \A a \in Alerts : AlertJob(a) \in Jobs /\ AlertJob(a) # None
  BY PoolAssumption DEF Jobs, JobsOf

(* What a worker enqueues is a job: the next match of its alert.            *)
LEMMA NextMatch ==
  ASSUME TypeOK, NEW s \in Slots, EnqueueMatch(s)
  PROVE  /\ job[s][1] \in Alerts /\ job[s] = AlertJob(job[s][1]) /\ job[s] # None
         /\ next[s] \in Nat \ {0}
         /\ <<job[s][1], next[s]>> \in Jobs
<1>1. job[s] \in Jobs /\ job[s] # None /\ next[s] \in Nat \ {0}
  BY DEF TypeOK, EnqueueMatch
<1>2. job[s][1] \in Alerts /\ job[s] = AlertJob(job[s][1])
  BY <1>1, JobParts DEF EnqueueMatch, Fans
<1>3. Mode[job[s][1]] = "rules" /\ next[s] \in 1..Matches[job[s][1]]
  BY <1>1, <1>2, PoolAssumption DEF EnqueueMatch, Fans
<1>4. <<job[s][1], next[s]>> \in JobsOf(job[s][1])
  BY <1>3 DEF JobsOf, MatchJobs
<1> QED
  BY <1>1, <1>2, <1>4 DEF Jobs

LEMMA TypeStep == TypeOK /\ [Next]_vars => TypeOK'
<1> SUFFICES ASSUME TypeOK, [Next]_vars PROVE TypeOK'
  OBVIOUS
<1>1. ASSUME NEW c \in Callers, Enqueue(c) PROVE TypeOK'
  <2>1. AlertJob(caller[c]) \in Jobs
    BY <1>1, AlertJobs DEF TypeOK, Enqueue
  <2> QED
    BY <1>1, <2>1, AppendMembers DEF TypeOK, Enqueue
<1>2. ASSUME NEW c \in Callers, NEW a \in Alerts, HandOver(c, a) PROVE TypeOK'
  BY <1>2 DEF TypeOK, HandOver
<1>3. ASSUME NEW s \in Slots, Receive(s) PROVE TypeOK'
  <2>1. Head(remediationJobs) \in Jobs /\ Tail(remediationJobs) \in Seq(Jobs)
    BY <1>3, TailMembers DEF TypeOK, Receive
  <2> QED
    BY <1>3, <2>1 DEF TypeOK, Receive
<1>4. ASSUME NEW s \in Slots, EnqueueMatch(s) PROVE TypeOK'
  <2>1. <<job[s][1], next[s]>> \in Jobs /\ next[s] \in Nat \ {0}
    BY <1>4, NextMatch
  <2>2. remediationJobs' \in Seq(Jobs)
    BY <1>4, <2>1, AppendMembers DEF TypeOK, EnqueueMatch
  <2>3. next' \in [Slots -> Nat \ {0}]
    BY <1>4, <2>1 DEF TypeOK, EnqueueMatch
  <2> QED
    BY <1>4, <2>2, <2>3 DEF TypeOK, EnqueueMatch
<1>5. ASSUME NEW s \in Slots, Finish(s) PROVE TypeOK'
  BY <1>5 DEF TypeOK, Finish
<1>6. CASE UNCHANGED vars
  BY <1>6 DEF vars, TypeOK
<1> QED
  BY <1>1, <1>2, <1>3, <1>4, <1>5, <1>6 DEF Next

(* Every variable keeps its type; what is queued and run are jobs.          *)
THEOREM TypeCorrect == Spec => []TypeOK
  BY TypeInit, TypeStep, PTL DEF Spec

-----------------------------------------------------------------------------
(* What a step does to the jobs that are held: a send adds one, the others  *)
(* only move it along.                                                      *)

(* Held, in the state after a step.                                         *)
HeldNow(k) == k \in Queued' \cup ran' \/ \E s \in Slots : job'[s] = k

LEMMA HeldThen == \A k : HeldNow(k) <=> Held(k)'
  BY DEF HeldNow, Held

LEMMA EnqueueHolds ==
  ASSUME TypeOK, NEW c \in Callers, Enqueue(c)
  PROVE  LET j == AlertJob(caller[c])
         IN  /\ caller[c] \in Alerts
             /\ Queued' = Queued \cup {j}
             /\ IsInjective(remediationJobs) /\ j \notin Queued => IsInjective(remediationJobs)'
             /\ \A k : Held(k)' <=> Held(k) \/ k = j
<1>1. caller[c] \in Alerts /\ AlertJob(caller[c]) \in Jobs
  BY AlertJobs DEF TypeOK, Enqueue
<1>2. /\ Queued' = Queued \cup {AlertJob(caller[c])}
      /\ IsInjective(remediationJobs) /\ AlertJob(caller[c]) \notin Queued
           => IsInjective(remediationJobs)'
  BY <1>1, AppendMembers DEF TypeOK, Enqueue, Queued
<1>3. job' = job /\ ran' = ran
  BY DEF Enqueue
<1> QED
  BY <1>1, <1>2, <1>3 DEF Held

LEMMA EnqueueMatchHolds ==
  ASSUME TypeOK, NEW s \in Slots, EnqueueMatch(s)
  PROVE  LET j == <<job[s][1], next[s]>>
         IN  /\ Queued' = Queued \cup {j}
             /\ IsInjective(remediationJobs) /\ j \notin Queued => IsInjective(remediationJobs)'
             /\ \A k : Held(k)' <=> Held(k) \/ k = j
<1> DEFINE j == <<job[s][1], next[s]>>
<1>1. j \in Jobs
  BY NextMatch
<1>2. /\ remediationJobs \in Seq(Jobs) /\ remediationJobs' = Append(remediationJobs, j)
      /\ job' = job /\ ran' = ran
  BY DEF TypeOK, EnqueueMatch
<1> HIDE DEF j
<1>3. /\ Queued' = Queued \cup {j}
      /\ IsInjective(remediationJobs) /\ j \notin Queued => IsInjective(remediationJobs)'
  BY <1>1, <1>2, AppendMembers DEF Queued
<1>4. \A k : Held(k)' <=> Held(k) \/ k = j
  BY <1>2, <1>3 DEF Held
<1> QED
  BY <1>3, <1>4 DEF j

LEMMA ReceiveHolds ==
  ASSUME TypeOK, NEW s \in Slots, Receive(s)
  PROVE  /\ job[s] = None /\ job'[s] # None /\ job'[s] \in Jobs
         /\ \A t \in Slots : t # s => job'[t] = job[t] /\ next'[t] = next[t]
         /\ next'[s] = 1
         /\ Queued = Queued' \cup {job'[s]}
         /\ IsInjective(remediationJobs) => IsInjective(remediationJobs)' /\ job'[s] \notin Queued'
         /\ \A k \in Jobs : Held(k)' <=> Held(k)
<1>1. /\ Head(remediationJobs) \in Jobs
      /\ Queued = Queued' \cup {Head(remediationJobs)}
      /\ IsInjective(remediationJobs)
           => IsInjective(remediationJobs)' /\ Head(remediationJobs) \notin Queued'
  BY TailMembers DEF TypeOK, Receive, Queued
<1>2. /\ job[s] = None /\ job'[s] = Head(remediationJobs) /\ next'[s] = 1 /\ ran' = ran
      /\ \A t \in Slots : t # s => job'[t] = job[t] /\ next'[t] = next[t]
  BY DEF TypeOK, Receive
<1>3. job'[s] # None
  BY <1>1, <1>2, PoolAssumption
<1>4. ASSUME NEW k \in Jobs PROVE Held(k)' <=> Held(k)
  <2>1. k # None
    BY PoolAssumption
  <2> QED
    BY <1>1, <1>2, <2>1 DEF Held
<1> QED
  BY <1>1, <1>2, <1>3, <1>4

LEMMA FinishHolds ==
  ASSUME TypeOK, NEW s \in Slots, Finish(s)
  PROVE  /\ job[s] # None /\ job[s] \in Jobs /\ job'[s] = None
         /\ ran' = ran \cup {job[s]}
         /\ \A t \in Slots : t # s => job'[t] = job[t]
         /\ remediationJobs' = remediationJobs /\ next' = next /\ caller' = caller
         /\ Queued' = Queued
         /\ \A k \in Jobs : Held(k)' <=> Held(k)
<1>1. /\ job[s] # None /\ job[s] \in Jobs /\ job'[s] = None
      /\ ran' = ran \cup {job[s]}
      /\ \A t \in Slots : t # s => job'[t] = job[t]
      /\ remediationJobs' = remediationJobs /\ next' = next /\ caller' = caller
  BY DEF TypeOK, Finish
<1>2. Queued' = Queued
  BY <1>1 DEF Queued
<1>3. ASSUME NEW k \in Jobs PROVE Held(k)' <=> Held(k)
  <2>1. k # None
    BY PoolAssumption
  <2> QED
    BY <1>1, <1>2, <2>1 DEF Held
<1> QED
  BY <1>1, <1>2, <1>3

LEMMA HandOverHolds ==
  ASSUME TypeOK, NEW c \in Callers, NEW a \in Alerts, HandOver(c, a)
  PROVE  /\ a \notin handed /\ handed' = handed \cup {a}
         /\ caller[c] = None /\ caller'[c] = a
         /\ \A d \in Callers : d # c => caller'[d] = caller[d]
         /\ remediationJobs' = remediationJobs /\ job' = job /\ next' = next /\ ran' = ran
         /\ Queued' = Queued
         /\ \A k : Held(k)' <=> Held(k)
<1>1. /\ a \notin handed /\ handed' = handed \cup {a}
      /\ caller[c] = None /\ caller'[c] = a
      /\ \A d \in Callers : d # c => caller'[d] = caller[d]
      /\ remediationJobs' = remediationJobs /\ job' = job /\ next' = next /\ ran' = ran
  BY DEF TypeOK, HandOver
<1> QED
  BY <1>1 DEF Queued, Held

-----------------------------------------------------------------------------
LEMMA InitHolds == Init => IInv
<1> SUFFICES ASSUME Init PROVE IInv
  OBVIOUS
<1>1. Queued = {} /\ Busy = {} /\ ran = {} /\ handed = {}
  BY DEF Init, Queued, Busy, Range
<1>2. \A k \in Jobs : ~Held(k)
  BY <1>1, PoolAssumption DEF Held, Init
<1>3. \A a \in Alerts : ~Held(AlertJob(a))
  BY <1>2, AlertJobs
<1>4. RunOnce
  BY <1>1 DEF RunOnce, Init, IsInjective
<1> QED
  BY TypeInit, <1>1, <1>2, <1>3, <1>4 DEF IInv, Sending, Matched, OnlyHanded, Init

LEMMA EnqueueKeeps ==
  ASSUME IInv, NEW c \in Callers, Enqueue(c)
  PROVE  RunOnce' /\ Sending' /\ Matched' /\ OnlyHanded'
<1> DEFINE a == caller[c]
<1>1. /\ a \in Alerts /\ Queued' = Queued \cup {AlertJob(a)}
      /\ IsInjective(remediationJobs) /\ AlertJob(a) \notin Queued => IsInjective(remediationJobs)'
      /\ \A k : Held(k)' <=> Held(k) \/ k = AlertJob(a)
  BY EnqueueHolds DEF IInv
<1>2. a # None /\ job' = job /\ ran' = ran /\ next' = next /\ handed' = handed
  BY DEF Enqueue
<1>3. caller'[c] = None /\ \A d \in Callers : d # c => caller'[d] = caller[d]
  BY DEF Enqueue, IInv, TypeOK
<1>4. ~Held(AlertJob(a)) /\ a \in handed
  BY <1>2 DEF IInv, Sending
<1> HIDE DEF a
<1>5. RunOnce'
  <2>1. AlertJob(a) \notin Queued \cup ran /\ \A s \in Slots : job[s] # AlertJob(a)
    BY <1>4 DEF Held
  <2>2. RunOnce /\ Busy' = Busy
    BY <1>2 DEF IInv, Busy
  <2> QED
    BY <1>1, <1>2, <2>1, <2>2 DEF RunOnce, Busy
<1>6. Sending'
  <2>1. \A d \in Callers : caller'[d] # None => d # c /\ caller'[d] = caller[d] /\ caller[d] # a
    BY <1>2, <1>3 DEF IInv, Sending, a
  <2>2. \A d \in Callers : caller'[d] # None => AlertJob(caller[d]) # AlertJob(a)
    BY <2>1 DEF AlertJob
  <2>3. \A d \in Callers : caller'[d] # None =>
          caller'[d] \in handed /\ ~HeldNow(AlertJob(caller'[d]))
    BY <1>1, <2>1, <2>2, HeldThen DEF IInv, Sending
  <2>4. \A d, e \in Callers : caller'[d] # None /\ caller'[d] = caller'[e] => d = e
    BY <2>1 DEF IInv, Sending
  <2> QED
    BY <1>2, <2>3, <2>4 DEF Sending, Held, HeldNow
<1>7. Matched'
  <2>1. AlertJob(a)[1] = a
    BY DEF AlertJob
  <2> QED
    BY <1>1, <1>2, <2>1 DEF IInv, Matched
<1>8. OnlyHanded'
  <2>1. \A b \in Alerts : AlertJob(b) = AlertJob(a) => b = a
    BY DEF AlertJob
  <2> QED
    BY <1>1, <1>2, <1>4, <2>1 DEF IInv, OnlyHanded
<1> QED
  BY <1>5, <1>6, <1>7, <1>8

LEMMA HandOverKeeps ==
  ASSUME IInv, NEW c \in Callers, NEW a \in Alerts, HandOver(c, a)
  PROVE  RunOnce' /\ Sending' /\ Matched' /\ OnlyHanded'
<1>1. /\ a \notin handed /\ handed' = handed \cup {a}
      /\ caller[c] = None /\ caller'[c] = a
      /\ \A d \in Callers : d # c => caller'[d] = caller[d]
      /\ remediationJobs' = remediationJobs /\ job' = job /\ next' = next /\ ran' = ran
      /\ Queued' = Queued
      /\ \A k : Held(k)' <=> Held(k)
  BY HandOverHolds DEF IInv
<1>2. RunOnce'
  BY <1>1 DEF IInv, RunOnce, Busy
<1>3. Sending'
  <2>1. ~Held(AlertJob(a))
    BY <1>1 DEF IInv, OnlyHanded
  <2>2. \A d \in Callers : caller'[d] # None /\ d # c =>
          caller'[d] \in handed /\ caller'[d] # a
    BY <1>1 DEF IInv, Sending
  <2>3. \A d \in Callers : caller'[d] # None =>
          caller'[d] \in handed' /\ ~HeldNow(AlertJob(caller'[d]))
    BY <1>1, <2>1, HeldThen DEF IInv, Sending
  <2>4. \A d, e \in Callers : caller'[d] # None /\ caller'[d] = caller'[e] => d = e
    BY <1>1, <2>2 DEF IInv, Sending
  <2> QED
    BY <2>3, <2>4 DEF Sending, Held, HeldNow
<1>4. Matched'
  BY <1>1 DEF IInv, Matched
<1>5. OnlyHanded'
  BY <1>1 DEF IInv, OnlyHanded
<1> QED
  BY <1>2, <1>3, <1>4, <1>5

LEMMA EnqueueMatchKeeps ==
  ASSUME IInv, NEW s \in Slots, EnqueueMatch(s)
  PROVE  RunOnce' /\ Sending' /\ Matched' /\ OnlyHanded'
<1> DEFINE a == job[s][1]
           j == <<a, next[s]>>
<1>1. /\ Queued' = Queued \cup {j}
      /\ IsInjective(remediationJobs) /\ j \notin Queued => IsInjective(remediationJobs)'
      /\ \A k : Held(k)' <=> Held(k) \/ k = j
  BY EnqueueMatchHolds DEF IInv
<1>2. /\ a \in Alerts /\ job[s] = AlertJob(a) /\ job[s] # None /\ next[s] \in Nat \ {0}
      /\ j \in Jobs
  BY NextMatch DEF IInv
<1>3. /\ job' = job /\ ran' = ran /\ handed' = handed /\ caller' = caller
      /\ next'[s] = next[s] + 1
      /\ \A t \in Slots : t # s => next'[t] = next[t]
  BY DEF EnqueueMatch, IInv, TypeOK
<1>4. j[1] = a /\ j[2] = next[s] /\ \A b : j # AlertJob(b)
  BY <1>2 DEF AlertJob
<1> HIDE DEF a, j
<1>5. ~Held(j)
  <2>1. AlertJob(a) \notin ran /\ \A t \in Slots : job[t] = AlertJob(a) => t = s
    BY <1>2 DEF IInv, RunOnce, Busy
  <2>2. ASSUME Held(j) PROVE \E t \in Slots : job[t] = AlertJob(a) /\ next[s] < next[t]
    BY <1>2, <1>4, <2>1, <2>2 DEF IInv, Matched
  <2> QED
    BY <1>2, <2>1, <2>2
<1>6. RunOnce'
  <2>1. j \notin Queued \cup ran /\ \A t \in Slots : job[t] # j
    BY <1>5 DEF Held
  <2>2. RunOnce /\ Busy' = Busy
    BY <1>3 DEF IInv, Busy
  <2> QED
    BY <1>1, <1>3, <2>1, <2>2 DEF RunOnce, Busy
<1>7. Sending'
  BY <1>1, <1>3, <1>4 DEF IInv, Sending
<1>8. Matched'
  <2> SUFFICES ASSUME NEW k \in Jobs, Held(k)', k # AlertJob(k[1])
               PROVE  \/ AlertJob(k[1]) \in ran'
                      \/ \E t \in Slots : job'[t] = AlertJob(k[1]) /\ k[2] < next'[t]
    BY DEF Matched
  <2>1. CASE k = j
    BY <1>2, <1>3, <1>4, <2>1
  <2>2. CASE Held(k)
    <3>1. CASE AlertJob(k[1]) \in ran
      BY <1>3, <3>1
    <3>2. ASSUME NEW t \in Slots, job[t] = AlertJob(k[1]), k[2] < next[t]
          PROVE  job'[t] = AlertJob(k[1]) /\ k[2] < next'[t]
      <4>1. k[2] \in Nat
        BY JobParts
      <4> QED
        BY <1>2, <1>3, <3>2, <4>1
    <3> QED
      BY <2>2, <3>1, <3>2 DEF IInv, Matched
  <2> QED
    BY <1>1, <2>1, <2>2
<1>9. OnlyHanded'
  BY <1>1, <1>3, <1>4 DEF IInv, OnlyHanded
<1> QED
  BY <1>6, <1>7, <1>8, <1>9

LEMMA ReceiveKeeps ==
  ASSUME IInv, NEW s \in Slots, Receive(s)
  PROVE  RunOnce' /\ Sending' /\ Matched' /\ OnlyHanded'
<1>1. /\ job[s] = None /\ job'[s] # None /\ job'[s] \in Jobs
      /\ \A t \in Slots : t # s => job'[t] = job[t] /\ next'[t] = next[t]
      /\ next'[s] = 1
      /\ Queued = Queued' \cup {job'[s]}
      /\ IsInjective(remediationJobs) => IsInjective(remediationJobs)' /\ job'[s] \notin Queued'
      /\ \A k \in Jobs : Held(k)' <=> Held(k)
  BY ReceiveHolds DEF IInv
<1>2. caller' = caller /\ ran' = ran /\ handed' = handed
  BY DEF Receive
<1>3. RunOnce'
  <2>1. Busy' = Busy \cup {s} /\ s \notin Busy
    BY <1>1 DEF Busy
  <2>2. RunOnce
    BY DEF IInv
  <2>3. \A t \in Busy : job[t] # job'[s] /\ t # s /\ job'[t] = job[t]
    BY <1>1, <2>1, <2>2 DEF RunOnce, Busy
  <2>4. IsInjective(remediationJobs)' /\ (Queued \cap ran)' = {}
    BY <1>1, <1>2, <2>2 DEF RunOnce
  <2>5. \A t \in Busy' : job'[t] \notin Queued' \cup ran'
    BY <1>1, <1>2, <2>1, <2>2, <2>3 DEF RunOnce
  <2>6. \A t, u \in Busy' : job'[t] = job'[u] => t = u
    BY <2>1, <2>2, <2>3 DEF RunOnce
  <2> QED
    BY <2>4, <2>5, <2>6 DEF RunOnce
<1>4. Sending'
  <2>1. \A c \in Callers : caller[c] # None => AlertJob(caller[c]) \in Jobs
    BY AlertJobs DEF IInv, TypeOK
  <2> QED
    BY <1>1, <1>2, <2>1 DEF IInv, Sending
<1>5. Matched'
  <2> SUFFICES ASSUME NEW k \in Jobs, Held(k)', k # AlertJob(k[1])
               PROVE  \/ AlertJob(k[1]) \in ran'
                      \/ \E t \in Slots : job'[t] = AlertJob(k[1]) /\ k[2] < next'[t]
    BY DEF Matched
  <2>1. k[1] \in Alerts /\ AlertJob(k[1]) # None
    BY JobParts, AlertJobs
  <2>2. CASE AlertJob(k[1]) \in ran
    BY <1>2, <2>2
  <2>3. ASSUME NEW t \in Slots, job[t] = AlertJob(k[1]), k[2] < next[t]
        PROVE  job'[t] = AlertJob(k[1]) /\ k[2] < next'[t]
    BY <1>1, <2>1, <2>3
  <2> QED
    BY <1>1, <2>2, <2>3 DEF IInv, Matched
<1>6. OnlyHanded'
  BY <1>1, <1>2, AlertJobs DEF IInv, OnlyHanded
<1> QED
  BY <1>3, <1>4, <1>5, <1>6

LEMMA FinishKeeps ==
  ASSUME IInv, NEW s \in Slots, Finish(s)
  PROVE  RunOnce' /\ Sending' /\ Matched' /\ OnlyHanded'
<1>1. /\ job[s] # None /\ job[s] \in Jobs /\ job'[s] = None
      /\ ran' = ran \cup {job[s]}
      /\ \A t \in Slots : t # s => job'[t] = job[t]
      /\ remediationJobs' = remediationJobs /\ next' = next /\ caller' = caller
      /\ Queued' = Queued
      /\ \A k \in Jobs : Held(k)' <=> Held(k)
  BY FinishHolds DEF IInv
<1>2. handed' = handed
  BY DEF Finish
<1>3. RunOnce'
  <2>1. Busy' = Busy \ {s} /\ s \in Busy
    BY <1>1 DEF Busy
  <2>2. RunOnce
    BY DEF IInv
  <2>3. \A t \in Busy' : t \in Busy /\ t # s /\ t \in Slots
    BY <2>1 DEF Busy
  <2>4. \A t \in Busy' : job'[t] = job[t] /\ job[t] # job[s] /\ job[t] \notin Queued \cup ran
    BY <1>1, <2>1, <2>2, <2>3 DEF RunOnce
  <2>5. \A t, u \in Busy' : job'[t] = job'[u] => t = u
    BY <2>2, <2>3, <2>4 DEF RunOnce
  <2>6. job[s] \notin Queued /\ Queued \cap ran = {} /\ IsInjective(remediationJobs)
    BY <2>1, <2>2 DEF RunOnce
  <2> QED
    BY <1>1, <2>4, <2>5, <2>6 DEF RunOnce
<1>4. Sending'
  <2>1. \A c \in Callers : caller[c] # None => AlertJob(caller[c]) \in Jobs
    BY AlertJobs DEF IInv, TypeOK
  <2> QED
    BY <1>1, <1>2, <2>1 DEF IInv, Sending
<1>5. Matched'
  BY <1>1 DEF IInv, Matched
<1>6. OnlyHanded'
  BY <1>1, <1>2, AlertJobs DEF IInv, OnlyHanded
<1> QED
  BY <1>3, <1>4, <1>5, <1>6

LEMMA StepKeeps == IInv /\ [Next]_vars => IInv'
<1> SUFFICES ASSUME IInv, [Next]_vars PROVE IInv'
  OBVIOUS
<1>1. TypeOK'
  BY TypeStep DEF IInv
<1>2. CASE UNCHANGED vars
  <2>1. Queued' = Queued /\ Busy' = Busy /\ \A k : Held(k)' <=> Held(k)
    BY <1>2 DEF vars, Queued, Busy, Held
  <2> QED
    BY <1>1, <1>2, <2>1 DEF vars, IInv, RunOnce, Sending, Matched, OnlyHanded
<1> QED
  BY <1>1, <1>2, EnqueueKeeps, HandOverKeeps, ReceiveKeeps, EnqueueMatchKeeps, FinishKeeps
  DEF Next, IInv

(* No remediation job is queued twice, run by two workers or run again.     *)
THEOREM NoJobRunsTwice == Spec => []RunOnce
<1>1. IInv => RunOnce
  BY DEF IInv
<1> QED
  BY InitHolds, StepKeeps, <1>1, PTL DEF Spec

-----------------------------------------------------------------------------
(* A send that is owed is made or still owed: for NeverDropped the types    *)
(* are enough.                                                              *)
LEMMA OwedJob ==
  ASSUME NEW a \in Alerts, NEW j \in JobsOf(a)
  PROVE  /\ j \in Jobs /\ j[2] \in Nat
         /\ j # AlertJob(a) => j = <<a, j[2]>> /\ j[2] \in 1..Matches[a] /\ Mode[a] = "rules"
         /\ j = AlertJob(a) => j[2] = 0
<1>1. j \in Jobs /\ (j # AlertJob(a) => j \in MatchJobs(a))
  BY DEF Jobs, JobsOf
<1>2. j[2] \in Nat
  BY <1>1, JobParts
<1>3. ASSUME j \in MatchJobs(a)
      PROVE  j = <<a, j[2]>> /\ j[2] \in 1..Matches[a] /\ Mode[a] = "rules"
  <2>1. PICK n \in 1..Matches[a] : j = <<a, n>> /\ Mode[a] = "rules"
    BY <1>3 DEF MatchJobs
  <2> QED
    BY <2>1
<1> QED
  BY <1>1, <1>2, <1>3 DEF AlertJob

LEMMA DropsNothing == TypeOK /\ NeverDropped /\ [Next]_vars => NeverDropped'
<1> SUFFICES ASSUME TypeOK, NeverDropped, [Next]_vars PROVE NeverDropped'
  OBVIOUS
<1>0. handed' \subseteq Alerts
  BY TypeStep DEF TypeOK
<1> SUFFICES ASSUME NEW a \in handed', NEW j \in JobsOf(a)
             PROVE  (Held(j) \/ Unsent(a, j))'
  BY DEF NeverDropped
<1>1. a \in Alerts /\ a # None /\ AlertJob(a) \in Jobs /\ AlertJob(a) # None
  BY <1>0, AlertJobs, PoolAssumption
<1>2. /\ j \in Jobs /\ j[2] \in Nat
      /\ j # AlertJob(a) => j = <<a, j[2]>> /\ j[2] \in 1..Matches[a] /\ Mode[a] = "rules"
      /\ j = AlertJob(a) => j[2] = 0
  BY <1>1, OwedJob
<1>3. a \in handed => Held(j) \/ Unsent(a, j)
  BY DEF NeverDropped
<1>4. ASSUME NEW c \in Callers, Enqueue(c) PROVE (Held(j) \/ Unsent(a, j))'
  <2>1. /\ Queued' = Queued \cup {AlertJob(caller[c])}
        /\ Held(j)' <=> Held(j) \/ j = AlertJob(caller[c])
    BY <1>4, EnqueueHolds
  <2>2. /\ job' = job /\ next' = next /\ handed' = handed
        /\ \A d \in Callers : d # c => caller'[d] = caller[d]
    BY <1>4 DEF Enqueue, TypeOK
  <2> QED
    BY <1>3, <2>1, <2>2 DEF Unsent
<1>5. ASSUME NEW c \in Callers, NEW b \in Alerts, HandOver(c, b)
      PROVE (Held(j) \/ Unsent(a, j))'
  <2>1. /\ handed' = handed \cup {b} /\ caller[c] = None /\ caller'[c] = b
        /\ \A d \in Callers : d # c => caller'[d] = caller[d]
        /\ job' = job /\ next' = next /\ Queued' = Queued
        /\ Held(j)' <=> Held(j)
    BY <1>5, HandOverHolds
  <2> QED
    BY <1>1, <1>3, <2>1 DEF Unsent
<1>6. ASSUME NEW s \in Slots, Receive(s) PROVE (Held(j) \/ Unsent(a, j))'
  <2>1. /\ job[s] = None
        /\ \A t \in Slots : t # s => job'[t] = job[t] /\ next'[t] = next[t]
        /\ next'[s] = 1 /\ Queued = Queued' \cup {job'[s]}
        /\ Held(j)' <=> Held(j)
    BY <1>2, <1>6, ReceiveHolds
  <2>2. caller' = caller /\ handed' = handed
    BY <1>6 DEF Receive
  <2>3. ASSUME j # AlertJob(a), AlertJob(a) \in Queued
        PROVE  AlertJob(a) \in Queued' \/ \E t \in Slots : job'[t] = AlertJob(a) /\ j[2] >= next'[t]
    BY <1>2, <2>1, <2>3
  <2>4. \A t \in Slots : job[t] = AlertJob(a) => job'[t] = job[t] /\ next'[t] = next[t]
    BY <1>1, <2>1
  <2> QED
    BY <1>3, <2>1, <2>2, <2>3, <2>4 DEF Unsent
<1>7. ASSUME NEW s \in Slots, EnqueueMatch(s) PROVE (Held(j) \/ Unsent(a, j))'
  <2>1. /\ Queued' = Queued \cup {<<job[s][1], next[s]>>}
        /\ Held(j)' <=> Held(j) \/ j = <<job[s][1], next[s]>>
    BY <1>7, EnqueueMatchHolds
  <2>2. /\ caller' = caller /\ handed' = handed /\ job' = job
        /\ next[s] \in Nat /\ next'[s] = next[s] + 1
        /\ \A t \in Slots : t # s => next'[t] = next[t]
    BY <1>7 DEF EnqueueMatch, TypeOK
  <2>3. ASSUME NEW t \in Slots, job[t] = AlertJob(a), j[2] >= next[t]
        PROVE  j[2] >= next'[t] \/ Held(j)'
    <3>1. CASE t = s /\ j[2] = next[s]
      <4>1. job[s][1] = a /\ next[s] \in Nat \ {0}
        BY <2>3, <3>1 DEF AlertJob, TypeOK
      <4> QED
        BY <1>2, <2>1, <3>1, <4>1
    <3>2. CASE ~(t = s /\ j[2] = next[s])
      BY <1>2, <2>2, <2>3, <3>2
    <3> QED
      BY <3>1, <3>2
  <2> QED
    BY <1>3, <2>1, <2>2, <2>3 DEF Unsent
<1>8. ASSUME NEW s \in Slots, Finish(s) PROVE (Held(j) \/ Unsent(a, j))'
  <2>1. /\ \A t \in Slots : t # s => job'[t] = job[t]
        /\ next' = next /\ caller' = caller /\ Queued' = Queued
        /\ Held(j)' <=> Held(j)
    BY <1>2, <1>8, FinishHolds
  <2>2. handed' = handed
    BY <1>8 DEF Finish
  <2>3. ASSUME job[s] = AlertJob(a) PROVE ~(j[2] >= next[s])
    <3>1. job[s][1] = a /\ job[s][2] = 0 /\ next[s] \in Nat \ {0}
      BY <2>3 DEF AlertJob, TypeOK
    <3>2. Mode[a] = "rules" => next[s] > Matches[a]
      BY <1>8, <3>1 DEF Finish, Fans
    <3>3. Matches[a] \in Nat
      BY <1>1, PoolAssumption
    <3> QED
      BY <1>2, <3>1, <3>2, <3>3
  <2> QED
    BY <1>3, <2>1, <2>2, <2>3 DEF Unsent
<1>9. CASE UNCHANGED vars
  BY <1>3, <1>9 DEF vars, Held, Unsent, Queued
<1> QED
  BY <1>4, <1>5, <1>6, <1>7, <1>8, <1>9 DEF Next

(* Of an alert that was handed over, every job has run, is held or is still *)
(* to be sent by the one whose turn it is: none is dropped.                 *)
THEOREM NoJobDropped == Spec => []NeverDropped
<1>1. Init => NeverDropped
  BY DEF Init, NeverDropped
<1> QED
  BY TypeInit, TypeStep, <1>1, DropsNothing, PTL DEF Spec
==============================================================================
