--------------------------- MODULE Healing_proofs ---------------------------
(* A pull request is published in one step and never changes, and both      *)
(* tables tell the truth about it: for any number of requests, incidents,   *)
(* files, contents and seconds, any failures and any lost answers.          *)
(* The locators that go into them are chosen by LocatorHealing; its         *)
(* properties are proved at the end, for every case it may be given.        *)
EXTENDS Healing, LocatorHealing, WellFoundedInduction, TLAPS

Writing(c) == call[c].pc \in {"sha", "put", "pr", "mark"}

(* A request that writes has a branch, and its own.                         *)
Owned == \A c \in Clients : Writing(c) => branches[call[c].branch] # None

(* The branch of a pull request is not written any more.                    *)
Settled ==
  \A p \in DOMAIN prs :
    /\ branches[prs[p].branch] # None
    /\ \A c \in Clients :
         call[c].pc \in {"sha", "put", "pr"} => call[c].branch # prs[p].branch

(* What a request has written so far is what it was asked to write.         *)
Carried ==
  \A c \in Clients :
    /\ call[c].pc = "pr" => branches[call[c].branch][call[c].file] = call[c].code
    /\ call[c].pc = "mark" =>
         /\ call[c].pr \in DOMAIN prs
         /\ prs[call[c].pr].file = call[c].file
         /\ branches[prs[call[c].pr].branch][call[c].file] = call[c].code

Flagged == \A c \in Clients : call[c].pc = "flag" => call[c].inc \in healings

WriterInv == Owned /\ SoleWriter /\ Settled /\ Carried
IInv == TypeOK /\ WriterInv

-----------------------------------------------------------------------------
LEMMA Bounds == /\ {MaxNow, MaxPatches, MaxPushes, MaxFaults, MaxDeletions} \subseteq Nat
                /\ 0 \in Seconds
  BY BoundsAssumption DEF Seconds

LEMMA SeqAt ==
  ASSUME NEW S, NEW s \in Seq(S), NEW n \in 1 .. Len(s)
  PROVE  s[n] \in S
  OBVIOUS

LEMMA SeqIsFunction ==
  ASSUME NEW S, NEW s \in Seq(S)
  PROVE  s = [n \in 1 .. Len(s) |-> s[n]]
  OBVIOUS

LEMMA AppendAt ==
  ASSUME NEW S, NEW s \in Seq(S), NEW e \in S
  PROVE  /\ Append(s, e) \in Seq(S)
         /\ Len(s) \in Nat /\ DOMAIN s = 1 .. Len(s)
         /\ DOMAIN Append(s, e) = (DOMAIN s) \union {Len(s) + 1}
         /\ \A n \in DOMAIN s : Append(s, e)[n] = s[n]
         /\ Append(s, e)[Len(s) + 1] = e
  OBVIOUS

LEMMA TypeInit == Init => TypeOK
<1> SUFFICES ASSUME Init PROVE TypeOK
  OBVIOUS
<1>1. main \in Trees
  BY DEF Init, Trees
<1>2. patches \in Seq([inc : Incidents, file : Files, code : Contents, pr : Nat])
      /\ prs \in Seq([branch : Seconds, file : Files])
  BY DEF Init
<1> QED
  BY <1>1, <1>2, Bounds DEF Init, TypeOK

(* A request that is about to call GitHub has all its variables.            *)
LEMMA Asking ==
  ASSUME TypeOK, NEW c \in Clients, Writing(c) \/ call[c].pc = "branch"
  PROVE  /\ call[c] \in Requests
         /\ call[c].inc \in Incidents \union {None} /\ call[c].file \in Files
         /\ call[c].code \in Contents /\ call[c].head \in Trees
         /\ call[c].branch \in Seconds /\ call[c].sha \in Contents /\ call[c].pr \in Nat
<1>1. call[c] \in Requests
  BY DEF TypeOK, Flagging, Idle, Writing
<1> QED
  BY <1>1 DEF Requests

-----------------------------------------------------------------------------
(* Types.                                                                   *)
LEMMA TableTypes ==
  ASSUME TypeOK, Next
  PROVE  /\ incidents' \in [Incidents -> BOOLEAN] /\ healed' \in [Incidents -> BOOLEAN]
         /\ healings' \subseteq Incidents
         /\ patches' \in Seq([inc : Incidents, file : Files, code : Contents, pr : Nat])
<1>1. ASSUME NEW i \in Incidents, NEW f \in Files, NEW x \in Contents, SubmitPatch(i, f, x)
      PROVE  patches' \in Seq([inc : Incidents, file : Files, code : Contents, pr : Nat])
  <2>1. [inc |-> i, file |-> f, code |-> x, pr |-> 0]
          \in [inc : Incidents, file : Files, code : Contents, pr : Nat]
    OBVIOUS
  <2> QED
    BY <1>1, <2>1 DEF SubmitPatch, TypeOK
<1>2. ASSUME NEW c \in Clients, MarkPatchPR(c)
      PROVE  patches' \in Seq([inc : Incidents, file : Files, code : Contents, pr : Nat])
  <2> DEFINE match == Submissions(call[c].inc, call[c].file, call[c].code)
             row(n) == IF n \in match /\ \A k \in match : k <= n
                       THEN [patches[n] EXCEPT !.pr = call[c].pr] ELSE patches[n]
             Row == [inc : Incidents, file : Files, code : Contents, pr : Nat]
  <2>1. call[c].pr \in Nat
    BY <1>2, Asking DEF MarkPatchPR, Writing
  <2>2. patches' = [n \in 1 .. Len(patches) |-> row(n)]
    BY <1>2 DEF MarkPatchPR, LinkLatest, TypeOK
  <2>3. \A n \in 1 .. Len(patches) : row(n) \in Row
    <3> SUFFICES ASSUME NEW n \in 1 .. Len(patches) PROVE row(n) \in Row
      OBVIOUS
    <3>0. patches \in Seq(Row)
      BY DEF TypeOK
    <3>1. patches[n] \in Row
      BY <3>0, SeqAt
    <3>2. [patches[n] EXCEPT !.pr = call[c].pr] \in Row
      BY <3>1, <2>1
    <3> QED
      BY <3>1, <3>2
  <2> QED
    <3> HIDE DEF row, Row
    <3>1. Len(patches) \in Nat
      BY DEF TypeOK
    <3>2. [n \in 1 .. Len(patches) |-> row(n)] \in Seq(Row)
      BY <2>3, <3>1
    <3> QED
      BY <2>2, <3>2 DEF Row
<1>3. ASSUME NEW c \in Clients, FlagIncident(c) PROVE healed' \in [Incidents -> BOOLEAN]
  <2>1. call[c] \in Requests \union Flagging \union {Idle}
    BY DEF TypeOK
  <2>2. \A r \in Requests : r.pc # "flag"
    BY DEF Requests
  <2>3. Idle.pc # "flag"
    BY DEF Idle
  <2>4. call[c] \in Flagging
    BY <1>3, <2>1, <2>2, <2>3 DEF FlagIncident
  <2>5. incidents[call[c].inc] \in BOOLEAN
    BY <2>4 DEF TypeOK, Flagging
  <2> QED
    BY <1>3, <2>5 DEF FlagIncident, TypeOK
<1>4. ASSUME NEW i \in Incidents, Delete(i)
      PROVE  incidents' \in [Incidents -> BOOLEAN] /\ healed' \in [Incidents -> BOOLEAN]
  BY <1>4 DEF Delete, TypeOK
<1> QED
  BY <1>1, <1>2, <1>3, <1>4 DEF Next, CreateRemediationPR, PatchArguments, SubmitPatch, Delete,
     RecordHealing, FlagIncident, ReadHead, CreateBranch, ReadFileSHA, PutFile, CreatePR,
     MarkPatchPR, CallFails, AnswerLost, Crash, Push, Tick, TypeOK, tables

(* A request's local variables, one action at a time.                       *)
LEMMA RequestTypes ==
  ASSUME TypeOK, Next
  PROVE  call' \in [Clients -> Requests \union Flagging \union {Idle}]
<1> DEFINE Calls == Requests \union Flagging \union {Idle}
<1>0. call \in [Clients -> Calls]
  BY DEF TypeOK
<1>1. ASSUME NEW c \in Clients, NEW r \in Calls, call' = [call EXCEPT ![c] = r]
      PROVE  call' \in [Clients -> Calls]
  <2> HIDE DEF Calls
  <2> QED
    BY <1>0, <1>1
<1>2. ASSUME NEW c \in Clients, NEW i \in Incidents \union {None}, NEW f \in Files,
             NEW x \in Contents, ReadHead(c, i, f, x)
      PROVE  call' \in [Clients -> Calls]
  <2> DEFINE r == [pc |-> "branch", inc |-> i, file |-> f, code |-> x, head |-> main,
                   branch |-> 0, sha |-> x, pr |-> 0]
  <2>1. r \in Requests
    BY Bounds DEF Requests, TypeOK
  <2> QED
    BY <1>1, <1>2, <2>1 DEF ReadHead
<1>3. ASSUME NEW c \in Clients, CreateBranch(c) PROVE call' \in [Clients -> Calls]
  <2> DEFINE r == [[call[c] EXCEPT !.branch = now] EXCEPT !.pc = "sha"]
  <2>1. call[c] \in Requests
    BY <1>3, Asking DEF CreateBranch
  <2>2. r \in Requests
    BY <2>1 DEF Requests, TypeOK
  <2>3. call' = [call EXCEPT ![c] = IF branches[now] = None THEN r ELSE Idle]
    BY <1>3 DEF CreateBranch
  <2> HIDE DEF r
  <2> QED
    BY <1>1, <2>2, <2>3
<1>4. ASSUME NEW c \in Clients, ReadFileSHA(c) PROVE call' \in [Clients -> Calls]
  <2> DEFINE r == [[call[c] EXCEPT !.sha = main[call[c].file]] EXCEPT !.pc = "put"]
  <2>1. call[c] \in Requests /\ call[c].file \in Files
    BY <1>4, Asking DEF ReadFileSHA, Writing
  <2>2. main[call[c].file] \in Contents
    BY <2>1 DEF TypeOK, Trees
  <2>3. r \in Requests
    BY <2>1, <2>2 DEF Requests
  <2>4. call' = [call EXCEPT ![c] = r]
    BY <1>0, <1>4 DEF ReadFileSHA
  <2> HIDE DEF r
  <2> QED
    BY <1>1, <2>3, <2>4
<1>5. ASSUME NEW c \in Clients, CreatePR(c) PROVE call' \in [Clients -> Calls]
  <2> DEFINE r == [[call[c] EXCEPT !.pr = Len(prs) + 1] EXCEPT !.pc = "mark"]
  <2>1. call[c] \in Requests
    BY <1>5, Asking DEF CreatePR, Writing
  <2>2. Len(prs) + 1 \in Nat
    BY DEF TypeOK
  <2>3. r \in Requests
    BY <2>1, <2>2 DEF Requests
  <2>4. call' = [call EXCEPT ![c] = r]
    BY <1>0, <1>5 DEF CreatePR
  <2> HIDE DEF r
  <2> QED
    BY <1>1, <2>3, <2>4
<1>6. ASSUME NEW c \in Clients, PutFile(c) PROVE call' \in [Clients -> Calls]
  <2> DEFINE r == [call[c] EXCEPT !.pc = "pr"]
  <2>1. call[c] \in Requests
    BY <1>6, Asking DEF PutFile, Writing
  <2>2. r \in Requests
    BY <2>1 DEF Requests
  <2>3. call' = [call EXCEPT ![c] = r] \/ call' = [call EXCEPT ![c] = Idle]
    BY <1>0, <1>6 DEF PutFile, Goto, Finish
  <2> HIDE DEF r
  <2> QED
    BY <1>1, <2>2, <2>3
<1>7. ASSUME NEW c \in Clients, NEW i \in Incidents, RecordHealing(c, i)
      PROVE  call' \in [Clients -> Calls]
  <2>1. [pc |-> "flag", inc |-> i] \in Flagging
    BY DEF Flagging
  <2> QED
    BY <1>1, <1>7, <2>1 DEF RecordHealing
<1>8. ASSUME NEW c \in Clients,
             FlagIncident(c) \/ MarkPatchPR(c) \/ CallFails(c) \/ AnswerLost(c)
      PROVE  call' \in [Clients -> Calls]
  BY <1>1, <1>8 DEF FlagIncident, MarkPatchPR, CallFails, AnswerLost, Finish
<1>9. CASE Crash
  BY <1>9 DEF Crash
<1> QED
  BY <1>0, <1>2, <1>3, <1>4, <1>5, <1>6, <1>7, <1>8, <1>9 DEF Next, CreateRemediationPR,
     AskedByAgent, AskedOnTheWeb, SubmitPatch, Delete, Push, Tick

LEMMA BranchesDiffer == None \notin Trees
  BY NoneAssumption DEF Trees

(* What GitHub makes of a call, in terms of what it had.                    *)
LEMMA BranchCall ==
  ASSUME TypeOK, NEW c \in Clients, call[c].pc = "branch", BranchCreated(c)
  PROVE  /\ branches' \in [Seconds -> Trees \union {None}]
         /\ \A s \in Seconds : branches[s] # None => branches'[s] = branches[s]
         /\ branches'[now] # None
         /\ branches[now] # None => branches' = branches
<1>1. now \in Seconds /\ call[c].head \in Trees /\ branches \in [Seconds -> Trees \union {None}]
  BY Asking DEF TypeOK
<1>2. branches' = [branches EXCEPT ![now] = IF branches[now] = None THEN call[c].head
                                                                    ELSE branches[now]]
  BY DEF BranchCreated
<1> QED
  BY <1>1, <1>2, BranchesDiffer

LEMMA FileCall ==
  ASSUME TypeOK, NEW c \in Clients, call[c].pc = "put", Owned, FilePut(c)
  PROVE  /\ branches' \in [Seconds -> Trees \union {None}]
         /\ \A s \in Seconds : s # call[c].branch => branches'[s] = branches[s]
         /\ \A s \in Seconds : branches[s] # None => branches'[s] # None
         /\ FileIsTheOneRead(c) => branches'[call[c].branch][call[c].file] = call[c].code
<1> DEFINE b == call[c].branch
           t == [branches[b] EXCEPT ![call[c].file] = call[c].code]
<1>1. b \in Seconds /\ call[c].file \in Files /\ call[c].code \in Contents
  BY Asking DEF Writing
<1>2. branches \in [Seconds -> Trees \union {None}] /\ branches[b] # None
  BY DEF TypeOK, Owned, Writing
<1>3. t \in Trees /\ t[call[c].file] = call[c].code
  BY <1>1, <1>2 DEF Trees
<1>4. branches' = IF FileIsTheOneRead(c) THEN [branches EXCEPT ![b] = t] ELSE branches
  BY <1>2 DEF FilePut
<1> HIDE DEF b, t
<1>5. /\ branches' \in [Seconds -> Trees \union {None}]
      /\ \A s \in Seconds : s # b => branches'[s] = branches[s]
      /\ FileIsTheOneRead(c) => branches'[b] = t
      /\ ~FileIsTheOneRead(c) => branches' = branches
  BY <1>1, <1>2, <1>3, <1>4
<1>6. \A s \in Seconds : branches[s] # None => branches'[s] # None
  BY <1>3, <1>5, BranchesDiffer
<1> QED
  BY <1>3, <1>5, <1>6 DEF b

LEMMA PRCall ==
  ASSUME TypeOK, NEW c \in Clients, call[c].pc = "pr", PRCreated(c)
  PROVE  /\ prs' \in Seq([branch : Seconds, file : Files])
         /\ DOMAIN prs' = (DOMAIN prs) \union {Len(prs) + 1}
         /\ \A p \in DOMAIN prs : prs'[p] = prs[p]
         /\ prs'[Len(prs) + 1] = [branch |-> call[c].branch, file |-> call[c].file]
<1> DEFINE pr == [branch |-> call[c].branch, file |-> call[c].file]
           PR == [branch : Seconds, file : Files]
<1>1. pr \in PR
  BY Asking DEF Writing
<1>2. prs \in Seq(PR) /\ prs' = Append(prs, pr)
  BY DEF TypeOK, PRCreated
<1> HIDE DEF pr, PR
<1>3. /\ Append(prs, pr) \in Seq(PR)
      /\ DOMAIN Append(prs, pr) = (DOMAIN prs) \union {Len(prs) + 1}
      /\ \A p \in DOMAIN prs : Append(prs, pr)[p] = prs[p]
      /\ Append(prs, pr)[Len(prs) + 1] = pr
  BY <1>1, <1>2, AppendAt
<1> QED
  BY <1>2, <1>3 DEF pr, PR

LEMMA GitHubTypes ==
  ASSUME TypeOK, Owned, Next
  PROVE  /\ main' \in Trees /\ branches' \in [Seconds -> Trees \union {None}]
         /\ prs' \in Seq([branch : Seconds, file : Files])
         /\ now' \in Seconds /\ pushes' \in Nat /\ faults' \in Nat /\ deletions' \in Nat
<1>1. ASSUME NEW c \in Clients, CreateBranch(c) \/ PutFile(c) \/ CreatePR(c) \/ AnswerLost(c)
      PROVE  /\ branches' \in [Seconds -> Trees \union {None}]
             /\ prs' \in Seq([branch : Seconds, file : Files])
  <2>1. CASE call[c].pc = "branch" /\ BranchCreated(c) /\ prs' = prs
    BY <2>1, BranchCall DEF TypeOK
  <2>2. CASE call[c].pc = "put" /\ FilePut(c) /\ prs' = prs
    BY <2>2, FileCall DEF TypeOK
  <2>3. CASE call[c].pc = "pr" /\ PRCreated(c) /\ branches' = branches
    BY <2>3, PRCall DEF TypeOK
  <2> QED
    BY <1>1, <2>1, <2>2, <2>3 DEF CreateBranch, PutFile, CreatePR, AnswerLost
<1>2. ASSUME NEW f \in Files, NEW x \in Contents, Push(f, x) PROVE main' \in Trees
  BY <1>2 DEF Push, TypeOK, Trees
<1>3. ASSUME Tick PROVE now' \in Seconds
  <2>1. MaxNow \in Nat
    BY Bounds
  <2> QED
    BY <1>3, <2>1 DEF Tick, TypeOK, Seconds
<1>4. now' \in Seconds /\ main' \in Trees
  BY <1>2, <1>3 DEF Next, CreateRemediationPR, PatchArguments, SubmitPatch, Delete,
     RecordHealing, FlagIncident, ReadHead, CreateBranch, ReadFileSHA, PutFile, CreatePR,
     MarkPatchPR, CallFails, AnswerLost, Crash, Push, Tick, TypeOK, github, bounds
<1>5. pushes' \in Nat /\ faults' \in Nat /\ deletions' \in Nat
  <2>1. pushes \in Nat /\ faults \in Nat /\ deletions \in Nat
    BY DEF TypeOK
  <2>2. /\ pushes' = pushes \/ pushes' = pushes + 1
        /\ faults' = faults \/ faults' = faults + 1
        /\ deletions' = deletions \/ deletions' = deletions + 1
    BY DEF Next, CreateRemediationPR, PatchArguments, SubmitPatch, Delete,
       RecordHealing, FlagIncident, ReadHead, CreateBranch, ReadFileSHA, PutFile, CreatePR,
       MarkPatchPR, CallFails, AnswerLost, Crash, Push, Tick, bounds
  <2> QED
    BY <2>1, <2>2
<1>6. /\ branches' \in [Seconds -> Trees \union {None}]
      /\ prs' \in Seq([branch : Seconds, file : Files])
  BY <1>1 DEF Next, CreateRemediationPR, PatchArguments, SubmitPatch, Delete,
     RecordHealing, FlagIncident, ReadHead, ReadFileSHA,
     MarkPatchPR, CallFails, Crash, Push, Tick, TypeOK, github
<1> QED
  BY <1>4, <1>5, <1>6

LEMMA TypeStep ==
  ASSUME TypeOK, Owned, [Next]_vars
  PROVE  TypeOK'
<1>1. CASE Next
  BY <1>1, TableTypes, RequestTypes, GitHubTypes DEF TypeOK
<1>2. CASE UNCHANGED vars
  BY <1>2 DEF vars, tables, github, bounds, TypeOK
<1> QED
  BY <1>1, <1>2

-----------------------------------------------------------------------------
(* The branches and pull requests of those who write.                       *)

(* Nobody comes to write, and GitHub stays as it is.                        *)
LEMMA NobodyWrites ==
  ASSUME WriterInv, UNCHANGED <<branches, prs>>,
         \A c \in Clients : call'[c] = call[c] \/ ~(Writing(c)')
  PROVE  WriterInv'
<1>1. \A c \in Clients : call'[c].pc \in {"sha", "put", "pr", "mark"} => call'[c] = call[c]
  BY DEF Writing
<1>2. Owned' /\ SoleWriter'
  BY <1>1 DEF WriterInv, Owned, SoleWriter, Writing
<1>3. Settled'
  BY <1>1 DEF WriterInv, Settled
<1>4. Carried'
  BY <1>1 DEF WriterInv, Carried
<1> QED
  BY <1>2, <1>3, <1>4 DEF WriterInv

(* A pull request stays what it is, and so does what it proposes.           *)
Kept ==
  \A p \in DOMAIN prs :
    /\ p \in DOMAIN prs' /\ prs'[p] = prs[p]
    /\ branches'[prs[p].branch] = branches[prs[p].branch]

LEMMA BranchOfPR ==
  ASSUME TypeOK, NEW p \in DOMAIN prs
  PROVE  prs[p].branch \in Seconds /\ prs[p].file \in Files
<1>1. prs \in Seq([branch : Seconds, file : Files]) /\ p \in 1 .. Len(prs)
  BY DEF TypeOK
<1>2. prs[p] \in [branch : Seconds, file : Files]
  BY <1>1, SeqAt
<1> QED
  BY <1>2

(* The branch is new, so that nobody else has it.                           *)
LEMMA BranchStep ==
  ASSUME TypeOK, WriterInv, NEW c \in Clients, call[c].pc = "branch",
         BranchCreated(c), prs' = prs,
         \A d \in Clients \ {c} : call'[d] = call[d],
         \/ call'[c] = Idle
         \/ branches[now] = None /\ call'[c].pc = "sha" /\ call'[c].branch = now
  PROVE  WriterInv' /\ Kept
<1>1. /\ \A s \in Seconds : branches[s] # None => branches'[s] = branches[s]
      /\ branches'[now] # None
  BY BranchCall
<1>2. \A d \in Clients : Writing(d) => call[d].branch \in Seconds
                                       /\ branches'[call[d].branch] = branches[call[d].branch]
                                       /\ branches[call[d].branch] # None
  BY <1>1, Asking DEF WriterInv, Owned
<1>3. \A p \in DOMAIN prs : branches[prs[p].branch] # None
                            /\ branches'[prs[p].branch] = branches[prs[p].branch]
  BY <1>1, BranchOfPR DEF WriterInv, Settled
<1>4. \A d \in Clients : call'[d].pc \in {"sha", "put", "pr", "mark"} =>
         \/ call'[d] = call[d] /\ Writing(d)
         \/ d = c /\ branches[now] = None /\ call'[d].pc = "sha" /\ call'[d].branch = now
  BY DEF Idle, Writing
<1>5. Owned'
  BY <1>1, <1>2, <1>4 DEF Owned, Writing
<1>6. SoleWriter'
  BY <1>2, <1>4 DEF WriterInv, SoleWriter, Writing
<1>7. Settled'
  BY <1>3, <1>4 DEF WriterInv, Settled
<1>8. Carried'
  <2> SUFFICES ASSUME NEW d \in Clients, call'[d].pc \in {"pr", "mark"}
               PROVE  /\ call'[d].pc = "pr" => branches'[call'[d].branch][call'[d].file] = call'[d].code
                      /\ call'[d].pc = "mark" =>
                           /\ call'[d].pr \in DOMAIN prs'
                           /\ prs'[call'[d].pr].file = call'[d].file
                           /\ branches'[prs'[call'[d].pr].branch][call'[d].file] = call'[d].code
    BY DEF Carried
  <2>1. call'[d] = call[d] /\ Writing(d)
    BY <1>4
  <2> QED
    BY <1>2, <1>3, <2>1 DEF WriterInv, Carried
<1> QED
  BY <1>3, <1>5, <1>6, <1>7, <1>8 DEF WriterInv, Kept

LEMMA FileStep ==
  ASSUME TypeOK, WriterInv, NEW c \in Clients, call[c].pc = "put", FilePut(c), prs' = prs,
         \A d \in Clients \ {c} : call'[d] = call[d],
         \/ call'[c] = Idle
         \/ /\ FileIsTheOneRead(c) /\ call'[c].pc = "pr"
            /\ call'[c].branch = call[c].branch /\ call'[c].file = call[c].file
            /\ call'[c].code = call[c].code
  PROVE  WriterInv' /\ Kept
<1> DEFINE b == call[c].branch
<1>0. Writing(c)
  BY DEF Writing
<1>1. /\ \A s \in Seconds : s # b => branches'[s] = branches[s]
      /\ \A s \in Seconds : branches[s] # None => branches'[s] # None
      /\ FileIsTheOneRead(c) => branches'[b][call[c].file] = call[c].code
  BY FileCall DEF WriterInv
<1>2. \A d \in Clients : Writing(d) => call[d].branch \in Seconds
                                       /\ branches[call[d].branch] # None
  BY Asking DEF WriterInv, Owned
<1>3. \A p \in DOMAIN prs : /\ prs[p].branch \in Seconds
                            /\ branches[prs[p].branch] # None
                            /\ prs[p].branch # b
                            /\ branches'[prs[p].branch] = branches[prs[p].branch]
  BY <1>1, BranchOfPR DEF WriterInv, Settled
<1>4. \A d \in Clients : call'[d].pc \in {"sha", "put", "pr", "mark"} =>
         \/ d # c /\ call'[d] = call[d] /\ Writing(d) /\ call[d].branch # b
         \/ /\ d = c /\ FileIsTheOneRead(c) /\ call'[d].pc = "pr" /\ call'[d].branch = b
            /\ call'[d].file = call[c].file /\ call'[d].code = call[c].code
  BY <1>0 DEF Idle, Writing, WriterInv, SoleWriter
<1>5. Owned'
  BY <1>0, <1>1, <1>2, <1>4 DEF Owned, Writing
<1>6. SoleWriter'
  BY <1>4 DEF WriterInv, SoleWriter, Writing
<1>7. Settled'
  BY <1>1, <1>3, <1>4 DEF WriterInv, Settled
<1>8. Carried'
  <2> SUFFICES ASSUME NEW d \in Clients, call'[d].pc \in {"pr", "mark"}
               PROVE  /\ call'[d].pc = "pr" => branches'[call'[d].branch][call'[d].file] = call'[d].code
                      /\ call'[d].pc = "mark" =>
                           /\ call'[d].pr \in DOMAIN prs'
                           /\ prs'[call'[d].pr].file = call'[d].file
                           /\ branches'[prs'[call'[d].pr].branch][call'[d].file] = call'[d].code
    BY DEF Carried
  <2>1. CASE d = c
    BY <1>1, <1>4, <2>1
  <2>2. CASE d # c
    <3>1. call'[d] = call[d] /\ Writing(d) /\ call[d].branch # b
      BY <1>4, <2>2
    <3> QED
      BY <1>1, <1>2, <1>3, <3>1 DEF WriterInv, Carried
  <2> QED
    BY <2>1, <2>2
<1> QED
  BY <1>3, <1>5, <1>6, <1>7, <1>8 DEF WriterInv, Kept

LEMMA PRStep ==
  ASSUME TypeOK, WriterInv, NEW c \in Clients, call[c].pc = "pr", PRCreated(c),
         branches' = branches,
         \A d \in Clients \ {c} : call'[d] = call[d],
         \/ call'[c] = Idle
         \/ /\ call'[c].pc = "mark" /\ call'[c].pr = Len(prs) + 1
            /\ call'[c].branch = call[c].branch /\ call'[c].file = call[c].file
            /\ call'[c].code = call[c].code
  PROVE  /\ WriterInv' /\ Kept
         /\ DOMAIN prs' = (DOMAIN prs) \union {Len(prs) + 1}
         /\ prs'[Len(prs) + 1].file = call[c].file
         /\ branches[prs'[Len(prs) + 1].branch][call[c].file] = call[c].code
<1> DEFINE b == call[c].branch
           n == Len(prs) + 1
<1>0. Writing(c)
  BY DEF Writing
<1>1. /\ DOMAIN prs' = (DOMAIN prs) \union {n}
      /\ \A p \in DOMAIN prs : prs'[p] = prs[p]
      /\ prs'[n].branch = b /\ prs'[n].file = call[c].file
  <2>1. /\ DOMAIN prs' = (DOMAIN prs) \union {Len(prs) + 1}
        /\ \A p \in DOMAIN prs : prs'[p] = prs[p]
        /\ prs'[Len(prs) + 1] = [branch |-> call[c].branch, file |-> call[c].file]
    BY PRCall
  <2> QED
    BY <2>1
<1>2. branches[b] # None /\ branches[b][call[c].file] = call[c].code
  BY <1>0 DEF WriterInv, Owned, Carried
<1>3. \A d \in Clients : call'[d].pc \in {"sha", "put", "pr", "mark"} =>
         \/ d # c /\ call'[d] = call[d] /\ Writing(d) /\ call[d].branch # b
         \/ /\ d = c /\ call'[d].pc = "mark" /\ call'[d].pr = n /\ call'[d].branch = b
            /\ call'[d].file = call[c].file /\ call'[d].code = call[c].code
  BY <1>0 DEF Idle, Writing, WriterInv, SoleWriter
<1>4. Owned'
  BY <1>2, <1>3 DEF WriterInv, Owned, Writing
<1>5. SoleWriter'
  BY <1>3 DEF WriterInv, SoleWriter, Writing
<1>6. Settled'
  BY <1>1, <1>2, <1>3 DEF WriterInv, Settled
<1>7. Carried'
  <2> SUFFICES ASSUME NEW d \in Clients, call'[d].pc \in {"pr", "mark"}
               PROVE  /\ call'[d].pc = "pr" => branches'[call'[d].branch][call'[d].file] = call'[d].code
                      /\ call'[d].pc = "mark" =>
                           /\ call'[d].pr \in DOMAIN prs'
                           /\ prs'[call'[d].pr].file = call'[d].file
                           /\ branches'[prs'[call'[d].pr].branch][call'[d].file] = call'[d].code
    BY DEF Carried
  <2>1. CASE d = c
    BY <1>1, <1>2, <1>3, <2>1
  <2>2. CASE d # c
    <3>1. call'[d] = call[d] /\ Writing(d)
      BY <1>3, <2>2
    <3> QED
      BY <1>1, <3>1 DEF WriterInv, Carried
  <2> QED
    BY <2>1, <2>2
<1> QED
  BY <1>1, <1>2, <1>4, <1>5, <1>6, <1>7 DEF WriterInv, Kept

(* The blob's name is all that changes.                                     *)
LEMMA ShaStep ==
  ASSUME TypeOK, WriterInv, NEW c \in Clients, ReadFileSHA(c)
  PROVE  WriterInv' /\ Kept
<1>1. /\ branches' = branches /\ prs' = prs
      /\ \A d \in Clients \ {c} : call'[d] = call[d]
  BY DEF ReadFileSHA, github, TypeOK
<1>2. Writing(c) /\ call[c] \in Requests
  BY Asking DEF ReadFileSHA, Writing
<1>3. call'[c].pc = "put" /\ call'[c].branch = call[c].branch
  BY <1>2 DEF ReadFileSHA, TypeOK, Requests
<1>4. \A d \in Clients : call'[d].pc \in {"sha", "put", "pr", "mark"} =>
         \/ d # c /\ call'[d] = call[d] /\ Writing(d)
         \/ d = c /\ call'[d].pc = "put" /\ call'[d].branch = call[c].branch
  BY <1>1, <1>3 DEF Writing
<1>5. Owned' /\ SoleWriter'
  BY <1>1, <1>2, <1>4 DEF WriterInv, Owned, SoleWriter, Writing
<1>6. Settled'
  <2>1. call[c].pc = "sha"
    BY DEF ReadFileSHA
  <2> QED
    BY <1>1, <1>4, <2>1 DEF WriterInv, Settled
<1>7. Carried'
  BY <1>1, <1>4 DEF WriterInv, Carried
<1> QED
  BY <1>1, <1>5, <1>6, <1>7 DEF WriterInv, Kept

-----------------------------------------------------------------------------
(* Every step.                                                              *)
LEMMA Ends ==
  ASSUME TypeOK, NEW c \in Clients, Finish(c)
  PROVE  call'[c] = Idle /\ \A d \in Clients \ {c} : call'[d] = call[d]
  BY DEF TypeOK, Finish

LEMMA Calls ==
  ASSUME TypeOK, NEW c \in Clients
  PROVE  /\ CreateBranch(c) =>
              /\ \A d \in Clients \ {c} : call'[d] = call[d]
              /\ \/ call'[c] = Idle
                 \/ branches[now] = None /\ call'[c].pc = "sha" /\ call'[c].branch = now
         /\ PutFile(c) =>
              /\ \A d \in Clients \ {c} : call'[d] = call[d]
              /\ \/ call'[c] = Idle
                 \/ /\ FileIsTheOneRead(c) /\ call'[c].pc = "pr"
                    /\ call'[c].branch = call[c].branch /\ call'[c].file = call[c].file
                    /\ call'[c].code = call[c].code
         /\ CreatePR(c) =>
              /\ \A d \in Clients \ {c} : call'[d] = call[d]
              /\ call'[c].pc = "mark" /\ call'[c].pr = Len(prs) + 1
              /\ call'[c].branch = call[c].branch /\ call'[c].file = call[c].file
              /\ call'[c].code = call[c].code
<1>1. ASSUME CreateBranch(c)
      PROVE  /\ \A d \in Clients \ {c} : call'[d] = call[d]
             /\ \/ call'[c] = Idle
                \/ branches[now] = None /\ call'[c].pc = "sha" /\ call'[c].branch = now
  <2>1. call[c] \in Requests
    BY <1>1, Asking DEF CreateBranch
  <2> QED
    BY <1>1, <2>1 DEF CreateBranch, TypeOK, Requests
<1>2. ASSUME PutFile(c)
      PROVE  /\ \A d \in Clients \ {c} : call'[d] = call[d]
             /\ \/ call'[c] = Idle
                \/ /\ FileIsTheOneRead(c) /\ call'[c].pc = "pr"
                   /\ call'[c].branch = call[c].branch /\ call'[c].file = call[c].file
                   /\ call'[c].code = call[c].code
  <2>1. call[c] \in Requests
    BY <1>2, Asking DEF PutFile, Writing
  <2>2. CASE FileIsTheOneRead(c)
    BY <1>2, <2>1, <2>2 DEF PutFile, Goto, TypeOK, Requests
  <2>3. CASE ~FileIsTheOneRead(c)
    BY <1>2, <2>3, Ends DEF PutFile
  <2> QED
    BY <2>2, <2>3
<1>3. ASSUME CreatePR(c)
      PROVE  /\ \A d \in Clients \ {c} : call'[d] = call[d]
             /\ call'[c].pc = "mark" /\ call'[c].pr = Len(prs) + 1
             /\ call'[c].branch = call[c].branch /\ call'[c].file = call[c].file
             /\ call'[c].code = call[c].code
  <2>1. call[c] \in Requests
    BY <1>3, Asking DEF CreatePR, Writing
  <2> QED
    BY <1>3, <2>1 DEF CreatePR, TypeOK, Requests
<1> QED
  BY <1>1, <1>2, <1>3

(* At most one pull request appears, and with what was asked for.           *)
Appears ==
  \/ prs' = prs
  \/ \E c \in Clients :
       /\ Writing(c) /\ PRCreated(c)
       /\ DOMAIN prs' = (DOMAIN prs) \union {Len(prs) + 1}
       /\ prs'[Len(prs) + 1].file = call[c].file
       /\ branches'[prs'[Len(prs) + 1].branch][call[c].file] = call[c].code

LEMMA QuietStep ==
  ASSUME UNCHANGED <<branches, prs>>, WriterInv,
         \A c \in Clients : call'[c] = call[c] \/ ~(Writing(c)')
  PROVE  WriterInv' /\ Kept /\ Appears
  BY NobodyWrites DEF Kept, Appears

LEMMA CallStep ==
  ASSUME TypeOK, WriterInv, NEW c \in Clients,
         CreateBranch(c) \/ PutFile(c) \/ CreatePR(c) \/ AnswerLost(c)
  PROVE  WriterInv' /\ Kept /\ Appears
<1>1. AnswerLost(c) => call'[c] = Idle /\ \A d \in Clients \ {c} : call'[d] = call[d]
  BY Ends DEF AnswerLost
<1>2. CASE call[c].pc = "branch" /\ BranchCreated(c) /\ prs' = prs
                                 /\ (CreateBranch(c) \/ AnswerLost(c))
  <2>1. WriterInv' /\ Kept
    BY <1>1, <1>2, Calls, BranchStep
  <2> QED
    BY <1>2, <2>1 DEF Appears
<1>3. CASE call[c].pc = "put" /\ FilePut(c) /\ prs' = prs /\ (PutFile(c) \/ AnswerLost(c))
  <2>1. WriterInv' /\ Kept
    BY <1>1, <1>3, Calls, FileStep
  <2> QED
    BY <1>3, <2>1 DEF Appears
<1>4. CASE call[c].pc = "pr" /\ PRCreated(c) /\ branches' = branches
                             /\ (CreatePR(c) \/ AnswerLost(c))
  <2>1. /\ WriterInv' /\ Kept
        /\ DOMAIN prs' = (DOMAIN prs) \union {Len(prs) + 1}
        /\ prs'[Len(prs) + 1].file = call[c].file
        /\ branches[prs'[Len(prs) + 1].branch][call[c].file] = call[c].code
    BY <1>1, <1>4, Calls, PRStep
  <2>2. Writing(c)
    BY <1>4 DEF Writing
  <2> QED
    BY <1>4, <2>1, <2>2 DEF Appears
<1> QED
  BY <1>2, <1>3, <1>4 DEF CreateBranch, PutFile, CreatePR, AnswerLost

LEMMA WriterStep ==
  ASSUME TypeOK, WriterInv, [Next]_vars
  PROVE  WriterInv' /\ Kept /\ Appears
<1>1. ASSUME NEW c \in Clients, CreateBranch(c) \/ PutFile(c) \/ CreatePR(c) \/ AnswerLost(c)
      PROVE  WriterInv' /\ Kept /\ Appears
  BY <1>1, CallStep
<1>2. ASSUME NEW c \in Clients, ReadFileSHA(c) PROVE WriterInv' /\ Kept /\ Appears
  BY <1>2, ShaStep DEF Appears, ReadFileSHA, github
<1>3. ASSUME NEW c \in Clients, NEW i \in Incidents \union {None}, NEW f \in Files,
             NEW x \in Contents, ReadHead(c, i, f, x)
      PROVE  WriterInv' /\ Kept /\ Appears
  <2>1. UNCHANGED <<branches, prs>> /\ \A d \in Clients : call'[d] = call[d] \/ ~(Writing(d)')
    BY <1>3 DEF ReadHead, github, TypeOK, Writing
  <2> QED
    BY <2>1, QuietStep
<1>4. ASSUME NEW c \in Clients, MarkPatchPR(c) \/ CallFails(c) PROVE WriterInv' /\ Kept /\ Appears
  <2>1. UNCHANGED <<branches, prs>> /\ Finish(c)
    BY <1>4 DEF MarkPatchPR, CallFails, github
  <2>2. \A d \in Clients : call'[d] = call[d] \/ ~(Writing(d)')
    BY <2>1, Ends DEF Writing, Idle
  <2> QED
    BY <2>1, <2>2, QuietStep
<1>5. ASSUME NEW c \in Clients, NEW i \in Incidents, RecordHealing(c, i)
      PROVE  WriterInv' /\ Kept /\ Appears
  <2>1. UNCHANGED <<branches, prs>> /\ \A d \in Clients : call'[d] = call[d] \/ ~(Writing(d)')
    BY <1>5 DEF RecordHealing, github, TypeOK, Writing
  <2> QED
    BY <2>1, QuietStep
<1>6. CASE Crash
  <2>1. UNCHANGED <<branches, prs>> /\ \A d \in Clients : call'[d] = call[d] \/ ~(Writing(d)')
    BY <1>6 DEF Crash, github, Writing, Idle
  <2> QED
    BY <2>1, QuietStep
<1>7. ASSUME UNCHANGED <<branches, prs, call>> PROVE WriterInv' /\ Kept /\ Appears
  BY <1>7, QuietStep
<1>8. ASSUME NEW c \in Clients, FlagIncident(c) PROVE WriterInv' /\ Kept /\ Appears
  <2>1. UNCHANGED <<branches, prs>> /\ \A d \in Clients : call'[d] = call[d] \/ ~(Writing(d)')
    BY <1>8 DEF FlagIncident, github, TypeOK, Writing, Idle
  <2> QED
    BY <2>1, QuietStep
<1> QED
  BY <1>1, <1>2, <1>3, <1>4, <1>5, <1>6, <1>7, <1>8 DEF Next, CreateRemediationPR,
     AskedByAgent, AskedOnTheWeb, SubmitPatch, Delete, Push, Tick, vars, github

LEMMA WriterInit == Init => WriterInv
  BY DEF Init, Idle, WriterInv, Owned, SoleWriter, Settled, Carried, Writing

LEMMA Invariant == Spec => []IInv
<1>1. Init => IInv
  BY TypeInit, WriterInit DEF IInv
<1>2. IInv /\ [Next]_vars => IInv'
  BY TypeStep, WriterStep DEF IInv, WriterInv
<1> QED
  BY <1>1, <1>2, PTL DEF Spec

(* Every variable keeps its type: no statement and no call is made with     *)
(* local variables of another kind.                                         *)
THEOREM TypeCorrect == Spec => []TypeOK
  BY Invariant, PTL DEF IInv

(* Two requests never write to one branch (its name is a second).           *)
THEOREM BranchHasOneWriter == Spec => []SoleWriter
  BY Invariant, PTL DEF IInv, WriterInv

-----------------------------------------------------------------------------
(* The records of interventions.                                            *)
HealedInv == HealedHasRecord /\ Flagged

LEMMA HealedStep ==
  ASSUME TypeOK, HealedInv, [Next]_vars
  PROVE  HealedInv'
<1>1. ASSUME healings \subseteq healings',
             \A i \in Incidents : healed'[i] => healed[i] \/ i \in healings',
             \A c \in Clients : call'[c].pc = "flag" => call'[c] = call[c] \/ call'[c].inc \in healings'
      PROVE  HealedInv'
  BY <1>1 DEF HealedInv, HealedHasRecord, Flagged
<1>2. ASSUME NEW c \in Clients, NEW i \in Incidents, RecordHealing(c, i) PROVE HealedInv'
  <2>1. healings' = healings \union {i} /\ healed' = healed
    BY <1>2 DEF RecordHealing
  <2>2. call'[c] = [pc |-> "flag", inc |-> i] /\ \A d \in Clients \ {c} : call'[d] = call[d]
    BY <1>2 DEF RecordHealing, TypeOK
  <2>3. \A d \in Clients : call'[d].pc = "flag" => call'[d] = call[d] \/ call'[d].inc \in healings'
    BY <2>1, <2>2
  <2> QED
    BY <1>1, <2>1, <2>3
<1>3. ASSUME NEW c \in Clients, FlagIncident(c) PROVE HealedInv'
  <2>1. healings' = healings /\ call[c].inc \in healings
    BY <1>3 DEF FlagIncident, HealedInv, Flagged
  <2>2. \A i \in Incidents : healed'[i] => healed[i] \/ i = call[c].inc
    BY <1>3 DEF FlagIncident, TypeOK
  <2>3. \A d \in Clients : call'[d].pc = "flag" => call'[d] = call[d]
    BY <1>3 DEF FlagIncident, TypeOK, Idle
  <2> QED
    BY <1>1, <2>1, <2>2, <2>3
<1>4. ASSUME NEW i \in Incidents, Delete(i) PROVE HealedInv'
  <2>1. \A j \in Incidents : healed'[j] => healed[j]
    BY <1>4 DEF Delete, TypeOK
  <2> QED
    BY <1>1, <1>4, <2>1 DEF Delete
<1>5. ASSUME NEW c \in Clients, NEW i \in Incidents \union {None}, NEW f \in Files,
             NEW x \in Contents, ReadHead(c, i, f, x)
      PROVE  HealedInv'
  <2>1. \A d \in Clients : call'[d].pc = "flag" => call'[d] = call[d]
    BY <1>5 DEF ReadHead, TypeOK
  <2> QED
    BY <1>1, <1>5, <2>1 DEF ReadHead, tables
<1>6. ASSUME NEW c \in Clients, CreateBranch(c) \/ PutFile(c) \/ CreatePR(c)
      PROVE  HealedInv'
  <2>1. \A d \in Clients : call'[d].pc = "flag" => call'[d] = call[d]
    BY <1>6, Calls DEF Idle
  <2> QED
    BY <1>1, <1>6, <2>1 DEF CreateBranch, PutFile, CreatePR, tables
<1>7. ASSUME NEW c \in Clients, ReadFileSHA(c) PROVE HealedInv'
  <2>1. call[c] \in Requests
    BY <1>7, Asking DEF ReadFileSHA, Writing
  <2>2. call'[c].pc = "put" /\ \A d \in Clients \ {c} : call'[d] = call[d]
    BY <1>7, <2>1 DEF ReadFileSHA, TypeOK, Requests
  <2> QED
    BY <1>1, <1>7, <2>2 DEF ReadFileSHA, tables
<1>8. ASSUME NEW c \in Clients, MarkPatchPR(c) \/ CallFails(c) \/ AnswerLost(c)
      PROVE  HealedInv'
  <2>1. \A d \in Clients : call'[d].pc = "flag" => call'[d] = call[d]
    BY <1>8, Ends DEF MarkPatchPR, CallFails, AnswerLost, Idle
  <2> QED
    BY <1>1, <1>8, <2>1 DEF MarkPatchPR, CallFails, AnswerLost, tables
<1>9. CASE Crash
  <2>1. \A d \in Clients : call'[d].pc # "flag"
    BY <1>9 DEF Crash, Idle
  <2> QED
    BY <1>1, <1>9, <2>1 DEF Crash, tables
<1>10. ASSUME UNCHANGED <<healed, healings, call>> PROVE HealedInv'
  BY <1>1, <1>10
<1> QED
  BY <1>2, <1>3, <1>4, <1>5, <1>6, <1>7, <1>8, <1>9, <1>10 DEF Next, CreateRemediationPR,
     AskedByAgent, AskedOnTheWeb, SubmitPatch, Push, Tick, vars, tables

(* No incident counts as healed without its record, whatever fails between  *)
(* the two statements of RecordLocatorHealing.                              *)
THEOREM HealedIsRecorded == Spec => []HealedHasRecord
<1>1. Init => HealedInv
  BY DEF Init, Idle, HealedInv, HealedHasRecord, Flagged
<1>2. TypeOK /\ HealedInv /\ [Next]_vars => HealedInv'
  BY HealedStep
<1> QED
  BY <1>1, <1>2, TypeCorrect, PTL DEF Spec, HealedInv

-----------------------------------------------------------------------------
(* The links from submissions to pull requests.                             *)
Linked(row) ==
  row.pr # 0 => /\ row.pr \in DOMAIN prs /\ prs[row.pr].file = row.file
                /\ branches[prs[row.pr].branch][row.file] = row.code

RowsLinked == \A n \in DOMAIN patches : Linked(patches[n])

LEMMA LinkedStep ==
  ASSUME IInv, RowsLinked, [Next]_vars
  PROVE  RowsLinked'
<1> DEFINE Row == [inc : Incidents, file : Files, code : Contents, pr : Nat]
<1>0. TypeOK /\ WriterInv /\ Kept
  BY WriterStep DEF IInv
<1>1. patches \in Seq(Row) /\ DOMAIN patches = 1 .. Len(patches)
  BY <1>0 DEF TypeOK
<1>2. \A n \in DOMAIN patches : Linked(patches[n])'
      <=> (patches'[n].pr # 0 =>
             /\ patches'[n].pr \in DOMAIN prs' /\ prs'[patches'[n].pr].file = patches'[n].file
             /\ branches'[prs'[patches'[n].pr].branch][patches'[n].file] = patches'[n].code)
  BY DEF Linked
<1>3. \A n \in DOMAIN patches : patches'[n] = patches[n] => Linked(patches[n])'
  BY <1>0, <1>2 DEF RowsLinked, Linked, Kept
<1>4. ASSUME UNCHANGED patches PROVE RowsLinked'
  BY <1>3, <1>4 DEF RowsLinked
<1>5. ASSUME NEW i \in Incidents, NEW f \in Files, NEW x \in Contents, SubmitPatch(i, f, x)
      PROVE  RowsLinked'
  <2> DEFINE r == [inc |-> i, file |-> f, code |-> x, pr |-> 0]
  <2>1. r \in Row /\ patches' = Append(patches, r) /\ r.pr = 0
    BY <1>5 DEF SubmitPatch
  <2> HIDE DEF r, Row
  <2>2. /\ DOMAIN patches' = (DOMAIN patches) \union {Len(patches) + 1}
        /\ \A n \in DOMAIN patches : patches'[n] = patches[n]
        /\ patches'[Len(patches) + 1] = r
    BY <1>1, <2>1, AppendAt
  <2>3. ASSUME NEW n, n = Len(patches) + 1 PROVE Linked(patches[n])'
    BY <2>1, <2>2, <2>3 DEF Linked
  <2> QED
    BY <1>3, <2>2, <2>3 DEF RowsLinked
<1>6. ASSUME NEW c \in Clients, MarkPatchPR(c) PROVE RowsLinked'
  <2> DEFINE match == Submissions(call[c].inc, call[c].file, call[c].code)
             set(n) == [patches[n] EXCEPT !.pr = call[c].pr]
  <2>1. call[c].pc = "mark" /\ UNCHANGED <<branches, prs>>
    BY <1>6 DEF MarkPatchPR, github
  <2>2. /\ call[c].pr \in DOMAIN prs /\ prs[call[c].pr].file = call[c].file
        /\ branches[prs[call[c].pr].branch][call[c].file] = call[c].code
    BY <1>0, <2>1 DEF WriterInv, Carried
  <2>3. /\ DOMAIN patches' = DOMAIN patches
        /\ \A n \in DOMAIN patches : patches'[n] = patches[n] \/ (n \in match /\ patches'[n] = set(n))
    BY <1>6 DEF MarkPatchPR, LinkLatest
  <2>4. ASSUME NEW n \in DOMAIN patches, n \in match, patches'[n] = set(n)
        PROVE  Linked(patches[n])'
    <3>1. patches[n] \in Row
      <4> HIDE DEF Row
      <4> QED
        BY <1>1, SeqAt
    <3>2. patches[n].file = call[c].file /\ patches[n].code = call[c].code
      BY <2>4 DEF Submissions
    <3>3. /\ patches'[n].pr = call[c].pr /\ patches'[n].file = call[c].file
          /\ patches'[n].code = call[c].code
      BY <2>4, <3>1, <3>2
    <3> QED
      BY <1>2, <2>1, <2>2, <3>3
  <2> QED
    BY <1>3, <2>3, <2>4 DEF RowsLinked
<1> QED
  BY <1>4, <1>5, <1>6 DEF Next, CreateRemediationPR, PatchArguments, Delete,
     RecordHealing, FlagIncident, ReadHead, CreateBranch, ReadFileSHA, PutFile, CreatePR,
     CallFails, AnswerLost, Crash, Push, Tick, vars, tables

(* A submission marked "pr_created" names a pull request that proposes its  *)
(* own code for its own file, whatever other submissions of that incident   *)
(* there are and whichever requests are in flight.                          *)
THEOREM LinksAreTrue == Spec => []LinkedPatchIsProposed
<1>1. Init => RowsLinked
  BY DEF Init, RowsLinked
<1>2. IInv /\ RowsLinked /\ [Next]_vars => RowsLinked'
  BY LinkedStep
<1>3. RowsLinked => LinkedPatchIsProposed
  BY DEF RowsLinked, Linked, LinkedPatchIsProposed, Proposed
<1> QED
  BY <1>1, <1>2, <1>3, Invariant, PTL DEF Spec

-----------------------------------------------------------------------------
(* The refinement.                                                          *)
LEMMA ProposedTypes ==
  ASSUME TypeOK, Settled, NEW p \in DOMAIN prs
  PROVE  Proposed(p) \in [file : Files, content : Contents]
<1>1. prs[p].branch \in Seconds /\ prs[p].file \in Files
  BY BranchOfPR
<1>2. branches[prs[p].branch] \in Trees
  BY <1>1 DEF TypeOK, Settled
<1> QED
  BY <1>1, <1>2 DEF Proposed, Trees

LEMMA PublishStep ==
  ASSUME IInv, [Next]_vars
  PROVE  [Atomic!Next]_Published
<1> DEFINE Change == [file : Files, content : Contents]
           n == Len(prs) + 1
<1>0. TypeOK /\ WriterInv /\ Settled /\ Kept /\ Appears
  BY WriterStep DEF IInv, WriterInv
<1>1. Len(prs) \in Nat /\ DOMAIN prs = 1 .. Len(prs)
  BY <1>0 DEF TypeOK
<1>2. Published = [p \in 1 .. Len(prs) |-> Proposed(p)]
  BY <1>1 DEF Published
<1>3. Published' = [p \in DOMAIN prs' |-> Proposed(p)']
  BY DEF Published
<1>4. \A p \in DOMAIN prs : Proposed(p) \in Change /\ Proposed(p)' = Proposed(p)
  BY <1>0, ProposedTypes DEF Kept, Proposed
<1>5. CASE prs' = prs
  BY <1>1, <1>2, <1>3, <1>4, <1>5
<1>6. ASSUME NEW c \in Clients, Writing(c),
             DOMAIN prs' = (DOMAIN prs) \union {n}, prs'[n].file = call[c].file,
             branches'[prs'[n].branch][call[c].file] = call[c].code
      PROVE  Atomic!Next
  <2> DEFINE e == [file |-> call[c].file, content |-> call[c].code]
  <2>1. call[c].file \in Files /\ call[c].code \in Contents
    BY <1>0, <1>6, Asking
  <2>2. ASSUME NEW p, p = n PROVE Proposed(p)' = e
    BY <1>6, <2>2 DEF Proposed
  <2>3. Published \in Seq(Change) /\ Len(Published) = Len(prs)
    <3> HIDE DEF Change
    <3> QED
      BY <1>1, <1>2, <1>4
  <2>4. DOMAIN prs' = 1 .. n
    BY <1>1, <1>6
  <2>5. \A p \in 1 .. n : Published'[p] = IF p = n THEN e ELSE Published[p]
    <3> SUFFICES ASSUME NEW p \in 1 .. n
                 PROVE  Published'[p] = IF p = n THEN e ELSE Published[p]
      OBVIOUS
    <3>1. Published'[p] = Proposed(p)'
      BY <1>3, <2>4
    <3>2. CASE p = n
      BY <2>2, <3>1, <3>2
    <3>3. CASE p # n
      <4>1. p \in DOMAIN prs /\ p \in 1 .. Len(prs)
        BY <1>1, <3>3
      <4>2. Published[p] = Proposed(p) /\ Proposed(p)' = Proposed(p)
        BY <1>2, <1>4, <4>1
      <4> QED
        BY <3>1, <3>3, <4>2
    <3> QED
      BY <3>2, <3>3
  <2>6. Published' = Append(Published, e)
    <3>1. e \in Change
      BY <2>1
    <3> HIDE DEF e, Change
    <3>2. Append(Published, e) \in Seq(Change)
      BY <2>3, <3>1, AppendAt
    <3>3. /\ Len(Append(Published, e)) = n
          /\ \A p \in 1 .. n : Append(Published, e)[p] = IF p = n THEN e ELSE Published[p]
      <4> HIDE DEF Published
      <4> QED
        BY <1>1, <2>3, <3>1
    <3>4. Append(Published, e) = [p \in 1 .. n |-> Append(Published, e)[p]]
      BY <3>2, <3>3, SeqIsFunction
    <3>5. Published' = [p \in 1 .. n |-> Published'[p]]
      BY <1>3, <2>4
    <3> QED
      BY <2>5, <3>3, <3>4, <3>5
  <2>7. Atomic!Publish(call[c].file, call[c].code)
    BY <2>6 DEF Atomic!Publish
  <2> QED
    BY <2>1, <2>7 DEF Atomic!Next
<1> QED
  BY <1>0, <1>5, <1>6 DEF Appears

(* Six calls look like one: a pull request appears at once, with the file   *)
(* and the contents asked for, and does not change, whatever others do and  *)
(* whichever calls fail or lose their answer.                               *)
THEOREM CallsImplementPublishing == Spec => PublishedAtomically
<1>1. Init => Atomic!Init
  BY DEF Init, Atomic!Init, Published
<1>2. IInv /\ [Next]_vars => [Atomic!Next]_Published
  BY PublishStep
<1> QED
  BY <1>1, <1>2, Invariant, PTL DEF Spec, PublishedAtomically, Atomic!Spec

-----------------------------------------------------------------------------
(* The choice of a locator (LocatorHealing).                                *)

(* A scan that answers names a locator.                                     *)
LEMMA ScanNames ==
  ASSUME NEW orig, orig # NoLocator, NEW page,
         HealLocatorFromHTML(orig, page) # NoAnswer
  PROVE  HealLocatorFromHTML(orig, page).loc # NoLocator
<1>1. \A e : ElementToSelector(e) # NoLocator
  BY DEF ElementToSelector, NoLocator, Loc, NoTag
<1> QED
  BY <1>1 DEF HealLocatorFromHTML, Answer

(* Where the model contributes nothing, each tool takes the scan's answer,  *)
(* and the rules' where the scan has none.                                  *)
Silent(llm, page) ==
  llm # ModelOff /\ (llm \in {ModelFails, NoLocator}
                                \/ (page # NoPage /\ ~LocatorExistsInHTML(page, llm)))

(* heal_incident's chain, where the model contributes nothing.              *)
LEMMA HealFallsBack ==
  ASSUME NEW in, NEW orig, orig # NoLocator, NEW framework,
         Silent(in.llm, PageOf(in))
  PROVE  AILocatorHeal(orig, framework, in)
           = Or(HealLocatorFromHTML(orig, PageOf(in)), SuggestHealedLocator(orig))
  BY DEF AILocatorHeal, Or, AcceptedAnswer, Silent

(* record_healing_intervention's chain, where the model contributes         *)
(* nothing.                                                                 *)
LEMMA DirectFallsBack ==
  ASSUME NEW in, NEW orig, Silent(in.llm, ExtractDOMSnapshotFromLogs(in))
  PROVE  MCPAIHealLocatorDirect(orig, in)
           = Or(HealLocatorFromHTML(orig, ExtractDOMSnapshotFromLogs(in)),
                         SuggestHealedLocator(orig))
  BY DEF MCPAIHealLocatorDirect, Silent

(* Where the model contributes nothing and both tools see the same page,    *)
(* heal_incident proposes what record_healing_intervention stores           *)
(* (ToolsAgree: mcpHealIncident, mcpAIHealLocatorDirect): for any page,     *)
(* test, repository and locator.                                            *)
THEOREM ToolsGiveOneAnswer == CaseSpec => []ToolsAgree
<1>1. ToolsAgree
  <2> DEFINE src == AutoReadTestFile(case)
             orig == Original
             page == PageOf(case)
             scan == HealLocatorFromHTML(orig, page)
             rules == SuggestHealedLocator(orig)
  <2>1. SUFFICES ASSUME IsLocatorFailure(case.msg, src), orig # NoLocator,
                        page = ExtractDOMSnapshotFromLogs(case), Silent(case.llm, page)
                 PROVE  MCPHealIncident(case).loc = RecordedLocator(orig, NoLocator, case)
    BY DEF ToolsAgree, Silent
  <2>2. MCPHealIncident(case) = Or(scan, rules)
    BY <2>1, HealFallsBack DEF MCPHealIncident, Original
  <2>3. MCPAIHealLocatorDirect(orig, case) = Or(scan, rules)
    BY <2>1, DirectFallsBack
  <2>4. RecordedLocator(orig, NoLocator, case)
          = IF Or(scan, rules).loc # NoLocator THEN Or(scan, rules).loc ELSE rules.loc
    BY <2>3 DEF RecordedLocator
  <2>5. scan # NoAnswer => scan.loc # NoLocator
    BY <2>1, ScanNames
  <2> QED
    BY <2>2, <2>4, <2>5 DEF Or
<1> QED
  BY <1>1, PTL

-----------------------------------------------------------------------------
(* A set of numbers has a smallest one, and a bounded one its largest.      *)
LEMMA Smallest ==
  ASSUME NEW T \in SUBSET Nat, T # {}
  PROVE  \E x \in T : \A y \in T : x <= y
<1>1. IsWellFoundedOn(OpToRel(<, Nat), Nat)
  BY NatLessThanWellFounded
<1>2. \E x \in T : \A y \in T : ~ (<<y, x>> \in OpToRel(<, Nat))
  BY <1>1, WFMin
<1>3. \E x \in T : \A y \in T : ~ (y < x)
  BY <1>2 DEF OpToRel
<1> QED
  BY <1>3

(* Max is a member, as CHOOSE finds one.                                    *)
LEMMA MaxIn ==
  ASSUME NEW k \in Nat, NEW S \in SUBSET (1..k), S # {}
  PROVE  Max(S) \in S
<1> DEFINE above == {m \in Nat : \A x \in S : x <= m}
<1>1. above # {}
  <2>1. k \in above
    OBVIOUS
  <2> QED
    BY <2>1
<1>2. PICK m \in above : \A y \in above : m <= y
  BY <1>1, Smallest
<1>3. m \in S
  <2>1. PICK x \in S : TRUE
    OBVIOUS
  <2>2. SUFFICES ASSUME m \notin S PROVE m - 1 \in above
    BY <1>2
  <2>3. \A y \in S : y <= m - 1
    BY <1>2, <2>2
  <2>4. m - 1 \in Nat
    BY <2>1, <2>3
  <2> QED
    BY <2>3, <2>4
<1>4. \E x \in S : \A y \in S : x >= y
  BY <1>2, <1>3
<1> QED
  BY <1>4 DEF Max

Broken(t) ==
  {n \in DOMAIN t : /\ t[n].type \in {"Click", "Fill Text"}
                    /\ LooksLikeBrokenSelector(Resolved(t, t[n].loc))}

(* What is extracted from a test is in one of its keywords.                 *)
LEMMA Extracted ==
  ASSUME NEW t, IsTest(t), NEW loc, loc # NoLocator, ExtractRobotLocator(t) = loc
  PROVE  \E n \in DOMAIN t : t[n].type \in {"Click", "Fill Text"} /\ Resolved(t, t[n].loc) = loc
<1>1. Broken(t) # {} /\ loc = Resolved(t, t[Max(Broken(t))].loc)
  BY DEF ExtractRobotLocator, Broken
<1>2. Max(Broken(t)) \in Broken(t)
  <2>1. PICK k \in Nat : DOMAIN t = 1..k
    BY DEF IsTest
  <2>2. Broken(t) \in SUBSET (1..k)
    BY <2>1 DEF Broken
  <2> QED
    BY <1>1, <2>2, MaxIn
<1> QED
  BY <1>1, <1>2 DEF Broken

(* What the rewriting does to each line.                                    *)
Fixed(t, orig, new, f) ==
  /\ DOMAIN f = DOMAIN t
  /\ \A n \in DOMAIN t :
       /\ f[n].type = t[n].type /\ f[n].name = t[n].name
       /\ Fixes(t, n, orig) => f[n].loc = new /\ "loc" \in DOMAIN f[n]
       /\ ~Fixes(t, n, orig) => f[n] = t[n]
  /\ IsTest(f)

(* ApplyLocatorFixToSource does that, and its result is a test again.       *)
LEMMA Rewritten ==
  ASSUME NEW t, IsTest(t), NEW orig, NEW new, new # NoLocator
  PROVE  Fixed(t, orig, new, ApplyLocatorFixToSource(t, orig, new))
<1> DEFINE f == ApplyLocatorFixToSource(t, orig, new)
<1>1. f = [n \in DOMAIN t |-> IF Fixes(t, n, orig) THEN [t[n] EXCEPT !.loc = new] ELSE t[n]]
  BY DEF ApplyLocatorFixToSource
<1> HIDE DEF f
<1>2. ASSUME NEW n \in DOMAIN t
      PROVE  /\ f[n].type = t[n].type /\ f[n].name = t[n].name
             /\ Fixes(t, n, orig) => f[n].loc = new
             /\ ~Fixes(t, n, orig) => f[n] = t[n]
             /\ {"type", "name", "loc"} \subseteq DOMAIN f[n]
  <2>1. {"type", "name", "loc"} \subseteq DOMAIN t[n]
    BY DEF IsTest
  <2> QED
    BY <1>1, <2>1
<1>3. DOMAIN f = DOMAIN t
  BY <1>1
<1>4. IsTest(f)
  BY <1>2, <1>3 DEF IsTest
<1>5. Fixed(t, orig, new, f)
  BY <1>2, <1>3, <1>4 DEF Fixed
<1> QED
  BY <1>5 DEF f

(* Every name means the same in both tests.                                  *)
SameNames(t, f) == \A target : Resolved(f, target) = Resolved(t, target)

(* Assignments are left as they are, so that every name means what it did.  *)
LEMMA SameMeaning ==
  ASSUME NEW t, IsTest(t), NEW orig, NEW new, NEW f, Fixed(t, orig, new, f)
  PROVE  SameNames(t, f)
<1> SUFFICES ASSUME NEW target PROVE Resolved(f, target) = Resolved(t, target)
  BY DEF SameNames
<1> DEFINE Sets(g) == {n \in DOMAIN g : g[n].type = "var" /\ g[n].name = target.tag}
<1>1. /\ DOMAIN f = DOMAIN t
      /\ \A n \in DOMAIN t : /\ f[n].type = t[n].type /\ f[n].name = t[n].name
                             /\ t[n].type # "Click" => f[n] = t[n]
  BY DEF Fixed, Fixes
<1>2. Sets(f) = Sets(t)
  BY <1>1
<1>3. Sets(t) # {} => Max(Sets(t)) \in Sets(t)
  <2>1. PICK k \in Nat : DOMAIN t = 1..k
    BY DEF IsTest
  <2>2. Sets(t) \in SUBSET (1..k)
    BY <2>1
  <2> QED
    BY <2>2, MaxIn
<1>4. Sets(t) # {} => f[Max(Sets(t))] = t[Max(Sets(t))]
  BY <1>1, <1>3
<1> QED
  BY <1>2, <1>4 DEF Resolved

(* An empty test has no lines.                                              *)
LEMMA NoLines == DOMAIN << >> = {}
  OBVIOUS

(* The terms of ProposalRemovesFailure, for any two tests.                  *)
Rewritable(t, orig) == \A n \in DOMAIN t : t[n].type = "Fill Text" => Resolved(t, t[n].loc) # orig

Changed(t, f) == {n \in DOMAIN f : n \notin DOMAIN t \/ f[n] # t[n]}

Removes(t, orig, f, lines) ==
  /\ ExtractRobotLocator(f) # orig
  /\ Changed(t, f) # {} => lines = Changed(t, f)
  /\ ExtractRobotLocator(t) = orig => Changed(t, f) # {}

(* A fix of a test removes the failure, and is shown where it is.           *)
LEMMA FixRemoves ==
  ASSUME NEW t, IsTest(t), NEW orig, NEW new, NEW f, Fixed(t, orig, new, f), Rewritable(t, orig),
         orig # NoLocator, new \notin {NoLocator, orig}, new.form # "var"
  PROVE  Removes(t, orig, f, BuildFixHighlights(t, f, new))
<1> DEFINE changed == Changed(t, f)
           lines == BuildFixHighlights(t, f, new)
<1>1. /\ DOMAIN f = DOMAIN t /\ IsTest(f)
      /\ \A n \in DOMAIN t : /\ f[n].type = t[n].type /\ f[n].name = t[n].name
                             /\ Fixes(t, n, orig) => f[n].loc = new
                             /\ ~Fixes(t, n, orig) => f[n] = t[n]
  BY DEF Fixed
<1>2. \A target : Resolved(f, target) = Resolved(t, target)
  BY SameMeaning DEF SameNames
<1>3. Resolved(t, new) = new
  BY DEF Resolved
<1>4. \A n \in DOMAIN t : t[n].type = "Click" /\ Resolved(t, t[n].loc) = orig => Fixes(t, n, orig)
  BY DEF Fixes
<1>5. ExtractRobotLocator(f) # orig
  <2> SUFFICES ASSUME ExtractRobotLocator(f) = orig PROVE FALSE
    OBVIOUS
  <2>2. PICK n \in DOMAIN f : f[n].type \in {"Click", "Fill Text"} /\ Resolved(f, f[n].loc) = orig
    BY <1>1, Extracted
  <2>3. CASE Fixes(t, n, orig)
    BY <1>1, <1>2, <1>3, <2>2, <2>3
  <2>4. CASE ~Fixes(t, n, orig)
    BY <1>1, <1>2, <1>4, <2>2, <2>4 DEF Rewritable
  <2> QED
    BY <2>3, <2>4
<1>6. ASSUME changed # {} PROVE lines = changed
  <2>1. changed = {n \in DOMAIN f : f[n].type = "Click" /\ f[n].loc = new /\ (n \notin DOMAIN t \/ t[n] # f[n])}
    BY <1>1 DEF Fixes, Changed
  <2>2. f # NoTest
    <3>1. DOMAIN f # {}
      BY <1>6 DEF Changed
    <3>2. DOMAIN NoTest = {}
      BY NoLines DEF NoTest
    <3> QED
      BY <3>1, <3>2
  <2> QED
    BY <1>6, <2>1, <2>2 DEF BuildFixHighlights
<1>7. ASSUME ExtractRobotLocator(t) = orig PROVE changed # {}
  <2>1. PICK n \in DOMAIN t : t[n].type \in {"Click", "Fill Text"} /\ Resolved(t, t[n].loc) = orig
    BY <1>7, Extracted
  <2>2. Fixes(t, n, orig)
    BY <1>4, <2>1 DEF Rewritable
  <2>3. f[n].loc = new /\ t[n].loc # new
    BY <1>1, <1>3, <2>1, <2>2
  <2>4. f[n] # t[n]
    BY <2>3
  <2> QED
    BY <1>1, <2>4 DEF Changed
<1> QED
  BY <1>5, <1>6, <1>7 DEF Removes

-----------------------------------------------------------------------------
(* What a case hands to the rewriting.                                      *)
TestsRead == IsTest(case.given) /\ IsTest(AutoReadTestFile(case))

(* A missing test is an empty one.                                          *)
LEMMA NoTestIsTest == IsTest(NoTest)
<1>1. Len(<< >>) = 0 /\ DOMAIN << >> = {}
  OBVIOUS
<1> QED
  BY <1>1 DEF IsTest, NoTest

(* Every case reads tests, since those of the cases are.                    *)
LEMMA ReadsTests == CaseSpec => []TestsRead
<1>1. CaseInit => TestsRead
  <2> SUFFICES ASSUME case = NoCase PROVE TestsRead
    BY DEF CaseInit
  <2>1. case.given = NoTest /\ case.repo = << >>
    BY DEF NoCase
  <2>2. AutoReadTestFile(case) = NoTest
    BY <2>1, NoLines DEF AutoReadTestFile, ReadTestFileAtPaths, FindTestSourceInRepo
  <2> QED
    BY <2>1, <2>2, NoTestIsTest DEF TestsRead
<1>2. TestsRead /\ [Arrive]_case => TestsRead'
  BY CasesAssumption DEF TestsRead, Arrive
<1> QED
  BY <1>1, <1>2, PTL DEF CaseSpec

-----------------------------------------------------------------------------
(* A scan repeats the broken locator only if the page has it.               *)
LEMMA ScanRepeats ==
  ASSUME NEW orig, NEW page, NEW a, a = HealLocatorFromHTML(orig, page),
         a # NoAnswer, orig # NoLocator,
         \/ a.loc = orig
         \/ a.loc.val = orig.val /\ {a.loc.form, orig.form} \subseteq {"testid", "qa", "xpath"}
  PROVE  \/ LocatorExistsInHTML(page, orig)
         \/ \E f \in {"testid", "qa"} : LocatorExistsInHTML(page, Loc(f, orig.val))
<1>1. CASE LocatorExistsInHTML(page, orig)
  BY <1>1
<1>2. CASE ~LocatorExistsInHTML(page, orig)
  <2>1. PICK e : /\ a.loc = ElementToSelector(e)
                 /\ a.loc # orig /\ LocatorExistsInHTML(page, a.loc)
    BY <1>2 DEF HealLocatorFromHTML, Answer
  <2>2. a.loc.val = orig.val /\ a.loc.form \in {"testid", "qa", "xpath"}
    BY <2>1
  <2>3. \/ a.loc.form \in {"#", "name", "tag"}
        \/ a.loc \in {Loc("testid", a.loc.val), Loc("qa", a.loc.val)}
    BY <2>1 DEF ElementToSelector, Loc
  <2>4. a.loc \in {Loc("testid", orig.val), Loc("qa", orig.val)}
    BY <2>2, <2>3
  <2> QED
    BY <2>1, <2>4
<1> QED
  BY <1>1, <1>2

(* The rules repeat the broken locator only as a guess.                     *)
LEMMA RulesRepeat ==
  ASSUME NEW orig, NEW a, a = SuggestHealedLocator(orig),
         \/ a.loc = orig
         \/ a.loc.val = orig.val /\ {a.loc.form, orig.form} \subseteq {"testid", "qa", "xpath"}
  PROVE  a.conf <= 30
<1>1. CASE orig.form = "none"
  BY <1>1 DEF SuggestHealedLocator, Answer
<1>2. CASE orig.form = "#"
  BY <1>2 DEF SuggestHealedLocator, Answer, Loc
<1>3. CASE orig.form = "testid"
  BY <1>3 DEF SuggestHealedLocator, Answer
<1>4. CASE orig.form = "class"
  BY <1>4 DEF SuggestHealedLocator, Answer, Loc
<1>5. CASE orig.form \notin {"none", "#", "testid", "class"}
  BY <1>5 DEF SuggestHealedLocator, Answer
<1> QED
  BY <1>1, <1>2, <1>3, <1>4, <1>5

(* The broken locator is its own replacement only if the page has it, or as *)
(* a guess (RepeatsOnlyIfPresent: aiLocatorHeal and its three sources): for *)
(* any page, answer of the model and test.                                  *)
THEOREM RepeatsAreHonest == CaseSpec => []RepeatsOnlyIfPresent
<1>1. RepeatsOnlyIfPresent
  <2> DEFINE orig == Original
             page == PageOf(case)
             a == AILocatorHeal(orig, DetectFramework(case), case)
             Repeats == \/ a.loc = orig
                        \/ /\ a.loc.val = orig.val
                           /\ {a.loc.form, orig.form} \subseteq {"testid", "qa", "xpath"}
             present == \/ LocatorExistsInHTML(page, orig)
                        \/ \E f \in {"testid", "qa"} : LocatorExistsInHTML(page, Loc(f, orig.val))
  <2>1. SUFFICES ASSUME orig # NoLocator, Repeats PROVE a.conf <= 30 \/ present
    BY DEF RepeatsOnlyIfPresent
  <2>2. \/ a = HealLocatorFromHTML(orig, page) /\ a # NoAnswer
        \/ a = SuggestHealedLocator(orig)
        \/ a.loc = case.llm /\ AcceptedAnswer(case.llm, orig, page)
    BY <2>1 DEF AILocatorHeal, Answer
  <2> HIDE DEF orig, page, a
  <2>3. CASE a = HealLocatorFromHTML(orig, page) /\ a # NoAnswer
    BY <2>1, <2>3, ScanRepeats
  <2>4. CASE a = SuggestHealedLocator(orig)
    BY <2>1, <2>4, RulesRepeat
  <2>5. CASE a.loc = case.llm /\ AcceptedAnswer(case.llm, orig, page)
    BY <2>1, <2>5 DEF AcceptedAnswer, IsEquivalentBrokenLocator
  <2> QED
    BY <2>2, <2>3, <2>4, <2>5
<1> QED
  BY <1>1, PTL

-----------------------------------------------------------------------------
(* Both routes propose the test with the one locator replaced, as soon as   *)
(* they know the old locator and the new one.                               *)
LEMMA ProposalsRead ==
  ASSUME NEW p \in HandlePropose(case), TestsRead, p.orig # NoLocator,
         p.answer.loc # NoLocator, p.src # NoTest
  PROVE  /\ IsTest(p.src)
         /\ p.code = ApplyLocatorFixToSource(p.src, p.orig, p.answer.loc)
         /\ p.lines = BuildFixHighlights(p.src, p.code, p.answer.loc)
<1> DEFINE src == IF case.given # NoTest THEN case.given ELSE AutoReadTestFile(case)
<1>1. IsTest(src)
  BY DEF TestsRead
<1>2. p = ProposeLocator(case, src) \/ p \in ProposeScript(case, src)
  BY DEF HandlePropose
<1> HIDE DEF src
<1>3. CASE p = ProposeLocator(case, src)
  BY <1>1, <1>3 DEF ProposeLocator, Proposal
<1>4. CASE p \in ProposeScript(case, src)
  BY <1>1, <1>4 DEF ProposeScript, Proposal, Answer
<1> QED
  BY <1>2, <1>3, <1>4

(* If every file that is read is a test, a proposal removes the failure it  *)
(* was made for and highlights what it changed (ProposalRemovesFailure:     *)
(* handlePropose): for any test, variables, answer and script of the model. *)
THEOREM ProposalsRemove == CaseSpec => []ProposalRemovesFailure
<1>1. TestsRead => ProposalRemovesFailure
  <2> SUFFICES ASSUME TestsRead, NEW p \in HandlePropose(case),
                      p.src # NoTest, p.orig # NoLocator, Rewritable(p.src, p.orig),
                      p.answer.loc \notin {NoLocator, p.orig}, p.answer.loc.form # "var"
               PROVE  Removes(p.src, p.orig, p.code, p.lines)
    BY DEF ProposalRemovesFailure, Rewritable, Removes, Changed
  <2>1. /\ IsTest(p.src)
        /\ p.code = ApplyLocatorFixToSource(p.src, p.orig, p.answer.loc)
        /\ p.lines = BuildFixHighlights(p.src, p.code, p.answer.loc)
    BY ProposalsRead
  <2>2. Fixed(p.src, p.orig, p.answer.loc, p.code)
    BY <2>1, Rewritten
  <2> QED
    BY <2>1, <2>2, FixRemoves
<1> QED
  BY <1>1, ReadsTests, PTL
=============================================================================
