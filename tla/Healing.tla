------------------------------ MODULE Healing ------------------------------
(***************************************************************************)
(* The writing side of self-healing: the tools an agent calls over MCP     *)
(* (submit_healing_patch, create_remediation_pr,                           *)
(* record_healing_intervention), the "pr" route of the web interface, and  *)
(* CreateRemediationPR, which talks to GitHub in six calls.                *)
(*                                                                         *)
(* A step is one SQL statement or one HTTP call.  A POST may be carried    *)
(* out although its answer never arrives (the client waits 90 seconds).    *)
(* GitHub is external: a branch that exists is not created again, and a    *)
(* file is replaced only by a request that names the blob it replaces.     *)
(***************************************************************************)
EXTENDS Naturals, Sequences, FiniteSets

CONSTANTS
  Clients,      \* the requests that may be in flight at once
  Incidents,
  Files, Contents,
  None,         \* no incident, no branch
  MaxNow,       \* bounds the clock, in seconds
  MaxPatches,   \* bounds the submissions
  MaxPushes,    \* bounds what others push to the default branch
  MaxFaults,    \* bounds failing calls and statements, lost answers, crashes
  MaxDeletions  \* bounds the incidents users delete

ASSUME NoneAssumption == None \notin Incidents /\ None \notin [Files -> Contents]
ASSUME BoundsAssumption ==
  {MaxNow, MaxPatches, MaxPushes, MaxFaults, MaxDeletions} \subseteq Nat

VARIABLES
  incidents,  \* table incidents: which ids have a row
  healed,     \* its column mcp_healed
  healings,   \* table locator_healings: the incidents its rows name
  patches,    \* table healing_patch_submissions, in the order of the ids;
              \* pr is 0 while the status is "accepted"
  call,       \* the local variables of each request
  main,       \* GitHub: the tree of the default branch
  branches,   \* GitHub: the tree of branch "qa-capsule/heal-<second>"
  prs,        \* GitHub: the pull requests
  now, pushes, faults, deletions

github == <<main, branches, prs>>
tables == <<incidents, healed, healings, patches>>
bounds == <<now, pushes, faults, deletions>>
vars == <<tables, call, github, bounds>>

Seconds == 0 .. MaxNow
Trees == [Files -> Contents]
Requests == [pc : {"branch", "sha", "put", "pr", "mark"},
             inc : Incidents \union {None}, file : Files, code : Contents,
             head : Trees, branch : Seconds, sha : Contents, pr : Nat]
Flagging == [pc : {"flag"}, inc : Incidents]
Idle == [pc |-> "idle"]

\* The branch a pull request proposes, and what it does to the requested file.
Proposed(p) == [file |-> prs[p].file, content |-> branches[prs[p].branch][prs[p].file]]

Init ==
  /\ incidents = [i \in Incidents |-> TRUE]
  /\ healed = [i \in Incidents |-> FALSE]
  /\ healings = {}
  /\ patches = << >>
  /\ call = [c \in Clients |-> Idle]
  /\ main \in {[f \in Files |-> x] : x \in Contents}
  /\ branches = [s \in Seconds |-> None]
  /\ prs = << >>
  /\ now = 0 /\ pushes = 0 /\ faults = 0 /\ deletions = 0

-----------------------------------------------------------------------------
(* The tables.                                                             *)

\* The tool submit_healing_patch refuses a call without an incident's id, a file
\* or code; the id need not exist.
PatchArguments == Incidents \X Files \X Contents

\* RegisterPatchSubmission: no look at the incident, and no foreign key either.
SubmitPatch(i, f, x) ==
  /\ Len(patches) < MaxPatches
  /\ patches' = Append(patches, [inc |-> i, file |-> f, code |-> x, pr |-> 0])
  /\ UNCHANGED <<incidents, healed, healings, call, github, bounds>>

\* A user deletes an incident; the rows that name it stay.
Delete(i) ==
  /\ deletions < MaxDeletions /\ incidents[i]
  /\ incidents' = [incidents EXCEPT ![i] = FALSE]
  /\ healed' = [healed EXCEPT ![i] = FALSE]
  /\ deletions' = deletions + 1
  /\ UNCHANGED <<healings, patches, call, github, now, pushes, faults>>

\* Mutant of RecordHealing: an error of the INSERT is ignored like one of the UPDATE.
RecordIgnoringErrors(c, i) ==
  /\ call[c] = Idle
  /\ healings' \in {healings, healings \union {i}}
  /\ call' = [call EXCEPT ![c] = [pc |-> "flag", inc |-> i]]
  /\ UNCHANGED <<incidents, healed, patches, github, bounds>>

\* RecordLocatorHealing: the row first, the incident's mark second.
RecordHealing(c, i) ==
  /\ call[c] = Idle
  /\ healings' = healings \union {i}
  /\ call' = [call EXCEPT ![c] = [pc |-> "flag", inc |-> i]]
  /\ UNCHANGED <<incidents, healed, patches, github, bounds>>

\* Mutant of FlagIncident: the request does not end.
FlagAndWait(c) ==
  /\ call[c].pc = "flag"
  /\ healed' = [healed EXCEPT ![call[c].inc] = incidents[call[c].inc]]
  /\ call' = [call EXCEPT ![c].pc = "flagged"]
  /\ UNCHANGED <<incidents, healings, patches, github, bounds>>

FlagIncident(c) ==
  /\ call[c].pc = "flag"
  /\ healed' = [healed EXCEPT ![call[c].inc] = incidents[call[c].inc]]
  /\ call' = [call EXCEPT ![c] = Idle]
  /\ UNCHANGED <<incidents, healings, patches, github, bounds>>

-----------------------------------------------------------------------------
(* CreateRemediationPR, for MCP (inc may be None) and for the web interface *)
(* (inc is None).                                                           *)

\* The MCP tool takes an incident or none, the web interface takes none; both
\* refuse a request without a file or without code.
AskedByAgent == Incidents \union {None}
AskedOnTheWeb == {None}

Goto(c, pc) == call' = [call EXCEPT ![c].pc = pc]
Finish(c) == call' = [call EXCEPT ![c] = Idle]

\* The arguments, then the default branch and its commit: two GETs, of which
\* the first always has the same answer.
ReadHead(c, i, f, x) ==
  /\ call[c] = Idle
  /\ call' = [call EXCEPT ![c] =
                [pc |-> "branch", inc |-> i, file |-> f, code |-> x, head |-> main,
                 branch |-> 0, sha |-> x, pr |-> 0]]
  /\ UNCHANGED <<tables, github, bounds>>

\* What the POST of a reference does: nothing when the branch exists.
BranchCreated(c) ==
  branches' = [branches EXCEPT ![now] = IF @ = None THEN call[c].head ELSE @]

\* Mutant of CreateBranch: a name in use is taken for a branch of one's own.
CreateOrReuseBranch(c) ==
  /\ call[c].pc = "branch"
  /\ BranchCreated(c)
  /\ call' = [call EXCEPT ![c].branch = now, ![c].pc = "sha"]
  /\ UNCHANGED <<tables, main, prs, bounds>>

\* The name is the second of the request; a name in use is an error.
CreateBranch(c) ==
  /\ call[c].pc = "branch"
  /\ BranchCreated(c)
  /\ call' = [call EXCEPT ![c] = IF branches[now] = None
                                 THEN [@ EXCEPT !.branch = now, !.pc = "sha"] ELSE Idle]
  /\ UNCHANGED <<tables, main, prs, bounds>>

\* The blob is looked up on the default branch, which may have moved.
ReadFileSHA(c) ==
  /\ call[c].pc = "sha"
  /\ call' = [call EXCEPT ![c].sha = main[call[c].file], ![c].pc = "put"]
  /\ UNCHANGED <<tables, github, bounds>>

\* What the write of a file does: nothing when it does not name the blob it replaces.
FileIsTheOneRead(c) == branches[call[c].branch][call[c].file] = call[c].sha
FilePut(c) ==
  branches' = IF FileIsTheOneRead(c)
              THEN [branches EXCEPT ![call[c].branch][call[c].file] = call[c].code]
              ELSE branches

\* The code sends POST, which the contents API does not take for a file.  It is
\* carried out here, as by a server that takes it; a refusal is CallFails.
PutFile(c) ==
  /\ call[c].pc = "put"
  /\ FilePut(c)
  /\ IF FileIsTheOneRead(c) THEN Goto(c, "pr") ELSE Finish(c)
  /\ UNCHANGED <<tables, main, prs, bounds>>

PRCreated(c) == prs' = Append(prs, [branch |-> call[c].branch, file |-> call[c].file])

CreatePR(c) ==
  /\ call[c].pc = "pr"
  /\ PRCreated(c)
  /\ call' = [call EXCEPT ![c].pr = Len(prs) + 1, ![c].pc = "mark"]
  /\ UNCHANGED <<tables, main, branches, bounds>>

\* The submissions of the same incident, file and code.
Submissions(i, f, x) ==
  {n \in DOMAIN patches : patches[n].inc = i /\ patches[n].file = f /\ patches[n].code = x}

LinkLatest(match, pr) ==
  patches' = [n \in DOMAIN patches |->
                IF n \in match /\ \A k \in match : k <= n
                THEN [patches[n] EXCEPT !.pr = pr] ELSE patches[n]]

\* Mutant of MarkPatchPR: the code's hash is not compared.
MarkLatestPatch(c) ==
  /\ call[c].pc = "mark"
  /\ LinkLatest(UNION {Submissions(call[c].inc, call[c].file, x) : x \in Contents}, call[c].pr)
  /\ Finish(c)
  /\ UNCHANGED <<incidents, healed, healings, github, bounds>>

\* MarkPatchPR: one statement, the latest submission, and only with an incident.
MarkPatchPR(c) ==
  /\ call[c].pc = "mark"
  /\ LinkLatest(Submissions(call[c].inc, call[c].file, call[c].code), call[c].pr)
  /\ Finish(c)
  /\ UNCHANGED <<incidents, healed, healings, github, bounds>>

-----------------------------------------------------------------------------
(* What goes wrong around it.                                               *)

\* A call or a statement fails and has no effect: the request ends.  (The
\* errors of the last statement of both tools are ignored.)
CallFails(c) ==
  /\ faults < MaxFaults /\ call[c] # Idle
  /\ Finish(c)
  /\ faults' = faults + 1
  /\ UNCHANGED <<tables, github, now, pushes, deletions>>

\* GitHub does what it was asked, but the answer does not arrive.
AnswerLost(c) ==
  /\ faults < MaxFaults
  /\ \/ call[c].pc = "branch" /\ BranchCreated(c) /\ prs' = prs
     \/ call[c].pc = "put" /\ FilePut(c) /\ prs' = prs
     \/ call[c].pc = "pr" /\ PRCreated(c) /\ branches' = branches
  /\ Finish(c)
  /\ faults' = faults + 1
  /\ UNCHANGED <<tables, main, now, pushes, deletions>>

Crash ==
  /\ faults < MaxFaults
  /\ call' = [c \in Clients |-> Idle]
  /\ faults' = faults + 1
  /\ UNCHANGED <<tables, github, now, pushes, deletions>>

\* Others push to the default branch.
Push(f, x) ==
  /\ pushes < MaxPushes
  /\ main' = [main EXCEPT ![f] = x]
  /\ pushes' = pushes + 1
  /\ UNCHANGED <<tables, call, branches, prs, now, faults, deletions>>

Tick ==
  /\ now < MaxNow
  /\ now' = now + 1
  /\ UNCHANGED <<tables, call, github, pushes, faults, deletions>>

CreateRemediationPR(c) ==
  \/ \E i \in AskedByAgent \union AskedOnTheWeb, f \in Files, x \in Contents : ReadHead(c, i, f, x)
  \/ CreateBranch(c) \/ ReadFileSHA(c) \/ PutFile(c) \/ CreatePR(c)
  \/ MarkPatchPR(c)

Next ==
  \/ \E a \in PatchArguments : SubmitPatch(a[1], a[2], a[3])
  \/ \E i \in Incidents : Delete(i)
  \/ \E c \in Clients : \/ CreateRemediationPR(c)
                        \/ \E i \in Incidents : RecordHealing(c, i)
                        \/ FlagIncident(c) \/ CallFails(c) \/ AnswerLost(c)
  \/ \E f \in Files, x \in Contents : Push(f, x)
  \/ Tick \/ Crash

Spec == Init /\ [][Next]_vars

-----------------------------------------------------------------------------
(* Types of the tables, of GitHub's data and of the requests in flight.     *)
TypeOK ==
  /\ incidents \in [Incidents -> BOOLEAN]
  /\ healed \in [Incidents -> BOOLEAN]
  /\ healings \subseteq Incidents
  /\ patches \in Seq([inc : Incidents, file : Files, code : Contents, pr : Nat])
  /\ call \in [Clients -> Requests \union Flagging \union {Idle}]
  /\ main \in Trees
  /\ branches \in [Seconds -> Trees \union {None}]
  /\ prs \in Seq([branch : Seconds, file : Files])
  /\ now \in Seconds /\ pushes \in Nat /\ faults \in Nat /\ deletions \in Nat

\* Six calls look like one: a pull request appears with the contents it was
\* asked for and never changes, whatever other requests do to GitHub
\* (CreateRemediationPR, a branch per second; see RemediationPR).
Published == [p \in DOMAIN prs |-> Proposed(p)]
Atomic == INSTANCE RemediationPR WITH published <- Published
PublishedAtomically == Atomic!Spec

\* No two requests that write have one branch, although both may have asked for
\* its name: githubCreateBranch refuses a name that is taken, and the request
\* that is refused writes nothing.
SoleWriter ==
  \A c, d \in Clients :
    /\ c # d
    /\ call[c].pc \in {"sha", "put", "pr", "mark"}
    /\ call[d].pc \in {"sha", "put", "pr", "mark"}
    => call[c].branch # call[d].branch

\* A submission that says "pr_created" names a pull request that proposes
\* this submission's code for this submission's file (MarkPatchPR's WHERE).
LinkedPatchIsProposed ==
  \A n \in DOMAIN patches :
    LET row == patches[n] IN
    row.pr # 0 => /\ row.pr \in DOMAIN prs
                  /\ Proposed(row.pr) = [file |-> row.file, content |-> row.code]

\* An incident that reports count as healed has the record of the intervention
\* (RecordLocatorHealing: a failure or a crash between its two statements
\* loses the mark, never the record).
HealedHasRecord == \A i \in Incidents : healed[i] => i \in healings
=============================================================================
