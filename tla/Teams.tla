------------------------------- MODULE Teams -------------------------------
(* Teams, memberships and their inheritance: pkg/core/teams_membership.go  *)
(* and pkg/api/server/team_handlers.go.  (The creation of a gateway grants *)
(* its creator a membership in the same way; it is not an action here.)    *)
(*                                                                         *)
(* Every SQL statement is atomic and every handler is a sequence of them,  *)
(* so that the requests of several people interleave between statements.   *)
(* No handler opens a transaction.  Any statement may fail, and the server *)
(* may stop between two; a request whose first statement fails has done    *)
(* nothing, and is left out.  SQLite enforces a FOREIGN KEY only           *)
(* after PRAGMA foreign_keys = ON, which the program never issues: a team  *)
(* that is deleted leaves its sub-teams and memberships behind.          *)
(* The role inside a team (team_role) is shown, never decided upon, and is *)
(* left out.                                                               *)
EXTENDS Integers, FiniteSets

CONSTANTS Users, Nobody,
          Sessions,        \* requests that may be in progress at once
          TreeAdmins,      \* the sessions that create and delete teams
          Movers,          \* the sessions that move teams
          MemberAdmins,    \* the sessions that assign and remove members
          MaxTeams,        \* bound: teams ever created
          MaxFaults,       \* bound: statements that fail, and stops of the server
          MaxRequests      \* bound: requests, beside those that create a team

ASSUME SessionsAssumption == TreeAdmins \cup Movers \cup MemberAdmins \subseteq Sessions
ASSUME MaxTeamsAssumption == MaxTeams \in Nat \ {0}
ASSUME BoundsAssumption == MaxFaults \in Nat /\ MaxRequests \in Nat

Root == 1
Direct == 0          \* inherited_from IS NULL
NoTeam == 0          \* parent_id IS NULL
TeamIds == 1..MaxTeams

VARIABLES lastTeam,   \* sqlite_sequence: an id is never used twice
          parent,     \* the table teams: the parent of each team there is
          userTeams,  \* the table user_teams: inherited_from of each row
          optouts,    \* the table user_team_inheritance_optouts
          req,        \* the request each session is in the middle of
          faults, requests,   \* counted against the bounds
          suspect,    \* auxiliary: the teams moved on an answer that did not hold
          astray      \* auxiliary: the rows an opt-out has come too late for

vars == <<lastTeam, parent, userTeams, optouts, req, faults, requests, suspect, astray>>
tree == <<lastTeam, parent, suspect>>
members == <<userTeams, optouts, astray>>

(* The local variables of a request.  Two are auxiliary: the teams the     *)
(* walk up has passed, and the questions ("climb", "optout", "direct") of  *)
(* which the request has no answer, or one that no longer holds.           *)
Idle == [op |-> "idle", user |-> Nobody, team |-> NoTeam, to |-> NoTeam, from |-> Direct,
         at |-> NoTeam, todo |-> {}, passed |-> {}, late |-> {}]
Do(s, r) == req' = [req EXCEPT ![s] = r]

(* The same, which makes the sessions of a set late with a question.       *)
DoBefore(s, r, q, sessions) ==
  req' = [x \in Sessions |-> IF x = s THEN r
                             ELSE IF x \in sessions THEN [req[x] EXCEPT !.late = @ \cup {q}]
                             ELSE req[x]]
Done(s) == Do(s, Idle)
Step(s, ops) == req[s].op \in ops

bounds == <<faults, requests>>
Begins == requests < MaxRequests /\ requests' = requests + 1 /\ UNCHANGED faults
Works == UNCHANGED bounds
Fails == faults < MaxFaults /\ faults' = faults + 1 /\ UNCHANGED requests

Rows == DOMAIN userTeams
Row(s) == <<req[s].user, req[s].team>>
RowAt(s) == <<req[s].user, req[s].at>>
Put(k, from) == userTeams' = [x \in Rows \cup {k} |-> IF x = k THEN from ELSE userTeams[x]]
Drop(ks) == userTeams' = [x \in Rows \ ks |-> userTeams[x]]

(* children and walk: the children of t, and of whatever is below t, in    *)
(* the rows p of the moment, and nothing else.                             *)
ClosedUnder(p, t, S) == \A c \in DOMAIN p : p[c] = t \/ p[c] \in S => c \in S
Below(p, t) == {c \in DOMAIN p : \A S \in SUBSET DOMAIN p : ClosedUnder(p, t, S) => c \in S}
Descendants(t) == Below(parent, t)

Init == /\ lastTeam = Root
        /\ parent = [t \in {Root} |-> NoTeam]
        /\ userTeams = [k \in {} |-> Direct]
        /\ optouts = {}
        /\ req = [s \in Sessions |-> Idle]
        /\ faults = 0 /\ requests = 0
        /\ suspect = {}
        /\ astray = {}

-----------------------------------------------------------------------------
(* /api/teams.  The parent a request names is one its sender has seen: it  *)
(* may have been deleted since, and POST does not look.                    *)
CreateTeam(s, p) ==
  /\ Step(s, {"idle"}) /\ lastTeam < MaxTeams
  /\ lastTeam' = lastTeam + 1
  /\ parent' = [t \in DOMAIN parent \cup {lastTeam'} |-> IF t = lastTeam' THEN p ELSE parent[t]]
  /\ UNCHANGED <<members, req, bounds, suspect>>

SetParent(t, p) == parent' = [x \in DOMAIN parent |-> IF x = t THEN p ELSE parent[x]]

MoveTeam(s, t, p) ==
  /\ Step(s, {"idle"}) /\ Begins /\ t # Root /\ t # p
  /\ IF p = NoTeam
     THEN SetParent(t, p) /\ suspect' = suspect \ {t} /\ UNCHANGED req
     ELSE /\ Do(s, [Idle EXCEPT !.op = "climb", !.team = t, !.to = p, !.at = p])
          /\ UNCHANGED <<parent, suspect>>
  /\ UNCHANGED <<lastTeam, members>>

\* Mutant of Climb: the walk ends at the new parent.
ClimbNot(s) ==
  /\ Step(s, {"climb"})
  /\ IF req[s].at = req[s].team THEN Done(s) ELSE Do(s, [req[s] EXCEPT !.op = "exists"])
  /\ UNCHANGED <<tree, members, bounds>>

(* isTeamDescendant: one SELECT for every level above the new parent.  An  *)
(* error ends the walk as the top of the tree does.                        *)
Climb(s) ==
  /\ Step(s, {"climb"})
  /\ \/ req[s].at = req[s].team /\ Done(s) /\ Works
     \/ /\ req[s].at # req[s].team /\ Works
        /\ LET up == IF req[s].at \in DOMAIN parent THEN parent[req[s].at] ELSE NoTeam
               passed == req[s].passed \cup {req[s].at}
           IN  IF up = NoTeam THEN Do(s, [req[s] EXCEPT !.op = "exists", !.passed = passed])
                              ELSE Do(s, [req[s] EXCEPT !.at = up, !.passed = passed])
     \/ /\ req[s].at # req[s].team /\ Fails
        /\ Do(s, [req[s] EXCEPT !.op = "exists", !.late = {"climb"}])
  /\ UNCHANGED <<tree, members>>

ParentExists(s) ==
  /\ Step(s, {"exists"})
  /\ \/ req[s].to \in DOMAIN parent    /\ Works /\ Do(s, [req[s] EXCEPT !.op = "move"])
     \/ req[s].to \notin DOMAIN parent /\ Works /\ Done(s)
     \/ Fails /\ Done(s)
  /\ UNCHANGED <<tree, members>>

(* The moves that have passed a team and rely on what they found.          *)
Relying(t) == {x \in Sessions : Step(x, {"climb", "exists", "move"}) /\ t \in req[x].passed}

FinishMove(s) ==
  /\ Step(s, {"move"})
  /\ \/ /\ Works /\ SetParent(req[s].team, req[s].to)
        /\ suspect' = IF "climb" \in req[s].late THEN suspect \cup {req[s].team}
                                                ELSE suspect \ {req[s].team}
        /\ DoBefore(s, Idle, "climb", Relying(req[s].team))
     \/ Fails /\ Done(s) /\ UNCHANGED <<parent, suspect>>
  /\ UNCHANGED <<lastTeam, members>>

DeleteTeam(s, t) ==
  /\ Step(s, {"idle"}) /\ Begins /\ t # Root
  /\ parent' = [x \in DOMAIN parent \ {t} |-> parent[x]]
  /\ UNCHANGED <<lastTeam, members, req, suspect>>

-----------------------------------------------------------------------------
(* AssignUserToTeamWithInheritance.  A member by inheritance stays one:    *)
(* the UPDATE of EnsureUserTeamMembership changes no row that is inherited *)
(* and only the role of one that is not.  (A COUNT that fails counts 0: an *)
(* INSERT follows, and fails where the row is there.)                      *)
AssignUserToTeam(s, u, t) ==
  /\ Step(s, {"idle"}) /\ Begins
  /\ Do(s, [Idle EXCEPT !.op = IF <<u, t>> \in Rows THEN "rerole" ELSE "ensure", !.user = u, !.team = t])
  /\ UNCHANGED <<tree, members>>

(* The propagations that have asked whether a row is direct.               *)
Writing(k) == {x \in Sessions : Step(x, {"inherit", "update", "insert"}) /\ RowAt(x) = k}

EnsureUserTeamMembership(s) ==
  /\ Step(s, {"ensure", "rerole"})
  /\ LET next == [req[s] EXCEPT !.op = "descend"]
     IN  \/ req[s].op = "rerole" /\ Works /\ Do(s, next) /\ UNCHANGED <<userTeams, astray>>
         \/ /\ req[s].op = "ensure" /\ Row(s) \notin Rows /\ Works
            /\ Put(Row(s), Direct) /\ astray' = astray \ {Row(s)}
            /\ DoBefore(s, next, "direct", Writing(Row(s)))
         \/ /\ req[s].op = "ensure" /\ Row(s) \in Rows /\ Works
            /\ Done(s) /\ UNCHANGED <<userTeams, astray>>
         \/ Fails /\ Done(s) /\ UNCHANGED <<userTeams, astray>>
  /\ UNCHANGED <<tree, optouts>>

(* PropagateMembershipToDescendants: the descendants are read once; then   *)
(* three questions and a write for each.  Over a loop the walk never ends. *)
Descend(s) ==
  /\ Step(s, {"descend"})
  /\ \/ /\ req[s].team \notin Descendants(req[s].team) /\ Works
        /\ Do(s, [req[s] EXCEPT !.op = "next", !.todo = Descendants(req[s].team)])
     \/ Fails /\ Done(s)
  /\ UNCHANGED <<tree, members>>

OptedOut(s, d) == <<req[s].user, d, req[s].team>> \in optouts

\* Mutant of NextDescendant: opt-outs are not asked for.
NextWithoutOptOut(s) ==
  /\ Step(s, {"next"})
  /\ \/ req[s].todo = {} /\ Done(s)
     \/ \E d \in req[s].todo : Do(s, [req[s] EXCEPT !.op = "direct", !.todo = @ \ {d}, !.at = d])
  /\ UNCHANGED <<tree, members, bounds>>

(* An error of the opt-out's COUNT is ignored: there is none.              *)
NextDescendant(s) ==
  /\ Step(s, {"next"})
  /\ \/ req[s].todo = {} /\ Works /\ Done(s)
     \/ \E d \in req[s].todo :
          LET rest == [req[s] EXCEPT !.todo = @ \ {d}]
              ask  == [rest EXCEPT !.op = "direct", !.at = d]
          IN  \/ OptedOut(s, d)  /\ Works /\ Do(s, rest)
              \/ ~OptedOut(s, d) /\ Works /\ Do(s, ask)
              \/ Fails /\ Do(s, [ask EXCEPT !.late = {"optout"}])
  /\ UNCHANGED <<tree, members>>

HasDirect(s) == RowAt(s) \in Rows /\ userTeams[RowAt(s)] = Direct
Onward(s) == [req[s] EXCEPT !.op = "next", !.at = NoTeam, !.late = {}]

\* Mutant of CheckDirect: the question whether the membership is direct is
\* left out.
CheckDirectNot(s) ==
  /\ Step(s, {"direct"})
  /\ Do(s, [req[s] EXCEPT !.op = "inherit"])
  /\ UNCHANGED <<tree, members, bounds>>

(* An error of this COUNT too is ignored: the membership is not direct.    *)
CheckDirect(s) ==
  /\ Step(s, {"direct"})
  /\ \/ HasDirect(s)  /\ Works /\ Do(s, Onward(s))
     \/ ~HasDirect(s) /\ Works /\ Do(s, [req[s] EXCEPT !.op = "inherit"])
     \/ Fails /\ Do(s, [req[s] EXCEPT !.op = "inherit", !.late = @ \cup {"direct"}])
  /\ UNCHANGED <<tree, members>>

(* COUNT (0 when it fails) and UPDATE or INSERT.  An UPDATE of a row that  *)
(* has gone changes nothing and an INSERT of one that is there fails: both *)
(* are logged only, as is an error.                                        *)
CheckExists(s) ==
  /\ Step(s, {"inherit"})
  /\ \/ RowAt(s) \in Rows    /\ Works /\ Do(s, [req[s] EXCEPT !.op = "update"])
     \/ RowAt(s) \notin Rows /\ Works /\ Do(s, [req[s] EXCEPT !.op = "insert"])
     \/ Fails /\ Do(s, [req[s] EXCEPT !.op = "insert"])
  /\ UNCHANGED <<tree, members>>

Inherit(s) ==
  /\ Step(s, {"update", "insert"})
  /\ Do(s, Onward(s))
  /\ LET fits == (req[s].op = "update") = (RowAt(s) \in Rows)
     IN  \/ /\ fits /\ Works /\ Put(RowAt(s), req[s].team)
            /\ astray' = IF "optout" \in req[s].late THEN astray \cup {RowAt(s)}
                                                     ELSE astray \ {RowAt(s)}
         \/ ~fits /\ Works /\ UNCHANGED <<userTeams, astray>>
         \/ Fails /\ UNCHANGED <<userTeams, astray>>
  /\ UNCHANGED <<tree, optouts>>

-----------------------------------------------------------------------------
(* RemoveUserFromTeam.  The errors of the opt-out, of the cascade, of the  *)
(* second reading of the tree and of each reopening are ignored.           *)
RemoveUserFromTeam(s, u, t) ==
  /\ Step(s, {"idle"}) /\ Begins /\ <<u, t>> \in Rows
  /\ LET from == userTeams[<<u, t>>]
     IN  Do(s, [Idle EXCEPT !.op = IF from = Direct THEN "remove" ELSE "optout",
                            !.user = u, !.team = t, !.from = from])
  /\ UNCHANGED <<tree, members>>

(* The propagations that have asked for an opt-out.                        *)
Asking(o) == {x \in Sessions : /\ Step(x, {"direct", "inherit", "update", "insert"})
                               /\ <<req[x].user, req[x].at, req[x].team>> = o}

OptOut(s) ==
  /\ Step(s, {"optout"})
  /\ LET o == <<req[s].user, req[s].team, req[s].from>>
         next == [req[s] EXCEPT !.op = "leave"]
     IN  \/ /\ Works /\ optouts' = optouts \cup {o}
            /\ astray' = astray \cup ({Row(s)} \cap Rows)
            /\ DoBefore(s, next, "optout", Asking(o))
         \/ Fails /\ Do(s, next) /\ UNCHANGED <<optouts, astray>>
  /\ UNCHANGED <<tree, userTeams>>

Leave(s) ==
  /\ Step(s, {"leave", "remove"})
  /\ \/ /\ Works /\ Drop({Row(s)}) /\ astray' = astray \ {Row(s)}
        /\ IF req[s].op = "leave" THEN Done(s) ELSE Do(s, [req[s] EXCEPT !.op = "cascade"])
     \/ Fails /\ Done(s) /\ UNCHANGED <<userTeams, astray>>
  /\ UNCHANGED <<tree, optouts>>

InheritedFrom(u, t) == {k \in Rows : k[1] = u /\ userTeams[k] = t}

Cascade(s) ==
  /\ Step(s, {"cascade"})
  /\ \/ /\ Works /\ Drop(InheritedFrom(req[s].user, req[s].team))
        /\ astray' = astray \ InheritedFrom(req[s].user, req[s].team)
     \/ Fails /\ UNCHANGED <<userTeams, astray>>
  /\ Do(s, [req[s] EXCEPT !.op = "reopen"])
  /\ UNCHANGED <<tree, optouts>>

ReadOptOuts(s) ==
  /\ Step(s, {"reopen"})
  /\ \/ /\ req[s].team \notin Descendants(req[s].team) /\ Works
        /\ Do(s, [req[s] EXCEPT !.op = "forget", !.todo = Descendants(req[s].team)])
     \/ Fails /\ Done(s)
  /\ UNCHANGED <<tree, members>>

ForgetOptOut(s) ==
  /\ Step(s, {"forget"})
  /\ \/ req[s].todo = {} /\ Works /\ Done(s) /\ UNCHANGED optouts
     \/ \E d \in req[s].todo :
          /\ \/ Works /\ optouts' = optouts \ {<<req[s].user, d, req[s].team>>}
             \/ Fails /\ UNCHANGED optouts
          /\ Do(s, [req[s] EXCEPT !.todo = @ \ {d}])
  /\ UNCHANGED <<tree, userTeams, astray>>

(* /api/user-teams: one statement each; a POST on an existing row changes  *)
(* its role only, a DELETE leaves neither opt-out nor cascade.             *)
UpsertUserTeam(s, u, t) ==
  /\ Step(s, {"idle"}) /\ Begins /\ <<u, t>> \notin Rows
  /\ Put(<<u, t>>, Direct) /\ astray' = astray \ {<<u, t>>}
  /\ DoBefore(s, Idle, "direct", Writing(<<u, t>>))
  /\ UNCHANGED <<tree, optouts>>

DeleteUserTeam(s, u, t) ==
  /\ Step(s, {"idle"}) /\ Begins
  /\ Drop({<<u, t>>}) /\ astray' = astray \ {<<u, t>>}
  /\ UNCHANGED <<tree, optouts, req>>

(* The server stops, and starts again with the tables it has.              *)
Crash == /\ Fails /\ req' = [s \in Sessions |-> Idle]
         /\ UNCHANGED <<tree, members>>

-----------------------------------------------------------------------------
Seen == 1..lastTeam

TreeStep(s) ==
  \/ \E p \in Seen \cup {NoTeam} : CreateTeam(s, p)
  \/ \E t \in DOMAIN parent : DeleteTeam(s, t)

MoveStep(s) == \E t \in Seen, p \in Seen \cup {NoTeam} : MoveTeam(s, t, p)

MemberStep(s) ==
  \E u \in Users, t \in Seen :
     \/ AssignUserToTeam(s, u, t) \/ RemoveUserFromTeam(s, u, t)
     \/ UpsertUserTeam(s, u, t)   \/ DeleteUserTeam(s, u, t)

Next ==
  \/ \E s \in TreeAdmins : TreeStep(s)
  \/ \E s \in Movers : MoveStep(s)
  \/ \E s \in MemberAdmins : MemberStep(s)
  \/ Crash
  \/ \E s \in Sessions :
       \/ Climb(s) \/ ParentExists(s) \/ FinishMove(s)
       \/ EnsureUserTeamMembership(s) \/ Descend(s) \/ NextDescendant(s)
       \/ CheckDirect(s) \/ CheckExists(s) \/ Inherit(s)
       \/ OptOut(s) \/ Leave(s) \/ Cascade(s) \/ ReadOptOuts(s) \/ ForgetOptOut(s)

Spec == Init /\ [][Next]_vars

-----------------------------------------------------------------------------
(* Properties.                                                             *)

(* A loop (GetDescendantTeamIDs recurses on it until the process dies, and *)
(* isTeamDescendant need not answer) goes through a team that was moved    *)
(* on a walk that broke off with an error, or past a team that another     *)
(* move has put elsewhere since: the other moves, and whatever is created, *)
(* deleted or made a root between a move's statements, make none.          *)
Trusted == [t \in DOMAIN parent \ suspect |-> parent[t]]
LoopsAreOvertaken == \A t \in DOMAIN Trusted : t \notin Below(Trusted, t)

(* A member whose opt-out is recorded does not get back in by inheritance  *)
(* from the same team, however the tree is rearranged and however many     *)
(* assignments run, until the direct membership that is inherited ends: an *)
(* opt-out and a row that it forbids meet only where the removal stopped   *)
(* half way, or where the propagation's question about the opt-out failed  *)
(* or was put before the opt-out was there.                                *)
OptOutHonoured ==
  \A o \in optouts : LET k == <<o[1], o[2]>> IN k \in Rows /\ userTeams[k] = o[3] => k \in astray

(* A direct membership is turned into an inherited one, which goes with    *)
(* the team it is inherited from, by one thing only: a propagation whose   *)
(* question about that membership failed, or was put before it was there.  *)
DirectKept ==
  [][\A k \in Rows : userTeams[k] = Direct =>
       \/ k \notin Rows' \/ userTeams'[k] = Direct
       \/ \E s \in Sessions : Step(s, {"update"}) /\ RowAt(s) = k /\ "direct" \in req[s].late]_vars
=============================================================================
