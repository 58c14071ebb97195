---------------------------- MODULE Teams_proofs ----------------------------
(* Inherited and direct memberships, and the tree, for any number of users, *)
(* teams and sessions, any of which may move teams and assign and remove    *)
(* members, whatever statements fail and whenever the server stops.         *)
EXTENDS Teams, TLAPS

(* A request has all its local variables at each of its statements.         *)
Req(op, user, team, to, from, at, todo, passed, late) ==
  [op |-> op, user |-> user, team |-> team, to |-> to, from |-> from,
   at |-> at, todo |-> todo, passed |-> passed, late |-> late]
Formed(r) == r = Req(r.op, r.user, r.team, r.to, r.from, r.at, r.todo, r.passed, r.late)
Shaped == DOMAIN req = Sessions /\ \A s \in Sessions : Formed(req[s])

(* What a request has found out and is not late with is still true of the   *)
(* memberships ut and the opt-outs out.                                     *)
Checked(r, ut, out) ==
  /\ r.op \in {"direct", "inherit", "update", "insert"} /\ "optout" \notin r.late =>
       <<r.user, r.at, r.team>> \notin out
  /\ r.op \in {"inherit", "update", "insert"} /\ "direct" \notin r.late /\ <<r.user, r.at>> \in DOMAIN ut =>
       ut[<<r.user, r.at>>] # Direct
  /\ r.op = "optout" => r.from # Direct
  /\ r.op \in {"ensure", "rerole", "descend", "next", "direct", "inherit", "update", "insert"} =>
       r.team # Direct
AllChecked == \A s \in Sessions : Checked(req[s], userTeams, optouts)

(* What is opted out of is inherited.                                       *)
OptOutsInherited == \A o \in optouts : o = <<o[1], o[2], o[3]>> /\ o[3] # Direct

MoveOps == {"climb", "exists", "move"}

MembersInv == Shaped /\ AllChecked /\ OptOutsInherited

(* A row's parent is a team there has been: an id is never used twice.      *)
Ids == /\ lastTeam \in Nat \ {0}
       /\ DOMAIN parent \subseteq 1..lastTeam
       /\ \A t \in DOMAIN parent : parent[t] \in 0..lastTeam

-----------------------------------------------------------------------------
(* A request that waits while another makes a step is where it was, and may *)
(* be late with one more answer.                                            *)
Later(r, q) == /\ Formed(q) /\ r.late \subseteq q.late
               /\ q.op = r.op /\ q.user = r.user /\ q.team = r.team /\ q.to = r.to
               /\ q.from = r.from /\ q.at = r.at /\ q.todo = r.todo /\ q.passed = r.passed

LEMMA IdleFormed == Formed(Idle) /\ Idle.op = "idle"
  BY DEF Formed, Req, Idle

LEMMA ReqFormed ==
  ASSUME NEW a, NEW b, NEW c, NEW d, NEW e, NEW f, NEW g, NEW h, NEW i, NEW r,
         r = Req(a, b, c, d, e, f, g, h, i)
  PROVE  /\ Formed(r) /\ r.op = a /\ r.user = b /\ r.team = c /\ r.to = d /\ r.from = e
         /\ r.at = f /\ r.todo = g /\ r.passed = h /\ r.late = i
  BY DEF Formed, Req

(* What a statement leaves in the local variables, written out.             *)
LEMMA SetOp ==
  ASSUME NEW r, Formed(r), NEW v
  PROVE  [r EXCEPT !.op = v]
           = Req(v, r.user, r.team, r.to, r.from, r.at, r.todo, r.passed, r.late)
  BY DEF Formed, Req

LEMMA SetTodo ==
  ASSUME NEW r, Formed(r), NEW v
  PROVE  [r EXCEPT !.todo = v]
           = Req(r.op, r.user, r.team, r.to, r.from, r.at, v, r.passed, r.late)
  BY DEF Formed, Req

LEMMA SetLate ==
  ASSUME NEW r, Formed(r), NEW v
  PROVE  [r EXCEPT !.late = v]
           = Req(r.op, r.user, r.team, r.to, r.from, r.at, r.todo, r.passed, v)
  BY DEF Formed, Req

LEMMA SetOpPassed ==
  ASSUME NEW r, Formed(r), NEW v, NEW w
  PROVE  [r EXCEPT !.op = v, !.passed = w]
           = Req(v, r.user, r.team, r.to, r.from, r.at, r.todo, w, r.late)
<1>1. PICK r0 : r0 = [r EXCEPT !.op = v]
  OBVIOUS
<1>2. r0 = Req(v, r.user, r.team, r.to, r.from, r.at, r.todo, r.passed, r.late)
  BY <1>1 DEF Formed, Req
<1>3. [r0 EXCEPT !.passed = w] = Req(v, r.user, r.team, r.to, r.from, r.at, r.todo, w, r.late)
  BY <1>2 DEF Formed, Req
<1> QED
  BY <1>1, <1>3, Zenon

LEMMA SetAtPassed ==
  ASSUME NEW r, Formed(r), NEW v, NEW w
  PROVE  [r EXCEPT !.at = v, !.passed = w]
           = Req(r.op, r.user, r.team, r.to, r.from, v, r.todo, w, r.late)
<1>1. PICK r0 : r0 = [r EXCEPT !.at = v]
  OBVIOUS
<1>2. r0 = Req(r.op, r.user, r.team, r.to, r.from, v, r.todo, r.passed, r.late)
  BY <1>1 DEF Formed, Req
<1>3. [r0 EXCEPT !.passed = w] = Req(r.op, r.user, r.team, r.to, r.from, v, r.todo, w, r.late)
  BY <1>2 DEF Formed, Req
<1> QED
  BY <1>1, <1>3, Zenon

LEMMA SetOpLate ==
  ASSUME NEW r, Formed(r), NEW v, NEW w
  PROVE  [r EXCEPT !.op = v, !.late = w]
           = Req(v, r.user, r.team, r.to, r.from, r.at, r.todo, r.passed, w)
<1>1. PICK r0 : r0 = [r EXCEPT !.op = v]
  OBVIOUS
<1>2. r0 = Req(v, r.user, r.team, r.to, r.from, r.at, r.todo, r.passed, r.late)
  BY <1>1 DEF Formed, Req
<1>3. [r0 EXCEPT !.late = w] = Req(v, r.user, r.team, r.to, r.from, r.at, r.todo, r.passed, w)
  BY <1>2 DEF Formed, Req
<1> QED
  BY <1>1, <1>3, Zenon

LEMMA SetOpTodo ==
  ASSUME NEW r, Formed(r), NEW v, NEW w
  PROVE  [r EXCEPT !.op = v, !.todo = w]
           = Req(v, r.user, r.team, r.to, r.from, r.at, w, r.passed, r.late)
<1>1. PICK r0 : r0 = [r EXCEPT !.op = v]
  OBVIOUS
<1>2. r0 = Req(v, r.user, r.team, r.to, r.from, r.at, r.todo, r.passed, r.late)
  BY <1>1 DEF Formed, Req
<1>3. [r0 EXCEPT !.todo = w] = Req(v, r.user, r.team, r.to, r.from, r.at, w, r.passed, r.late)
  BY <1>2 DEF Formed, Req
<1> QED
  BY <1>1, <1>3, Zenon

LEMMA SetOpAt ==
  ASSUME NEW r, Formed(r), NEW v, NEW w
  PROVE  [r EXCEPT !.op = v, !.at = w]
           = Req(v, r.user, r.team, r.to, r.from, w, r.todo, r.passed, r.late)
<1>1. PICK r0 : r0 = [r EXCEPT !.op = v]
  OBVIOUS
<1>2. r0 = Req(v, r.user, r.team, r.to, r.from, r.at, r.todo, r.passed, r.late)
  BY <1>1 DEF Formed, Req
<1>3. [r0 EXCEPT !.at = w] = Req(v, r.user, r.team, r.to, r.from, w, r.todo, r.passed, r.late)
  BY <1>2 DEF Formed, Req
<1> QED
  BY <1>1, <1>3, Zenon

LEMMA SetOpTeamToAt ==
  ASSUME NEW r, Formed(r), NEW v, NEW w, NEW x, NEW y
  PROVE  [r EXCEPT !.op = v, !.team = w, !.to = x, !.at = y]
           = Req(v, r.user, w, x, r.from, y, r.todo, r.passed, r.late)
<1>1. PICK r0 : r0 = [r EXCEPT !.op = v]
  OBVIOUS
<1>2. r0 = Req(v, r.user, r.team, r.to, r.from, r.at, r.todo, r.passed, r.late)
  BY <1>1 DEF Formed, Req
<1>3. PICK r1 : r1 = [r0 EXCEPT !.team = w]
  OBVIOUS
<1>4. r1 = Req(v, r.user, w, r.to, r.from, r.at, r.todo, r.passed, r.late)
  BY <1>2, <1>3 DEF Formed, Req
<1>5. PICK r2 : r2 = [r1 EXCEPT !.to = x]
  OBVIOUS
<1>6. r2 = Req(v, r.user, w, x, r.from, r.at, r.todo, r.passed, r.late)
  BY <1>4, <1>5 DEF Formed, Req
<1>7. [r2 EXCEPT !.at = y] = Req(v, r.user, w, x, r.from, y, r.todo, r.passed, r.late)
  BY <1>6 DEF Formed, Req
<1> QED
  BY <1>1, <1>3, <1>5, <1>7, Zenon

LEMMA SetOpUserTeam ==
  ASSUME NEW r, Formed(r), NEW v, NEW w, NEW x
  PROVE  [r EXCEPT !.op = v, !.user = w, !.team = x]
           = Req(v, w, x, r.to, r.from, r.at, r.todo, r.passed, r.late)
<1>1. PICK r0 : r0 = [r EXCEPT !.op = v]
  OBVIOUS
<1>2. r0 = Req(v, r.user, r.team, r.to, r.from, r.at, r.todo, r.passed, r.late)
  BY <1>1 DEF Formed, Req
<1>3. PICK r1 : r1 = [r0 EXCEPT !.user = w]
  OBVIOUS
<1>4. r1 = Req(v, w, r.team, r.to, r.from, r.at, r.todo, r.passed, r.late)
  BY <1>2, <1>3 DEF Formed, Req
<1>5. [r1 EXCEPT !.team = x] = Req(v, w, x, r.to, r.from, r.at, r.todo, r.passed, r.late)
  BY <1>4 DEF Formed, Req
<1> QED
  BY <1>1, <1>3, <1>5, Zenon

LEMMA SetOpUserTeamFrom ==
  ASSUME NEW r, Formed(r), NEW v, NEW w, NEW x, NEW y
  PROVE  [r EXCEPT !.op = v, !.user = w, !.team = x, !.from = y]
           = Req(v, w, x, r.to, y, r.at, r.todo, r.passed, r.late)
<1>1. PICK r0 : r0 = [r EXCEPT !.op = v]
  OBVIOUS
<1>2. r0 = Req(v, r.user, r.team, r.to, r.from, r.at, r.todo, r.passed, r.late)
  BY <1>1 DEF Formed, Req
<1>3. PICK r1 : r1 = [r0 EXCEPT !.user = w]
  OBVIOUS
<1>4. r1 = Req(v, w, r.team, r.to, r.from, r.at, r.todo, r.passed, r.late)
  BY <1>2, <1>3 DEF Formed, Req
<1>5. PICK r2 : r2 = [r1 EXCEPT !.team = x]
  OBVIOUS
<1>6. r2 = Req(v, w, x, r.to, r.from, r.at, r.todo, r.passed, r.late)
  BY <1>4, <1>5 DEF Formed, Req
<1>7. [r2 EXCEPT !.from = y] = Req(v, w, x, r.to, y, r.at, r.todo, r.passed, r.late)
  BY <1>6 DEF Formed, Req
<1> QED
  BY <1>1, <1>3, <1>5, <1>7, Zenon

LEMMA SetOnward ==
  ASSUME NEW r, Formed(r), NEW x
  PROVE  [r EXCEPT !.op = "next", !.at = NoTeam, !.late = x]
           = Req("next", r.user, r.team, r.to, r.from, NoTeam, r.todo, r.passed, x)
<1>1. PICK r0 : r0 = [r EXCEPT !.op = "next"]
  OBVIOUS
<1>2. r0 = Req("next", r.user, r.team, r.to, r.from, r.at, r.todo, r.passed, r.late)
  BY <1>1 DEF Formed, Req
<1>3. PICK r1 : r1 = [r0 EXCEPT !.at = NoTeam]
  OBVIOUS
<1>4. r1 = Req("next", r.user, r.team, r.to, r.from, NoTeam, r.todo, r.passed, r.late)
  BY <1>2, <1>3 DEF Formed, Req
<1>5. [r1 EXCEPT !.late = x] = Req("next", r.user, r.team, r.to, r.from, NoTeam, r.todo, r.passed, x)
  BY <1>4 DEF Formed, Req
<1> QED
  BY <1>1, <1>3, <1>5, Zenon

LEMMA Does ==
  ASSUME Shaped, NEW s \in Sessions, NEW r, Do(s, r)
  PROVE  /\ DOMAIN req' = Sessions /\ req'[s] = r
         /\ \A d \in Sessions \ {s} : req'[d] = req[d]
  BY DEF Shaped, Do

LEMMA Waiting ==
  ASSUME Shaped, NEW d \in Sessions, req'[d] = req[d]
  PROVE  Later(req[d], req'[d])
  BY DEF Shaped, Later

LEMMA DoesBefore ==
  ASSUME Shaped, NEW s \in Sessions, NEW r, NEW q, NEW S, DoBefore(s, r, q, S)
  PROVE  /\ DOMAIN req' = Sessions /\ req'[s] = r
         /\ \A d \in Sessions \ {s} : /\ Later(req[d], req'[d])
                                      /\ d \in S => q \in req'[d].late
<1>1. DOMAIN req' = Sessions /\ req'[s] = r
  BY DEF DoBefore
<1>2. ASSUME NEW d \in Sessions \ {s}
      PROVE  Later(req[d], req'[d]) /\ (d \in S => q \in req'[d].late)
  <2>1. CASE d \in S
    <3>1. req'[d] = [req[d] EXCEPT !.late = @ \cup {q}]
      BY <1>2, <2>1 DEF DoBefore
    <3>2. PICK r0 : r0 = req[d] /\ Formed(r0)
      BY DEF Shaped
    <3>3. req'[d] = Req(r0.op, r0.user, r0.team, r0.to, r0.from, r0.at, r0.todo, r0.passed,
                        r0.late \cup {q})
      BY <3>1, <3>2, SetLate
    <3> QED
      BY <3>2, <3>3, ReqFormed DEF Later
  <2>2. CASE d \notin S
    <3>1. req'[d] = req[d]
      BY <1>2, <2>2 DEF DoBefore
    <3> QED
      BY <2>2, <3>1, Waiting
  <2> QED
    BY <2>1, <2>2
<1> QED
  BY <1>1, <1>2

(* What a request that waits has found out still holds if what another step *)
(* adds to the tables makes it late.                                        *)
LEMMA StillChecked ==
  ASSUME NEW r, NEW q, Later(r, q), NEW ut, NEW out, Checked(r, ut, out), NEW ut2, NEW out2,
         \A o \in out2 : o \in out \/ ((/\ q.op \in {"direct", "inherit", "update", "insert"}
                                        /\ <<q.user, q.at, q.team>> = o) => "optout" \in q.late),
         \A k \in DOMAIN ut2 : \/ ut2[k] # Direct
                               \/ k \in DOMAIN ut /\ ut[k] = Direct
                               \/ (/\ q.op \in {"inherit", "update", "insert"}
                                   /\ <<q.user, q.at>> = k) => "direct" \in q.late
  PROVE  Checked(q, ut2, out2)
<1>1. ASSUME q.op \in {"direct", "inherit", "update", "insert"}, "optout" \notin q.late
      PROVE  <<q.user, q.at, q.team>> \notin out2
  BY <1>1 DEF Later, Checked
<1>2. ASSUME q.op \in {"inherit", "update", "insert"}, "direct" \notin q.late,
             <<q.user, q.at>> \in DOMAIN ut2
      PROVE  ut2[<<q.user, q.at>>] # Direct
  BY <1>2 DEF Later, Checked
<1> QED
  BY <1>1, <1>2 DEF Later, Checked

(* Most statements add no opt-out and no direct membership.                 *)
NothingNew == /\ optouts' \subseteq optouts
              /\ \A k \in Rows' : userTeams'[k] = Direct => k \in Rows /\ userTeams[k] = Direct

Others(s) == DOMAIN req' = Sessions /\ \A d \in Sessions \ {s} : Later(req[d], req'[d])

(* A statement that is no move's leaves its session outside any move.       *)
Turn(s) == Others(s) /\ req'[s].op \notin MoveOps

LEMMA Kept ==
  ASSUME MembersInv, NEW s \in Sessions, Others(s), NothingNew,
         Formed(req'[s]), Checked(req'[s], userTeams', optouts')
  PROVE  MembersInv' /\ (req'[s].op \notin MoveOps => Turn(s))
<1>1. ASSUME NEW d \in Sessions \ {s} PROVE Formed(req'[d]) /\ Checked(req'[d], userTeams', optouts')
  <2>1. Later(req[d], req'[d]) /\ Checked(req[d], userTeams, optouts)
    BY <1>1 DEF Others, MembersInv, AllChecked
  <2> QED
    BY <2>1, StillChecked DEF NothingNew, Rows, Later
<1>2. OptOutsInherited'
  BY DEF MembersInv, OptOutsInherited, NothingNew
<1> QED
  BY <1>1, <1>2 DEF MembersInv, Shaped, AllChecked, Others, Turn

LEMMA DoOthers ==
  ASSUME Shaped, NEW s \in Sessions, NEW r, Do(s, r)
  PROVE  Others(s) /\ req'[s] = r
  BY Does, Waiting DEF Others

(* Nothing is asked of a request at these statements.                       *)
Unasked(r) == /\ Formed(r) /\ r.op \notin {"direct", "inherit", "update", "insert", "optout"}
              /\ r.op \in {"ensure", "rerole", "descend", "next"} => r.team # Direct

LEMMA UnaskedKept ==
  ASSUME MembersInv, NEW s \in Sessions, NEW r, Do(s, r), Unasked(r), NothingNew
  PROVE  MembersInv' /\ (r.op \notin MoveOps => Turn(s))
<1>1. Others(s) /\ req'[s] = r
  BY DoOthers DEF MembersInv
<1>2. Checked(r, userTeams', optouts')
  BY DEF Unasked, Checked
<1> QED
  BY <1>1, <1>2, Kept DEF Unasked

LEMMA SameMembers ==
  ASSUME UNCHANGED members
  PROVE  NothingNew /\ UNCHANGED <<userTeams, optouts>>
  BY DEF members, NothingNew, Rows

LEMMA UnaskedReq ==
  ASSUME NEW a, NEW b, NEW c, NEW d, NEW e, NEW f, NEW g, NEW h, NEW i,
         a \notin {"direct", "inherit", "update", "insert", "optout"},
         a \in {"ensure", "rerole", "descend", "next"} => c # Direct
  PROVE  Unasked(Req(a, b, c, d, e, f, g, h, i)) /\ Req(a, b, c, d, e, f, g, h, i).op = a
  BY DEF Unasked, Formed, Req

(* The statements of a move.                                                *)
LEMMA MoveMembers ==
  ASSUME MembersInv, NEW s \in Sessions, Climb(s) \/ ParentExists(s) \/ FinishMove(s)
  PROVE  MembersInv'
<1>0. NothingNew
  BY SameMembers DEF Climb, ParentExists, FinishMove
<1>1. PICK r : r = req[s] /\ Formed(r)
  BY DEF MembersInv, Shaped
<1>f. Formed(r)
  BY <1>1
<1>2. CASE Done(s)
  BY <1>0, <1>2, IdleFormed, UnaskedKept DEF Done, Unasked
<1>3. CASE Climb(s) /\ ~Done(s)
  <2>1. r.op = "climb"
    BY <1>1, <1>3 DEF Climb, Step
  <2>2. PICK passed, at, late : \/ Do(s, [r EXCEPT !.op = "exists", !.passed = passed])
                                \/ Do(s, [r EXCEPT !.at = at, !.passed = passed])
                                \/ Do(s, [r EXCEPT !.op = "exists", !.late = late])
    BY <1>1, <1>3 DEF Climb
  <2>3. \/ Do(s, Req("exists", r.user, r.team, r.to, r.from, r.at, r.todo, passed, r.late))
        \/ Do(s, Req(r.op, r.user, r.team, r.to, r.from, at, r.todo, passed, r.late))
        \/ Do(s, Req("exists", r.user, r.team, r.to, r.from, r.at, r.todo, r.passed, late))
    <3>1. [r EXCEPT !.op = "exists", !.passed = passed]
            = Req("exists", r.user, r.team, r.to, r.from, r.at, r.todo, passed, r.late)
      BY <1>f, SetOpPassed, Zenon
    <3>2. [r EXCEPT !.at = at, !.passed = passed]
            = Req(r.op, r.user, r.team, r.to, r.from, at, r.todo, passed, r.late)
      BY <1>f, SetAtPassed, Zenon
    <3>3. [r EXCEPT !.op = "exists", !.late = late]
            = Req("exists", r.user, r.team, r.to, r.from, r.at, r.todo, r.passed, late)
      BY <1>f, SetOpLate, Zenon
    <3> QED
      BY <2>2, <3>1, <3>2, <3>3, Zenon
  <2> QED
    BY <1>0, <2>1, <2>3, UnaskedReq, UnaskedKept
<1>4. CASE ParentExists(s) /\ ~Done(s)
  <2>1. Do(s, [r EXCEPT !.op = "move"])
    BY <1>1, <1>4 DEF ParentExists
  <2>2. Do(s, Req("move", r.user, r.team, r.to, r.from, r.at, r.todo, r.passed, r.late))
    BY <1>1, <2>1, SetOp, Zenon
  <2> QED
    BY <1>0, <2>2, UnaskedReq, UnaskedKept
<1>5. CASE FinishMove(s) /\ ~Done(s)
  <2>1. DoBefore(s, Idle, "climb", Relying(r.team))
    BY <1>1, <1>5 DEF FinishMove
  <2>2. Others(s) /\ req'[s] = Idle
    BY <2>1, DoesBefore DEF Others, MembersInv
  <2>3. Checked(Idle, userTeams', optouts')
    BY IdleFormed DEF Checked
  <2> QED
    BY <1>0, <2>2, <2>3, IdleFormed, Kept
<1> QED
  BY <1>2, <1>3, <1>4, <1>5

(* What the statements do to the tables.                                    *)
Fewer == /\ optouts' \subseteq optouts
         /\ \A k \in Rows' : k \in Rows /\ userTeams'[k] = userTeams[k]
         /\ astray \cap Rows' \subseteq astray'
Puts(k, from) ==
  /\ optouts' = optouts
  /\ Rows' = Rows \cup {k}
  /\ \A x \in Rows' : userTeams'[x] = IF x = k THEN from ELSE userTeams[x]

LEMMA FewerNothingNew == Fewer => NothingNew
  BY DEF Fewer, NothingNew, Rows

LEMMA Dropping ==
  ASSUME NEW ks, Drop(ks), astray' = astray \ ks, optouts' = optouts
  PROVE  Fewer
  BY DEF Drop, Fewer, Rows

LEMMA Putting ==
  ASSUME NEW k, NEW from, Put(k, from), optouts' = optouts
  PROVE  Puts(k, from)
  BY DEF Put, Puts, Rows

Quiet(s) ==
  \/ Climb(s) \/ ParentExists(s) \/ FinishMove(s)
  \/ Descend(s) \/ NextDescendant(s) \/ CheckDirect(s) \/ CheckExists(s) \/ ReadOptOuts(s)
  \/ TreeStep(s) \/ MoveStep(s)

LEMMA Effects ==
  ASSUME NEW s
  PROVE  /\ Quiet(s) => UNCHANGED members
         /\ Leave(s) \/ Cascade(s) \/ ForgetOptOut(s) => Fewer
         /\ EnsureUserTeamMembership(s) =>
              \/ UNCHANGED members
              \/ Puts(Row(s), Direct) /\ astray' = astray \ {Row(s)}
         /\ Inherit(s) =>
              \/ UNCHANGED members
              \/ /\ Puts(RowAt(s), req[s].team) /\ (req[s].op = "update") = (RowAt(s) \in Rows)
                 /\ astray' = IF "optout" \in req[s].late THEN astray \cup {RowAt(s)}
                                                          ELSE astray \ {RowAt(s)}
         /\ OptOut(s) =>
              \/ UNCHANGED members
              \/ /\ optouts' = optouts \cup {<<req[s].user, req[s].team, req[s].from>>}
                 /\ UNCHANGED userTeams /\ astray' = astray \cup ({Row(s)} \cap Rows)
<1>1. Quiet(s) => UNCHANGED members
  BY DEF Quiet, Climb, ParentExists, FinishMove, Descend, NextDescendant, CheckDirect, CheckExists,
     ReadOptOuts, TreeStep, MoveStep, CreateTeam, MoveTeam, DeleteTeam
<1>2. UNCHANGED members => Fewer
  BY DEF members, Fewer, Rows
<1>3. ASSUME Leave(s) \/ Cascade(s) PROVE Fewer
  <2>1. \/ UNCHANGED members
        \/ \E ks : Drop(ks) /\ astray' = astray \ ks /\ optouts' = optouts
    BY <1>3 DEF Leave, Cascade, members
  <2> QED
    BY <1>2, <2>1, Dropping
<1>4. ForgetOptOut(s) => Fewer
  BY DEF ForgetOptOut, Fewer, Rows
<1>5. EnsureUserTeamMembership(s) =>
        UNCHANGED members \/ (Puts(Row(s), Direct) /\ astray' = astray \ {Row(s)})
  BY Putting DEF EnsureUserTeamMembership, members
<1>6. ASSUME Inherit(s)
      PROVE  \/ UNCHANGED members
             \/ /\ Puts(RowAt(s), req[s].team) /\ (req[s].op = "update") = (RowAt(s) \in Rows)
                /\ astray' = IF "optout" \in req[s].late THEN astray \cup {RowAt(s)}
                                                         ELSE astray \ {RowAt(s)}
  BY <1>6, Putting DEF Inherit, members
<1>7. OptOut(s) =>
        \/ UNCHANGED members
        \/ /\ optouts' = optouts \cup {<<req[s].user, req[s].team, req[s].from>>}
           /\ UNCHANGED userTeams /\ astray' = astray \cup ({Row(s)} \cap Rows)
  BY DEF OptOut, members
<1> QED
  BY <1>1, <1>3, <1>4, <1>5, <1>6, <1>7

LEMMA MemberEffects ==
  ASSUME NEW s, NEW u, NEW t
  PROVE  /\ AssignUserToTeam(s, u, t) \/ RemoveUserFromTeam(s, u, t) => UNCHANGED members
         /\ UpsertUserTeam(s, u, t) => Puts(<<u, t>>, Direct) /\ astray' = astray \ {<<u, t>>}
         /\ DeleteUserTeam(s, u, t) => Fewer
  BY Dropping, Putting
     DEF AssignUserToTeam, RemoveUserFromTeam, UpsertUserTeam, DeleteUserTeam

-----------------------------------------------------------------------------
(* The statements of an assignment and of its propagation.                  *)
LEMMA EnsureMembers ==
  ASSUME MembersInv, NEW s \in Sessions, EnsureUserTeamMembership(s)
  PROVE  MembersInv' /\ Turn(s)
<1>1. PICK r : r = req[s] /\ Formed(r) /\ r.team # Direct
  BY DEF MembersInv, Shaped, AllChecked, Checked, EnsureUserTeamMembership, Step
<1>f. Formed(r)
  BY <1>1
<1>2. PICK next : next = [r EXCEPT !.op = "descend"]
  OBVIOUS
<1>3. next = Req("descend", r.user, r.team, r.to, r.from, r.at, r.todo, r.passed, r.late)
  BY <1>1, <1>2, SetOp, Zenon
<1>4. Unasked(next) /\ next.op = "descend"
  BY <1>1, <1>3, UnaskedReq
<1>5. CASE UNCHANGED members /\ (Do(s, next) \/ Done(s))
  <2>1. NothingNew
    BY <1>5, SameMembers
  <2>2. Unasked(Idle)
    BY IdleFormed DEF Unasked
  <2> QED
    BY <1>4, <1>5, <2>1, <2>2, IdleFormed, UnaskedKept DEF Done, MoveOps
<1>6. CASE Put(Row(s), Direct) /\ DoBefore(s, next, "direct", Writing(Row(s))) /\ optouts' = optouts
  <2>1. Puts(Row(s), Direct)
    BY <1>6, Putting
  <2>2. Shaped /\ OptOutsInherited /\ \A d \in Sessions : Checked(req[d], userTeams, optouts)
    BY DEF MembersInv, AllChecked
  <2>3. /\ DOMAIN req' = Sessions /\ req'[s] = next
        /\ \A d \in Sessions \ {s} : /\ Later(req[d], req'[d])
                                     /\ d \in Writing(Row(s)) => "direct" \in req'[d].late
    BY <1>6, <2>2, DoesBefore
  <2>4. ASSUME NEW d \in Sessions \ {s} PROVE Formed(req'[d]) /\ Checked(req'[d], userTeams', optouts')
    <3>1. Later(req[d], req'[d]) /\ Checked(req[d], userTeams, optouts)
      BY <2>2, <2>3, <2>4
    <3>2. (/\ req'[d].op \in {"inherit", "update", "insert"}
           /\ <<req'[d].user, req'[d].at>> = Row(s)) => "direct" \in req'[d].late
      BY <2>3, <2>4, <3>1 DEF Writing, Later, Step, RowAt
    <3>3. \A k \in DOMAIN userTeams' : \/ userTeams'[k] # Direct
                                       \/ k \in DOMAIN userTeams /\ userTeams[k] = Direct
                                       \/ k = Row(s)
      BY <2>1 DEF Puts, Rows
    <3>4. optouts' = optouts
      BY <1>6
    <3> QED
      BY <3>1, <3>2, <3>3, <3>4, StillChecked DEF Later
  <2>5. Formed(next) /\ Checked(next, userTeams', optouts')
    BY <1>4 DEF Unasked, Checked
  <2>6. OptOutsInherited'
    BY <1>6, <2>2 DEF OptOutsInherited
  <2> QED
    BY <1>4, <2>3, <2>4, <2>5, <2>6 DEF MembersInv, Shaped, AllChecked, Turn, Others, MoveOps
<1> QED
  BY <1>1, <1>2, <1>5, <1>6 DEF EnsureUserTeamMembership, members

LEMMA ReadMembers ==
  ASSUME MembersInv, NEW s \in Sessions, Descend(s) \/ ReadOptOuts(s)
  PROVE  MembersInv' /\ Turn(s)
<1>0. NothingNew
  BY SameMembers DEF Descend, ReadOptOuts
<1>1. PICK r : r = req[s] /\ Formed(r) /\ (r.op = "descend" => r.team # Direct)
  BY DEF MembersInv, Shaped, AllChecked, Checked
<1>f. Formed(r)
  BY <1>1
<1>2. PICK todo : todo = Descendants(r.team)
  OBVIOUS
<1>3. \/ Done(s)
      \/ r.op = "descend" /\ Do(s, [r EXCEPT !.op = "next", !.todo = todo])
      \/ Do(s, [r EXCEPT !.op = "forget", !.todo = todo])
  BY <1>1, <1>2 DEF Descend, ReadOptOuts, Step
<1>4. [r EXCEPT !.op = "next", !.todo = todo]
        = Req("next", r.user, r.team, r.to, r.from, r.at, todo, r.passed, r.late)
  BY <1>f, SetOpTodo, Zenon
<1>5. [r EXCEPT !.op = "forget", !.todo = todo]
        = Req("forget", r.user, r.team, r.to, r.from, r.at, todo, r.passed, r.late)
  BY <1>f, SetOpTodo, Zenon
<1>6. \/ Do(s, Idle)
      \/ r.op = "descend" /\ Do(s, Req("next", r.user, r.team, r.to, r.from, r.at, todo, r.passed, r.late))
      \/ Do(s, Req("forget", r.user, r.team, r.to, r.from, r.at, todo, r.passed, r.late))
  BY <1>3, <1>4, <1>5, Zenon DEF Done
<1>7. Unasked(Idle)
  BY IdleFormed DEF Unasked
<1> QED
  BY <1>0, <1>1, <1>6, <1>7, IdleFormed, UnaskedReq, UnaskedKept DEF MoveOps

LEMMA NextMembers ==
  ASSUME MembersInv, NEW s \in Sessions, NextDescendant(s)
  PROVE  MembersInv' /\ Turn(s)
<1>0. NothingNew /\ UNCHANGED <<userTeams, optouts>>
  BY SameMembers DEF NextDescendant
<1>1. PICK r : r = req[s] /\ Formed(r) /\ r.team # Direct
  BY DEF MembersInv, Shaped, AllChecked, Checked, NextDescendant, Step
<1>f. Formed(r)
  BY <1>1
<1>2. r.op = "next"
  BY <1>1 DEF NextDescendant, Step
<1>3. CASE Done(s)
  BY <1>0, <1>3, IdleFormed, UnaskedKept DEF Done, Unasked, MoveOps
<1>4. CASE ~Done(s)
  <2>1. PICK d, todo, rest, ask :
          /\ todo = r.todo \ {d}
          /\ rest = [r EXCEPT !.todo = todo] /\ ask = [rest EXCEPT !.op = "direct", !.at = d]
          /\ \/ Do(s, rest)
             \/ <<r.user, d, r.team>> \notin optouts /\ Do(s, ask)
             \/ Do(s, [ask EXCEPT !.late = {"optout"}])
    BY <1>1, <1>4 DEF NextDescendant, OptedOut
  <2>2. rest = Req(r.op, r.user, r.team, r.to, r.from, r.at, todo, r.passed, r.late)
    BY <1>1, <2>1, SetTodo, Zenon
  <2>3. ask = Req("direct", r.user, r.team, r.to, r.from, d, todo, r.passed, r.late)
    <3>1. /\ Formed(rest) /\ rest.user = r.user /\ rest.team = r.team /\ rest.to = r.to
          /\ rest.from = r.from /\ rest.todo = todo /\ rest.passed = r.passed /\ rest.late = r.late
      BY <2>2, ReqFormed
    <3>2. [rest EXCEPT !.op = "direct", !.at = d]
            = Req("direct", rest.user, rest.team, rest.to, rest.from, d, rest.todo, rest.passed, rest.late)
      BY <3>1, SetOpAt, Zenon
    <3> QED
      BY <2>1, <3>1, <3>2
  <2>4. [ask EXCEPT !.late = {"optout"}]
          = Req("direct", r.user, r.team, r.to, r.from, d, todo, r.passed, {"optout"})
    <3>1. /\ Formed(ask) /\ ask.op = "direct" /\ ask.user = r.user /\ ask.team = r.team /\ ask.to = r.to
          /\ ask.from = r.from /\ ask.at = d /\ ask.todo = todo /\ ask.passed = r.passed
      BY <2>3, ReqFormed
    <3>2. [ask EXCEPT !.late = {"optout"}]
            = Req(ask.op, ask.user, ask.team, ask.to, ask.from, ask.at, ask.todo, ask.passed, {"optout"})
      BY <3>1, SetLate, Zenon
    <3> QED
      BY <3>1, <3>2
  <2>5. CASE Do(s, rest)
    <3>1. Unasked(rest) /\ rest.op = "next"
      BY <1>1, <1>2, <2>2, UnaskedReq
    <3> QED
      BY <1>0, <2>5, <3>1, UnaskedKept DEF MoveOps
  <2>6. ASSUME NEW late, Do(s, Req("direct", r.user, r.team, r.to, r.from, d, todo, r.passed, late)),
               "optout" \in late \/ <<r.user, d, r.team>> \notin optouts
        PROVE  MembersInv' /\ Turn(s)
    <3>1. PICK q : q = Req("direct", r.user, r.team, r.to, r.from, d, todo, r.passed, late)
      OBVIOUS
    <3>2. /\ Formed(q) /\ q.op = "direct" /\ q.user = r.user /\ q.team = r.team /\ q.at = d
          /\ q.late = late
      BY <3>1, ReqFormed
    <3>3. Others(s) /\ req'[s] = q
      BY <2>6, <3>1, DoOthers DEF MembersInv
    <3>4. Checked(q, userTeams', optouts')
      BY <1>0, <1>1, <2>6, <3>2 DEF Checked
    <3> QED
      BY <1>0, <3>2, <3>3, <3>4, Kept DEF MoveOps
  <2>7. CASE Do(s, ask) /\ <<r.user, d, r.team>> \notin optouts
    BY <2>3, <2>6, <2>7
  <2>8. CASE Do(s, [ask EXCEPT !.late = {"optout"}])
    <3>1. Do(s, Req("direct", r.user, r.team, r.to, r.from, d, todo, r.passed, {"optout"}))
      BY <2>4, <2>8, Zenon
    <3> QED
      BY <2>6, <3>1
  <2> QED
    BY <2>1, <2>5, <2>7, <2>8
<1> QED
  BY <1>3, <1>4

LEMMA DirectMembers ==
  ASSUME MembersInv, NEW s \in Sessions, CheckDirect(s)
  PROVE  MembersInv' /\ Turn(s)
<1>0. NothingNew /\ UNCHANGED <<userTeams, optouts>>
  BY SameMembers DEF CheckDirect
<1>1. PICK r : r = req[s] /\ Formed(r) /\ Checked(r, userTeams, optouts) /\ r.op = "direct" /\ r.team # Direct
  BY DEF MembersInv, Shaped, AllChecked, Checked, CheckDirect, Step
<1>f. Formed(r)
  BY <1>1
<1>2. PICK late, none : late = r.late \cup {"direct"} /\ none = {}
  OBVIOUS
<1>3. \/ Do(s, [r EXCEPT !.op = "next", !.at = NoTeam, !.late = none])
      \/ /\ <<r.user, r.at>> \in DOMAIN userTeams => userTeams[<<r.user, r.at>>] # Direct
         /\ Do(s, [r EXCEPT !.op = "inherit"])
      \/ Do(s, [r EXCEPT !.op = "inherit", !.late = late])
  BY <1>1, <1>2 DEF CheckDirect, HasDirect, Onward, RowAt, Rows
<1>4. [r EXCEPT !.op = "next", !.at = NoTeam, !.late = none]
        = Req("next", r.user, r.team, r.to, r.from, NoTeam, r.todo, r.passed, none)
  BY <1>f, SetOnward, Zenon
<1>5. [r EXCEPT !.op = "inherit"]
        = Req("inherit", r.user, r.team, r.to, r.from, r.at, r.todo, r.passed, r.late)
  BY <1>f, SetOp, Zenon
<1>6. [r EXCEPT !.op = "inherit", !.late = late]
        = Req("inherit", r.user, r.team, r.to, r.from, r.at, r.todo, r.passed, late)
  BY <1>f, SetOpLate, Zenon
<1>7. CASE Do(s, Req("next", r.user, r.team, r.to, r.from, NoTeam, r.todo, r.passed, none))
  BY <1>0, <1>1, <1>7, UnaskedReq, UnaskedKept DEF MoveOps
<1>8. ASSUME NEW l, Do(s, Req("inherit", r.user, r.team, r.to, r.from, r.at, r.todo, r.passed, l)),
             r.late \subseteq l,
             \/ "direct" \in l
             \/ <<r.user, r.at>> \in DOMAIN userTeams => userTeams[<<r.user, r.at>>] # Direct
      PROVE  MembersInv' /\ Turn(s)
  <2>1. PICK q : q = Req("inherit", r.user, r.team, r.to, r.from, r.at, r.todo, r.passed, l)
    OBVIOUS
  <2>2. /\ Formed(q) /\ q.op = "inherit" /\ q.user = r.user /\ q.team = r.team /\ q.at = r.at
        /\ q.late = l
    BY <2>1, ReqFormed
  <2>3. Others(s) /\ req'[s] = q
    BY <1>8, <2>1, DoOthers DEF MembersInv
  <2>4. Checked(q, userTeams', optouts')
    BY <1>0, <1>1, <1>8, <2>2 DEF Checked
  <2> QED
    BY <1>0, <2>2, <2>3, <2>4, Kept DEF MoveOps
<1>9. \/ Do(s, Req("next", r.user, r.team, r.to, r.from, NoTeam, r.todo, r.passed, none))
      \/ /\ <<r.user, r.at>> \in DOMAIN userTeams => userTeams[<<r.user, r.at>>] # Direct
         /\ Do(s, Req("inherit", r.user, r.team, r.to, r.from, r.at, r.todo, r.passed, r.late))
      \/ Do(s, Req("inherit", r.user, r.team, r.to, r.from, r.at, r.todo, r.passed, late))
  BY <1>3, <1>4, <1>5, <1>6, Zenon
<1> QED
  BY <1>2, <1>7, <1>8, <1>9

LEMMA ExistsMembers ==
  ASSUME MembersInv, NEW s \in Sessions, CheckExists(s)
  PROVE  MembersInv' /\ Turn(s)
<1>0. NothingNew /\ UNCHANGED <<userTeams, optouts>>
  BY SameMembers DEF CheckExists
<1>1. PICK r : r = req[s] /\ Formed(r) /\ Checked(r, userTeams, optouts) /\ r.op = "inherit"
  BY DEF MembersInv, Shaped, AllChecked, CheckExists, Step
<1>f. Formed(r)
  BY <1>1
<1>2. PICK op \in {"update", "insert"} : Do(s, [r EXCEPT !.op = op])
  BY <1>1 DEF CheckExists
<1>3. [r EXCEPT !.op = op] = Req(op, r.user, r.team, r.to, r.from, r.at, r.todo, r.passed, r.late)
  BY <1>f, SetOp, Zenon
<1>4. PICK q : q = Req(op, r.user, r.team, r.to, r.from, r.at, r.todo, r.passed, r.late)
  OBVIOUS
<1>5. /\ Formed(q) /\ q.op = op /\ q.user = r.user /\ q.team = r.team /\ q.at = r.at
      /\ q.late = r.late
  BY <1>4, ReqFormed
<1>6. Do(s, q)
  BY <1>2, <1>3, <1>4, Zenon
<1>7. Others(s) /\ req'[s] = q
  BY <1>6, DoOthers DEF MembersInv
<1>8. Checked(q, userTeams', optouts')
  BY <1>0, <1>1, <1>5 DEF Checked
<1> QED
  BY <1>0, <1>5, <1>7, <1>8, Kept DEF MoveOps

LEMMA InheritMembers ==
  ASSUME MembersInv, NEW s \in Sessions, Inherit(s)
  PROVE  MembersInv' /\ Turn(s)
<1>1. PICK r : r = req[s] /\ Formed(r) /\ r.team # Direct
  BY DEF MembersInv, Shaped, AllChecked, Checked, Inherit, Step
<1>f. Formed(r)
  BY <1>1
<1>2. PICK none : none = {}
  OBVIOUS
<1>3. Do(s, [r EXCEPT !.op = "next", !.at = NoTeam, !.late = none])
  BY <1>1, <1>2 DEF Inherit, Onward
<1>4. [r EXCEPT !.op = "next", !.at = NoTeam, !.late = none]
        = Req("next", r.user, r.team, r.to, r.from, NoTeam, r.todo, r.passed, none)
  BY <1>f, SetOnward, Zenon
<1>5. Do(s, Req("next", r.user, r.team, r.to, r.from, NoTeam, r.todo, r.passed, none))
  BY <1>3, <1>4, Zenon
<1>6. NothingNew
  <2>1. UNCHANGED members \/ Puts(RowAt(s), r.team)
    BY <1>1, Effects
  <2> QED
    BY <1>1, <2>1, SameMembers DEF Puts, NothingNew, Rows
<1> QED
  BY <1>1, <1>5, <1>6, UnaskedReq, UnaskedKept DEF MoveOps

-----------------------------------------------------------------------------
(* The statements of a removal.                                             *)
LEMMA OptOutMembers ==
  ASSUME MembersInv, NEW s \in Sessions, OptOut(s)
  PROVE  MembersInv' /\ Turn(s)
<1>1. PICK r : r = req[s] /\ Formed(r) /\ r.from # Direct
  BY DEF MembersInv, Shaped, AllChecked, Checked, OptOut, Step
<1>f. Formed(r)
  BY <1>1
<1>2. PICK next : next = [r EXCEPT !.op = "leave"]
  OBVIOUS
<1>3. next = Req("leave", r.user, r.team, r.to, r.from, r.at, r.todo, r.passed, r.late)
  BY <1>f, <1>2, SetOp, Zenon
<1>4. Unasked(next) /\ next.op = "leave"
  BY <1>3, UnaskedReq
<1>5. CASE UNCHANGED members /\ Do(s, next)
  BY <1>4, <1>5, SameMembers, UnaskedKept DEF MoveOps
<1>o. PICK o : o = <<r.user, r.team, r.from>>
  OBVIOUS
<1>6. CASE optouts' = optouts \cup {o} /\ DoBefore(s, next, "optout", Asking(o)) /\ UNCHANGED userTeams
  <2>2. Shaped /\ OptOutsInherited /\ \A d \in Sessions : Checked(req[d], userTeams, optouts)
    BY DEF MembersInv, AllChecked
  <2>3. /\ DOMAIN req' = Sessions /\ req'[s] = next
        /\ \A d \in Sessions \ {s} : /\ Later(req[d], req'[d])
                                     /\ d \in Asking(o) => "optout" \in req'[d].late
    BY <1>6, <2>2, DoesBefore
  <2>4. ASSUME NEW d \in Sessions \ {s} PROVE Formed(req'[d]) /\ Checked(req'[d], userTeams', optouts')
    <3>1. Later(req[d], req'[d]) /\ Checked(req[d], userTeams, optouts)
      BY <2>2, <2>3, <2>4
    <3>2. (/\ req'[d].op \in {"direct", "inherit", "update", "insert"}
           /\ <<req'[d].user, req'[d].at, req'[d].team>> = o) => "optout" \in req'[d].late
      BY <2>3, <2>4, <3>1 DEF Asking, Later, Step
    <3>3. \A x \in optouts' : x \in optouts \/ x = o
      BY <1>6
    <3>4. userTeams' = userTeams
      BY <1>6
    <3> QED
      BY <3>1, <3>2, <3>3, <3>4, StillChecked DEF Later
  <2>5. Formed(next) /\ Checked(next, userTeams', optouts')
    BY <1>4 DEF Unasked, Checked
  <2>6. OptOutsInherited'
    BY <1>1, <1>o, <1>6, <2>2 DEF OptOutsInherited
  <2> QED
    BY <1>4, <2>3, <2>4, <2>5, <2>6 DEF MembersInv, Shaped, AllChecked, Turn, Others, MoveOps
<1> QED
  BY <1>1, <1>2, <1>o, <1>5, <1>6 DEF OptOut, members

LEMMA RemovalMembers ==
  ASSUME MembersInv, NEW s \in Sessions, Leave(s) \/ Cascade(s) \/ ForgetOptOut(s)
  PROVE  MembersInv' /\ Turn(s)
<1>0. NothingNew
  BY Effects, FewerNothingNew
<1>1. PICK r : r = req[s] /\ Formed(r)
  BY DEF MembersInv, Shaped
<1>f. Formed(r)
  BY <1>1
<1>2. PICK todo : \/ Done(s)
                  \/ Do(s, [r EXCEPT !.op = "cascade"])
                  \/ Do(s, [r EXCEPT !.op = "reopen"])
                  \/ r.op = "forget" /\ Do(s, [r EXCEPT !.todo = todo])
  BY <1>1 DEF Leave, Cascade, ForgetOptOut, Step
<1>3. [r EXCEPT !.op = "cascade"]
        = Req("cascade", r.user, r.team, r.to, r.from, r.at, r.todo, r.passed, r.late)
  BY <1>f, SetOp, Zenon
<1>4. [r EXCEPT !.op = "reopen"]
        = Req("reopen", r.user, r.team, r.to, r.from, r.at, r.todo, r.passed, r.late)
  BY <1>f, SetOp, Zenon
<1>5. [r EXCEPT !.todo = todo]
        = Req(r.op, r.user, r.team, r.to, r.from, r.at, todo, r.passed, r.late)
  BY <1>f, SetTodo, Zenon
<1>6. \/ Do(s, Idle)
      \/ Do(s, Req("cascade", r.user, r.team, r.to, r.from, r.at, r.todo, r.passed, r.late))
      \/ Do(s, Req("reopen", r.user, r.team, r.to, r.from, r.at, r.todo, r.passed, r.late))
      \/ /\ r.op = "forget"
         /\ Do(s, Req(r.op, r.user, r.team, r.to, r.from, r.at, todo, r.passed, r.late))
  BY <1>2, <1>3, <1>4, <1>5, Zenon DEF Done
<1>7. Unasked(Idle)
  BY IdleFormed DEF Unasked
<1> QED
  BY <1>0, <1>6, <1>7, IdleFormed, UnaskedReq, UnaskedKept DEF MoveOps

(* The requests that begin, or that are one statement.                      *)
LEMMA StartMembers ==
  ASSUME MembersInv, NEW s \in Sessions, NEW u, NEW t, t # Direct,
         AssignUserToTeam(s, u, t) \/ RemoveUserFromTeam(s, u, t) \/ DeleteUserTeam(s, u, t)
  PROVE  MembersInv' /\ Turn(s)
<1>0. NothingNew
  BY MemberEffects, FewerNothingNew, SameMembers
<1>i. Formed(Idle)
  BY IdleFormed
<1>1. ASSUME NEW op \in {"rerole", "ensure"}, Do(s, [Idle EXCEPT !.op = op, !.user = u, !.team = t])
      PROVE  MembersInv' /\ Turn(s)
  <2>1. [Idle EXCEPT !.op = op, !.user = u, !.team = t]
          = Req(op, u, t, Idle.to, Idle.from, Idle.at, Idle.todo, Idle.passed, Idle.late)
    BY <1>i, SetOpUserTeam, Zenon
  <2>2. Do(s, Req(op, u, t, Idle.to, Idle.from, Idle.at, Idle.todo, Idle.passed, Idle.late))
    BY <1>1, <2>1, Zenon
  <2> QED
    BY <1>0, <2>2, UnaskedReq, UnaskedKept DEF MoveOps
<1>2. ASSUME NEW from, NEW op, \/ op = "remove"
                               \/ op = "optout" /\ from # Direct,
             Do(s, [Idle EXCEPT !.op = op, !.user = u, !.team = t, !.from = from])
      PROVE  MembersInv' /\ Turn(s)
  <2>1. [Idle EXCEPT !.op = op, !.user = u, !.team = t, !.from = from]
          = Req(op, u, t, Idle.to, from, Idle.at, Idle.todo, Idle.passed, Idle.late)
    BY <1>i, SetOpUserTeamFrom, Zenon
  <2>2. PICK q : q = Req(op, u, t, Idle.to, from, Idle.at, Idle.todo, Idle.passed, Idle.late)
    OBVIOUS
  <2>3. Formed(q) /\ q.op = op /\ q.from = from
    BY <2>2, ReqFormed
  <2>4. Do(s, q)
    BY <1>2, <2>1, <2>2, Zenon
  <2>5. Others(s) /\ req'[s] = q
    BY <2>4, DoOthers DEF MembersInv
  <2>6. Checked(q, userTeams', optouts')
    BY <1>2, <2>3 DEF Checked
  <2> QED
    BY <1>0, <1>2, <2>3, <2>5, <2>6, Kept DEF MoveOps
<1>3. CASE AssignUserToTeam(s, u, t)
  <2>1. PICK op \in {"rerole", "ensure"} : op = IF <<u, t>> \in Rows THEN "rerole" ELSE "ensure"
    OBVIOUS
  <2> QED
    BY <1>1, <1>3, <2>1 DEF AssignUserToTeam
<1>4. CASE RemoveUserFromTeam(s, u, t)
  <2>1. PICK from, op : /\ from = userTeams[<<u, t>>]
                        /\ op = IF from = Direct THEN "remove" ELSE "optout"
    OBVIOUS
  <2> QED
    BY <1>2, <1>4, <2>1 DEF RemoveUserFromTeam
<1>5. CASE DeleteUserTeam(s, u, t)
  <2>1. /\ Others(s) /\ req'[s] = req[s] /\ Formed(req[s]) /\ Checked(req[s], userTeams', optouts')
        /\ req[s].op = "idle"
    <3>1. /\ DOMAIN req = Sessions /\ \A d \in Sessions : Formed(req[d])
          /\ UNCHANGED req /\ Step(s, {"idle"})
      BY <1>5 DEF DeleteUserTeam, MembersInv, Shaped
    <3> QED
      BY <3>1 DEF Others, Later, Step, Checked
  <2> QED
    BY <1>0, <2>1, Kept DEF MoveOps
<1> QED
  BY <1>3, <1>4, <1>5

LEMMA UpsertMembers ==
  ASSUME MembersInv, NEW s \in Sessions, NEW u, NEW t, UpsertUserTeam(s, u, t)
  PROVE  MembersInv' /\ Turn(s)
<1>k. PICK k : k = <<u, t>>
  OBVIOUS
<1>1. Puts(k, Direct) /\ optouts' = optouts /\ DoBefore(s, Idle, "direct", Writing(k))
  BY <1>k, Putting DEF UpsertUserTeam
<1>2. Shaped /\ OptOutsInherited /\ \A d \in Sessions : Checked(req[d], userTeams, optouts)
  BY DEF MembersInv, AllChecked
<1>3. /\ DOMAIN req' = Sessions /\ req'[s] = Idle
      /\ \A d \in Sessions \ {s} : /\ Later(req[d], req'[d])
                                   /\ d \in Writing(k) => "direct" \in req'[d].late
  BY <1>1, <1>2, DoesBefore
<1>4. ASSUME NEW d \in Sessions \ {s} PROVE Formed(req'[d]) /\ Checked(req'[d], userTeams', optouts')
  <2>1. Later(req[d], req'[d]) /\ Checked(req[d], userTeams, optouts)
    BY <1>2, <1>3, <1>4
  <2>2. (/\ req'[d].op \in {"inherit", "update", "insert"}
         /\ <<req'[d].user, req'[d].at>> = k) => "direct" \in req'[d].late
    BY <1>3, <1>4, <2>1 DEF Writing, Later, Step, RowAt
  <2>3. \A x \in DOMAIN userTeams' : \/ userTeams'[x] # Direct
                                     \/ x \in DOMAIN userTeams /\ userTeams[x] = Direct
                                     \/ x = k
    BY <1>1 DEF Puts, Rows
  <2>4. optouts' = optouts
    BY <1>1
  <2> QED
    BY <2>1, <2>2, <2>3, <2>4, StillChecked DEF Later
<1>5. Formed(Idle) /\ Checked(Idle, userTeams', optouts')
  BY IdleFormed DEF Checked
<1>6. OptOutsInherited'
  BY <1>1, <1>2 DEF OptOutsInherited
<1> QED
  BY <1>3, <1>4, <1>5, <1>6, IdleFormed DEF MembersInv, Shaped, AllChecked, Turn, Others, MoveOps

(* The tree changes; the server stops.                                      *)
LEMMA TreeMembers ==
  ASSUME MembersInv, NEW s \in Sessions, TreeStep(s) \/ MoveStep(s)
  PROVE  MembersInv'
<1>0. NothingNew
  BY SameMembers, Effects DEF Quiet
<1>1. CASE UNCHANGED req /\ Step(s, {"idle"})
  <2>1. DOMAIN req = Sessions /\ \A d \in Sessions : Formed(req[d])
    BY DEF MembersInv, Shaped
  <2>2. Others(s) /\ req'[s] = req[s] /\ Formed(req[s]) /\ Checked(req[s], userTeams', optouts')
    BY <1>1, <2>1 DEF Others, Later, Step, Checked
  <2> QED
    BY <1>0, <2>2, Kept
<1>2. ASSUME NEW t, NEW p, Do(s, [Idle EXCEPT !.op = "climb", !.team = t, !.to = p, !.at = p])
      PROVE  MembersInv'
  <2>1. Formed(Idle)
    BY IdleFormed
  <2>2. [Idle EXCEPT !.op = "climb", !.team = t, !.to = p, !.at = p]
          = Req("climb", Idle.user, t, p, Idle.from, p, Idle.todo, Idle.passed, Idle.late)
    BY <2>1, SetOpTeamToAt, Zenon
  <2>3. Do(s, Req("climb", Idle.user, t, p, Idle.from, p, Idle.todo, Idle.passed, Idle.late))
    BY <1>2, <2>2, Zenon
  <2> QED
    BY <1>0, <2>3, UnaskedReq, UnaskedKept
<1>3. ASSUME NEW t, NEW p, MoveTeam(s, t, p) PROVE MembersInv'
  BY <1>1, <1>2, <1>3 DEF MoveTeam
<1>4. ASSUME NEW t, NEW p, CreateTeam(s, p) \/ DeleteTeam(s, t) PROVE MembersInv'
  BY <1>1, <1>4 DEF CreateTeam, DeleteTeam
<1> QED
  BY <1>3, <1>4 DEF TreeStep, MoveStep

LEMMA CrashMembers ==
  ASSUME MembersInv, Crash
  PROVE  MembersInv'
<1>1. /\ DOMAIN req' = Sessions /\ \A s \in Sessions : req'[s] = Idle
      /\ UNCHANGED <<userTeams, optouts>>
  BY DEF Crash, members
<1>2. Formed(Idle) /\ Checked(Idle, userTeams', optouts')
  BY IdleFormed DEF Checked
<1> QED
  BY <1>1, <1>2 DEF MembersInv, Shaped, AllChecked, OptOutsInherited

LEMMA StutterMembers == MembersInv /\ UNCHANGED vars => MembersInv'
  BY DEF MembersInv, Shaped, AllChecked, OptOutsInherited, vars

-----------------------------------------------------------------------------
(* The tree.  First, what holds of the teams below another in any rows p.   *)

(* Below is closed, and the least set that is.                              *)
LEMMA BelowClosed ==
  ASSUME NEW p, NEW t, NEW c \in DOMAIN p, p[c] = t \/ p[c] \in Below(p, t)
  PROVE  c \in Below(p, t)
  BY DEF Below, ClosedUnder

LEMMA BelowLeast ==
  ASSUME NEW p, NEW t, NEW S \in SUBSET DOMAIN p, ClosedUnder(p, t, S)
  PROVE  Below(p, t) \subseteq S
  BY DEF Below

LEMMA BelowExists ==
  ASSUME NEW p, NEW t
  PROVE  Below(p, t) \in SUBSET DOMAIN p
  BY DEF Below

LEMMA BelowTransitive ==
  ASSUME NEW p, NEW t, NEW b \in Below(p, t)
  PROVE  Below(p, b) \subseteq Below(p, t)
<1>1. ClosedUnder(p, b, Below(p, t))
  BY BelowClosed DEF ClosedUnder
<1> QED
  BY <1>1, BelowLeast, BelowExists

(* Fewer rows, fewer teams below.                                           *)
LEMMA BelowFewer ==
  ASSUME NEW p, NEW q, NEW t, DOMAIN q \subseteq DOMAIN p, \A x \in DOMAIN q : q[x] = p[x]
  PROVE  Below(q, t) \subseteq Below(p, t)
<1> DEFINE S == Below(p, t) \cap DOMAIN q
<1>1. ClosedUnder(q, t, S)
  BY BelowClosed DEF ClosedUnder
<1>2. Below(q, t) \subseteq S
  BY <1>1, BelowLeast
<1> QED
  BY <1>2

(* A team put below one that is neither itself nor below it makes no loop.  *)
LEMMA BelowMoved ==
  ASSUME NEW p, NEW q, NEW m, NEW to, DOMAIN q \subseteq DOMAIN p \cup {m},
         \A x \in DOMAIN q : q[x] = IF x = m THEN to ELSE p[x],
         \A x : x \notin Below(p, x), to # m, to \notin Below(p, m), NEW t
  PROVE  t \notin Below(q, t)
<1>1. CASE to = t \/ to \in Below(p, t)
  <2> DEFINE S == (Below(p, t) \cup {m} \cup Below(p, m)) \cap DOMAIN q
  <2>2. ASSUME NEW c \in DOMAIN q, q[c] = t \/ q[c] \in S PROVE c \in S
    <3>1. CASE c = m
      BY <3>1
    <3>2. CASE c # m
      BY <2>2, <3>2, BelowClosed
    <3> QED
      BY <3>1, <3>2
  <2>3. ClosedUnder(q, t, S)
    BY <2>2, Zenon DEF ClosedUnder
  <2>4. t # m
    BY <1>1
  <2>5. t \notin Below(p, m)
    BY <1>1, BelowTransitive
  <2> QED
    BY <2>3, <2>4, <2>5, BelowLeast
<1>2. CASE ~(to = t \/ to \in Below(p, t))
  <2> DEFINE S == Below(p, t) \cap DOMAIN q
  <2>1. ASSUME NEW c \in DOMAIN q, q[c] = t \/ q[c] \in S PROVE c \in S
    BY <1>2, <2>1, BelowClosed
  <2>2. ClosedUnder(q, t, S)
    BY <2>1, Zenon DEF ClosedUnder
  <2> QED
    BY <2>2, BelowLeast
<1> QED
  BY <1>1, <1>2

(* What a move knows of the rows p of the n teams there have been: as long  *)
(* as its walk is not late, what it has passed leads to what it has passed, *)
(* or to where it is, and its team is not among it.                         *)
Climbed(r, p) ==
  /\ r.team \notin r.passed
  /\ r.op = "climb" => /\ r.to \in r.passed \cup {r.at}
                       /\ \A c \in r.passed \cap DOMAIN p : p[c] \in r.passed \cup {r.at, NoTeam}
  /\ r.op # "climb" => /\ r.to \in r.passed
                       /\ \A c \in r.passed \cap DOMAIN p : p[c] \in r.passed \cup {NoTeam}
Careful(r, p, n) ==
  r.op \in MoveOps => /\ {r.team, r.to, r.at} \cup r.passed \subseteq 1..n
                      /\ "climb" \notin r.late => Climbed(r, p)

TreeInv == /\ Ids /\ LoopsAreOvertaken
           /\ \A s \in Sessions : Careful(req[s], parent, lastTeam)

(* A move that waits still knows it, if what other steps do to the rows of  *)
(* teams it has passed is to make them roots, or makes it late.             *)
LEMMA StillCareful ==
  ASSUME NEW r, NEW q, Later(r, q), NEW p, NEW n \in Nat, Careful(r, p, n), NEW p2, NEW n2 \in Nat,
         n <= n2,
         \A c \in DOMAIN p2 : \/ c \in DOMAIN p /\ p2[c] = p[c]
                              \/ p2[c] = NoTeam
                              \/ c \notin 1..n
                              \/ (q.op \in MoveOps /\ c \in q.passed) => "climb" \in q.late
  PROVE  Careful(q, p2, n2)
<1> SUFFICES ASSUME q.op \in MoveOps PROVE Careful(q, p2, n2)
  BY DEF Careful
<1>1. {r.team, r.to, r.at} \cup r.passed \subseteq 1..n
  BY DEF Careful, Later
<1>2. {q.team, q.to, q.at} \cup q.passed \subseteq 1..n2
  BY <1>1 DEF Later
<1>3. ASSUME "climb" \notin q.late PROVE Climbed(q, p2)
  <2>1. Climbed(r, p)
    BY <1>3 DEF Careful, Later
  <2>2. \A c \in q.passed \cap DOMAIN p2 : p2[c] = NoTeam \/ (c \in DOMAIN p /\ p2[c] = p[c])
    BY <1>1, <1>3 DEF Later
  <2> QED
    BY <2>1, <2>2 DEF Climbed, Later
<1> QED
  BY <1>2, <1>3 DEF Careful

LEMMA TreeStill ==
  ASSUME TreeInv, UNCHANGED tree, NEW s \in Sessions, Others(s), Careful(req'[s], parent, lastTeam)
  PROVE  TreeInv'
<1>1. /\ lastTeam' = lastTeam /\ parent' = parent /\ Ids' /\ LoopsAreOvertaken'
      /\ lastTeam \in Nat
  BY DEF TreeInv, tree, Ids, LoopsAreOvertaken, Trusted
<1>2. ASSUME NEW d \in Sessions \ {s} PROVE Careful(req'[d], parent', lastTeam')
  <2>1. Later(req[d], req'[d]) /\ Careful(req[d], parent, lastTeam)
    BY DEF Others, TreeInv
  <2> QED
    BY <1>1, <2>1, StillCareful
<1> QED
  BY <1>1, <1>2 DEF TreeInv

(* The statements of members' requests.                                     *)
LEMMA TurnTree ==
  ASSUME TreeInv, NEW s \in Sessions, Turn(s), UNCHANGED tree
  PROVE  TreeInv'
  BY TreeStill DEF Turn, Careful

(* The rows there are, but for those in doubt.                              *)
LEMMA TrustedRows ==
  /\ DOMAIN Trusted = DOMAIN parent \ suspect
  /\ \A x \in DOMAIN Trusted : Trusted[x] = parent[x]
  BY DEF Trusted

LEMMA TrustedRowsNext ==
  /\ DOMAIN Trusted' = DOMAIN parent' \ suspect'
  /\ \A x \in DOMAIN Trusted' : Trusted'[x] = parent'[x]
  BY DEF Trusted

LEMMA NoneBelow ==
  ASSUME LoopsAreOvertaken, NEW t
  PROVE  t \notin Below(Trusted, t)
  BY BelowExists DEF LoopsAreOvertaken

(* A team m is put below to, or made, or made a root.                       *)
LEMMA PutTrusted ==
  ASSUME LoopsAreOvertaken, NEW m, NEW to, DOMAIN parent' \subseteq DOMAIN parent \cup {m},
         \A x \in DOMAIN parent' : parent'[x] = IF x = m THEN to ELSE parent[x],
         suspect \ {m} \subseteq suspect', to # m, to \notin Below(Trusted, m)
  PROVE  LoopsAreOvertaken'
<1>1. DOMAIN Trusted' \subseteq DOMAIN Trusted \cup {m}
  BY TrustedRows, TrustedRowsNext
<1>2. \A x \in DOMAIN Trusted' : Trusted'[x] = IF x = m THEN to ELSE Trusted[x]
  BY <1>1, TrustedRows, TrustedRowsNext
<1>3. \A x : x \notin Below(Trusted, x)
  BY NoneBelow
<1>4. PICK p, q : p = Trusted /\ q = Trusted'
  OBVIOUS
<1>5. \A t : t \notin Below(q, t)
  BY <1>1, <1>2, <1>3, <1>4, BelowMoved
<1> QED
  BY <1>4, <1>5 DEF LoopsAreOvertaken

(* Rows go, or come into doubt.                                             *)
LEMMA FewerTrusted ==
  ASSUME LoopsAreOvertaken, DOMAIN Trusted' \subseteq DOMAIN Trusted,
         \A x \in DOMAIN Trusted' : Trusted'[x] = Trusted[x]
  PROVE  LoopsAreOvertaken'
<1>1. PICK p, q : p = Trusted /\ q = Trusted'
  OBVIOUS
<1>2. \A t : Below(q, t) \subseteq Below(p, t)
  BY <1>1, BelowFewer
<1> QED
  BY <1>1, <1>2, NoneBelow DEF LoopsAreOvertaken

LEMMA CreateTree ==
  ASSUME TreeInv, Shaped, NEW s \in Sessions, NEW p \in Seen \cup {NoTeam}, CreateTeam(s, p)
  PROVE  TreeInv'
<1>1. /\ lastTeam' = lastTeam + 1 /\ DOMAIN parent' = DOMAIN parent \cup {lastTeam'}
      /\ \A x \in DOMAIN parent' : parent'[x] = IF x = lastTeam' THEN p ELSE parent[x]
      /\ UNCHANGED <<req, suspect>>
  BY DEF CreateTeam
<1>2. /\ lastTeam \in Nat \ {0} /\ DOMAIN parent \subseteq 1..lastTeam
      /\ \A t \in DOMAIN parent : parent[t] \in 0..lastTeam
  BY DEF TreeInv, Ids
<1>3. p \in 0..lastTeam
  BY <1>2 DEF Seen, NoTeam
<1>4. Ids'
  BY <1>1, <1>2, <1>3 DEF Ids
<1>5. LoopsAreOvertaken'
  <2>1. PICK n : n = lastTeam + 1
    OBVIOUS
  <2>2. n \notin 0..lastTeam /\ n \notin DOMAIN parent
    BY <1>2, <2>1
  <2>3. ClosedUnder(Trusted, n, {})
    BY <1>2, <2>2, TrustedRows DEF ClosedUnder
  <2>4. Below(Trusted, n) = {}
    BY <2>3, BelowLeast
  <2> QED
    BY <1>1, <1>3, <2>1, <2>2, <2>4, PutTrusted DEF TreeInv
<1>6. ASSUME NEW d \in Sessions PROVE Careful(req'[d], parent', lastTeam')
  <2>1. Later(req[d], req'[d]) /\ Careful(req[d], parent, lastTeam)
    BY <1>1, Waiting DEF TreeInv
  <2>2. \A c \in DOMAIN parent' : (c \in DOMAIN parent /\ parent'[c] = parent[c]) \/ c \notin 1..lastTeam
    BY <1>1, <1>2
  <2>3. lastTeam \in Nat /\ lastTeam' \in Nat /\ lastTeam <= lastTeam'
    BY <1>1, <1>2
  <2> QED
    BY <2>1, <2>2, <2>3, StillCareful
<1> QED
  BY <1>4, <1>5, <1>6 DEF TreeInv

LEMMA DeleteTree ==
  ASSUME TreeInv, Shaped, NEW s \in Sessions, NEW t, DeleteTeam(s, t)
  PROVE  TreeInv'
<1>1. /\ lastTeam' = lastTeam /\ DOMAIN parent' \subseteq DOMAIN parent
      /\ \A x \in DOMAIN parent' : parent'[x] = parent[x]
      /\ UNCHANGED <<req, suspect>>
  BY DEF DeleteTeam
<1>2. Ids' /\ lastTeam \in Nat
  BY <1>1 DEF TreeInv, Ids
<1>3. LoopsAreOvertaken'
  <2>1. DOMAIN Trusted' \subseteq DOMAIN Trusted /\ \A x \in DOMAIN Trusted' : Trusted'[x] = Trusted[x]
    BY <1>1, TrustedRows, TrustedRowsNext
  <2> QED
    BY <2>1, FewerTrusted DEF TreeInv
<1>4. ASSUME NEW d \in Sessions PROVE Careful(req'[d], parent', lastTeam')
  <2>1. Later(req[d], req'[d]) /\ Careful(req[d], parent, lastTeam)
    BY <1>1, Waiting DEF TreeInv
  <2> QED
    BY <1>1, <1>2, <2>1, StillCareful
<1> QED
  BY <1>2, <1>3, <1>4 DEF TreeInv

(* A move begins, or makes its team a root at once.                         *)
LEMMA MoveTree ==
  ASSUME TreeInv, Shaped, NEW s \in Sessions, NEW t \in Seen, NEW p \in Seen \cup {NoTeam},
         MoveTeam(s, t, p)
  PROVE  TreeInv'
<1>2. /\ lastTeam \in Nat \ {0} /\ DOMAIN parent \subseteq 1..lastTeam
      /\ \A x \in DOMAIN parent : parent[x] \in 0..lastTeam
  BY DEF TreeInv, Ids
<1>3. CASE p = NoTeam
  <2>1. /\ lastTeam' = lastTeam /\ UNCHANGED req /\ suspect' = suspect \ {t}
        /\ DOMAIN parent' = DOMAIN parent
        /\ \A x \in DOMAIN parent' : parent'[x] = IF x = t THEN NoTeam ELSE parent[x]
    BY <1>3 DEF MoveTeam, SetParent
  <2>2. Ids'
    BY <1>2, <2>1 DEF Ids, NoTeam
  <2>3. NoTeam # t /\ NoTeam \notin DOMAIN parent
    BY <1>2 DEF NoTeam, Seen
  <2>4. NoTeam \notin Below(Trusted, t)
    BY <2>3, BelowExists, TrustedRows
  <2>5. LoopsAreOvertaken'
    BY <2>1, <2>3, <2>4, PutTrusted DEF TreeInv
  <2>6. ASSUME NEW d \in Sessions PROVE Careful(req'[d], parent', lastTeam')
    <3>1. Later(req[d], req'[d]) /\ Careful(req[d], parent, lastTeam)
      BY <2>1, Waiting DEF TreeInv
    <3>2. lastTeam \in Nat
      BY <1>2
    <3> QED
      BY <2>1, <3>1, <3>2, StillCareful
  <2> QED
    BY <2>2, <2>5, <2>6 DEF TreeInv
<1>4. CASE p # NoTeam
  <2>1. /\ UNCHANGED tree /\ t # p
        /\ Do(s, [Idle EXCEPT !.op = "climb", !.team = t, !.to = p, !.at = p])
    BY <1>4 DEF MoveTeam, tree
  <2>2. Formed(Idle)
    BY IdleFormed
  <2>3. [Idle EXCEPT !.op = "climb", !.team = t, !.to = p, !.at = p]
          = Req("climb", Idle.user, t, p, Idle.from, p, Idle.todo, Idle.passed, Idle.late)
    BY <2>2, SetOpTeamToAt, Zenon
  <2>4. PICK q : q = Req("climb", Idle.user, t, p, Idle.from, p, Idle.todo, Idle.passed, Idle.late)
    OBVIOUS
  <2>5. /\ q.op = "climb" /\ q.team = t /\ q.to = p /\ q.at = p /\ q.passed = {}
    <3>1. Idle.passed = {}
      BY DEF Idle
    <3> QED
      BY <2>4, <3>1, ReqFormed
  <2>6. Do(s, q)
    BY <2>1, <2>3, <2>4, Zenon
  <2>7. Others(s) /\ req'[s] = q
    BY <2>6, DoOthers
  <2>8. Careful(q, parent, lastTeam)
    BY <1>4, <2>5 DEF Careful, Climbed, Seen
  <2> QED
    BY <2>1, <2>7, <2>8, TreeStill
<1> QED
  BY <1>3, <1>4

(* The walk up, and what follows it.                                        *)
LEMMA ClimbTree ==
  ASSUME TreeInv, Shaped, NEW s \in Sessions, Climb(s) \/ ParentExists(s)
  PROVE  TreeInv'
<1>0. UNCHANGED tree
  BY DEF Climb, ParentExists
<1>1. PICK r : r = req[s] /\ Formed(r) /\ Careful(r, parent, lastTeam)
  BY DEF Shaped, TreeInv
<1>f. Formed(r)
  BY <1>1
<1>2. /\ lastTeam \in Nat \ {0} /\ DOMAIN parent \subseteq 1..lastTeam
      /\ \A x \in DOMAIN parent : parent[x] \in 0..lastTeam
  BY DEF TreeInv, Ids
<1>3. ASSUME NEW q, Do(s, q), Careful(q, parent, lastTeam) PROVE TreeInv'
  <2>1. Others(s) /\ req'[s] = q
    BY <1>3, DoOthers
  <2> QED
    BY <1>0, <1>3, <2>1, TreeStill
<1>4. CASE Done(s)
  <2>1. Careful(Idle, parent, lastTeam)
    BY IdleFormed DEF Careful, MoveOps
  <2> QED
    BY <1>3, <1>4, <2>1 DEF Done
<1>5. CASE ParentExists(s) /\ ~Done(s)
  <2>1. r.op = "exists" /\ Do(s, [r EXCEPT !.op = "move"])
    BY <1>1, <1>5 DEF ParentExists, Step
  <2>2. [r EXCEPT !.op = "move"]
          = Req("move", r.user, r.team, r.to, r.from, r.at, r.todo, r.passed, r.late)
    BY <1>f, SetOp, Zenon
  <2>3. PICK q : q = Req("move", r.user, r.team, r.to, r.from, r.at, r.todo, r.passed, r.late)
    OBVIOUS
  <2>4. /\ q.op = "move" /\ q.team = r.team /\ q.to = r.to /\ q.at = r.at /\ q.passed = r.passed
        /\ q.late = r.late
    BY <2>3, ReqFormed
  <2>5. Careful(q, parent, lastTeam)
    BY <1>1, <2>1, <2>4 DEF Careful, Climbed, MoveOps
  <2>6. Do(s, q)
    BY <2>1, <2>2, <2>3, Zenon
  <2> QED
    BY <1>3, <2>5, <2>6
<1>6. CASE Climb(s) /\ ~Done(s)
  <2>1. r.op = "climb" /\ r.at # r.team
    BY <1>1, <1>6 DEF Climb, Step
  <2>2. PICK up, passed, late :
          /\ up = IF r.at \in DOMAIN parent THEN parent[r.at] ELSE NoTeam
          /\ passed = r.passed \cup {r.at} /\ late = {"climb"}
          /\ \/ up = NoTeam /\ Do(s, [r EXCEPT !.op = "exists", !.passed = passed])
             \/ up # NoTeam /\ Do(s, [r EXCEPT !.at = up, !.passed = passed])
             \/ Do(s, [r EXCEPT !.op = "exists", !.late = late])
    BY <1>1, <1>6 DEF Climb
  <2>3. {r.team, r.to, r.at} \cup passed \subseteq 1..lastTeam
    BY <1>1, <2>1, <2>2 DEF Careful, MoveOps
  <2>4. ASSUME "climb" \notin r.late
        PROVE  /\ r.team \notin passed /\ r.to \in passed
               /\ \A c \in passed \cap DOMAIN parent : parent[c] \in passed \cup {up, NoTeam}
    <3>1. Climbed(r, parent)
      BY <1>1, <2>1, <2>4 DEF Careful, MoveOps
    <3> QED
      BY <2>1, <2>2, <3>1 DEF Climbed
  <2>5. CASE up = NoTeam /\ Do(s, [r EXCEPT !.op = "exists", !.passed = passed])
    <3>1. [r EXCEPT !.op = "exists", !.passed = passed]
            = Req("exists", r.user, r.team, r.to, r.from, r.at, r.todo, passed, r.late)
      BY <1>f, SetOpPassed, Zenon
    <3>2. PICK q : q = Req("exists", r.user, r.team, r.to, r.from, r.at, r.todo, passed, r.late)
      OBVIOUS
    <3>3. /\ q.op = "exists" /\ q.team = r.team /\ q.to = r.to /\ q.at = r.at /\ q.passed = passed
          /\ q.late = r.late
      BY <3>2, ReqFormed
    <3>4. Careful(q, parent, lastTeam)
      BY <2>3, <2>4, <2>5, <3>3 DEF Careful, Climbed
    <3>5. Do(s, q)
      BY <2>5, <3>1, <3>2, Zenon
    <3> QED
      BY <1>3, <3>4, <3>5
  <2>6. CASE up # NoTeam /\ Do(s, [r EXCEPT !.at = up, !.passed = passed])
    <3>1. [r EXCEPT !.at = up, !.passed = passed]
            = Req(r.op, r.user, r.team, r.to, r.from, up, r.todo, passed, r.late)
      BY <1>f, SetAtPassed, Zenon
    <3>2. PICK q : q = Req(r.op, r.user, r.team, r.to, r.from, up, r.todo, passed, r.late)
      OBVIOUS
    <3>3. /\ q.op = "climb" /\ q.team = r.team /\ q.to = r.to /\ q.at = up /\ q.passed = passed
          /\ q.late = r.late
      BY <2>1, <3>2, ReqFormed
    <3>4. up \in 1..lastTeam
      BY <1>2, <2>2, <2>6 DEF NoTeam
    <3>5. Careful(q, parent, lastTeam)
      BY <2>3, <2>4, <3>3, <3>4 DEF Careful, Climbed
    <3>6. Do(s, q)
      BY <2>6, <3>1, <3>2, Zenon
    <3> QED
      BY <1>3, <3>5, <3>6
  <2>7. CASE Do(s, [r EXCEPT !.op = "exists", !.late = late])
    <3>1. [r EXCEPT !.op = "exists", !.late = late]
            = Req("exists", r.user, r.team, r.to, r.from, r.at, r.todo, r.passed, late)
      BY <1>f, SetOpLate, Zenon
    <3>2. PICK q : q = Req("exists", r.user, r.team, r.to, r.from, r.at, r.todo, r.passed, late)
      OBVIOUS
    <3>3. /\ q.op = "exists" /\ q.team = r.team /\ q.to = r.to /\ q.at = r.at /\ q.passed = r.passed
          /\ "climb" \in q.late
      BY <2>2, <3>2, ReqFormed
    <3>4. Careful(q, parent, lastTeam)
      BY <2>2, <2>3, <3>3 DEF Careful
    <3>5. Do(s, q)
      BY <2>7, <3>1, <3>2, Zenon
    <3> QED
      BY <1>3, <3>4, <3>5
  <2> QED
    BY <2>2, <2>5, <2>6, <2>7
<1> QED
  BY <1>4, <1>5, <1>6

(* The team is moved.  On a walk that is not late: what is not passed is    *)
(* all there is that may be below the team, and the new parent is passed.   *)
LEMMA FinishTree ==
  ASSUME TreeInv, Shaped, NEW s \in Sessions, FinishMove(s)
  PROVE  TreeInv'
<1>1. PICK r : r = req[s] /\ Careful(r, parent, lastTeam) /\ r.op = "move"
  BY DEF TreeInv, FinishMove, Step
<1>2. /\ lastTeam \in Nat \ {0} /\ DOMAIN parent \subseteq 1..lastTeam
      /\ \A x \in DOMAIN parent : parent[x] \in 0..lastTeam
  BY DEF TreeInv, Ids
<1>3. CASE Done(s) /\ UNCHANGED tree
  <2>1. Others(s) /\ req'[s] = Idle
    BY <1>3, DoOthers DEF Done
  <2>2. Careful(Idle, parent, lastTeam)
    BY IdleFormed DEF Careful, MoveOps
  <2> QED
    BY <1>3, <2>1, <2>2, TreeStill
<1>4. CASE /\ SetParent(r.team, r.to) /\ DoBefore(s, Idle, "climb", Relying(r.team))
           /\ lastTeam' = lastTeam
           /\ suspect' = IF "climb" \in r.late THEN suspect \cup {r.team} ELSE suspect \ {r.team}
  <2>1. /\ DOMAIN parent' = DOMAIN parent
        /\ \A x \in DOMAIN parent' : parent'[x] = IF x = r.team THEN r.to ELSE parent[x]
    BY <1>4 DEF SetParent
  <2>2. {r.team, r.to} \cup r.passed \subseteq 1..lastTeam
    BY <1>1 DEF Careful, MoveOps
  <2>3. Ids'
    BY <1>2, <1>4, <2>1, <2>2 DEF Ids
  <2>4. /\ DOMAIN req' = Sessions /\ req'[s] = Idle
        /\ \A d \in Sessions \ {s} : /\ Later(req[d], req'[d])
                                     /\ d \in Relying(r.team) => "climb" \in req'[d].late
    BY <1>4, DoesBefore
  <2>5. ASSUME NEW d \in Sessions \ {s} PROVE Careful(req'[d], parent', lastTeam')
    <3>1. Later(req[d], req'[d]) /\ Careful(req[d], parent, lastTeam)
      BY <2>4 DEF TreeInv
    <3>2. req'[d].op \in MoveOps /\ r.team \in req'[d].passed => "climb" \in req'[d].late
      BY <2>4, <3>1 DEF Relying, Later, Step, MoveOps
    <3>3. lastTeam \in Nat /\ lastTeam' = lastTeam
      BY <1>2, <1>4
    <3> QED
      BY <2>1, <3>1, <3>2, <3>3, StillCareful
  <2>6. Careful(req'[s], parent', lastTeam')
    BY <2>4, IdleFormed DEF Careful, MoveOps
  <2>7. CASE "climb" \in r.late
    <3>1. DOMAIN Trusted' \subseteq DOMAIN Trusted /\ \A x \in DOMAIN Trusted' : Trusted'[x] = Trusted[x]
      BY <1>4, <2>1, <2>7, TrustedRows, TrustedRowsNext
    <3>2. LoopsAreOvertaken'
      BY <3>1, FewerTrusted DEF TreeInv
    <3> QED
      BY <2>3, <2>5, <2>6, <3>2 DEF TreeInv
  <2>8. CASE "climb" \notin r.late
    <3>1. /\ r.team \notin r.passed /\ r.to \in r.passed
          /\ \A c \in r.passed \cap DOMAIN parent : parent[c] \in r.passed \cup {NoTeam}
      BY <1>1, <2>8 DEF Careful, Climbed, MoveOps
    <3> DEFINE S == DOMAIN Trusted \ r.passed
    <3>2. ASSUME NEW c \in DOMAIN Trusted, Trusted[c] = r.team \/ Trusted[c] \in S PROVE c \in S
      <4>1. SUFFICES ASSUME c \in r.passed PROVE FALSE
        OBVIOUS
      <4>2. Trusted[c] \in r.passed \cup {NoTeam}
        BY <3>1, <4>1, TrustedRows
      <4>3. r.team # NoTeam /\ NoTeam \notin DOMAIN Trusted
        BY <1>2, <2>2, TrustedRows DEF NoTeam
      <4> QED
        BY <3>1, <3>2, <4>2, <4>3
    <3>3. ClosedUnder(Trusted, r.team, S)
      BY <3>2, Zenon DEF ClosedUnder
    <3>4. r.to \notin Below(Trusted, r.team) /\ r.to # r.team
      BY <3>1, <3>3, BelowLeast
    <3>5. LoopsAreOvertaken'
      BY <1>4, <2>1, <2>8, <3>4, PutTrusted DEF TreeInv
    <3> QED
      BY <2>3, <2>5, <2>6, <3>5 DEF TreeInv
  <2> QED
    BY <2>7, <2>8
<1> QED
  BY <1>1, <1>3, <1>4 DEF FinishMove, tree

LEMMA CrashTree == TreeInv /\ Crash => TreeInv'
<1> SUFFICES ASSUME TreeInv, Crash PROVE TreeInv'
  OBVIOUS
<1>1. /\ \A s \in Sessions : req'[s] = Idle
      /\ lastTeam' = lastTeam /\ parent' = parent /\ suspect' = suspect
  BY DEF Crash, tree
<1>2. \A n, p : Careful(Idle, p, n)
  BY IdleFormed DEF Careful, MoveOps
<1> QED
  BY <1>1, <1>2 DEF TreeInv, Ids, LoopsAreOvertaken, Trusted

LEMMA StutterTree == TreeInv /\ UNCHANGED vars => TreeInv'
  BY DEF TreeInv, Ids, LoopsAreOvertaken, Trusted, vars

-----------------------------------------------------------------------------
(* Every step.                                                              *)
Statement(s) == \/ EnsureUserTeamMembership(s) \/ Descend(s) \/ NextDescendant(s)
                \/ CheckDirect(s) \/ CheckExists(s) \/ Inherit(s)
                \/ OptOut(s) \/ Leave(s) \/ Cascade(s) \/ ReadOptOuts(s) \/ ForgetOptOut(s)

LEMMA StatementStep ==
  ASSUME MembersInv, TreeInv, NEW s \in Sessions, Statement(s)
  PROVE  MembersInv' /\ TreeInv'
<1>1. MembersInv' /\ Turn(s)
  BY EnsureMembers, ReadMembers, NextMembers, DirectMembers, ExistsMembers,
     InheritMembers, OptOutMembers, RemovalMembers DEF Statement
<1>2. UNCHANGED tree
  BY DEF Statement, EnsureUserTeamMembership, Descend, NextDescendant, CheckDirect, CheckExists,
     Inherit, OptOut, Leave, Cascade, ReadOptOuts, ForgetOptOut
<1> QED
  BY <1>1, <1>2, TurnTree

LEMMA MemberStepStep ==
  ASSUME MembersInv, TreeInv, NEW s \in Sessions, MemberStep(s)
  PROVE  MembersInv' /\ TreeInv'
<1>1. PICK u \in Users, t \in Seen :
        \/ AssignUserToTeam(s, u, t) \/ RemoveUserFromTeam(s, u, t)
        \/ UpsertUserTeam(s, u, t)   \/ DeleteUserTeam(s, u, t)
  BY DEF MemberStep
<1>2. t # Direct
  BY DEF Seen, Direct, Ids, TreeInv
<1>3. MembersInv' /\ Turn(s)
  BY <1>1, <1>2, StartMembers, UpsertMembers
<1>4. UNCHANGED tree
  BY <1>1 DEF AssignUserToTeam, RemoveUserFromTeam, UpsertUserTeam, DeleteUserTeam
<1> QED
  BY <1>3, <1>4, TurnTree

LEMMA TreeStepStep ==
  ASSUME MembersInv, TreeInv, NEW s \in Sessions, TreeStep(s) \/ MoveStep(s)
  PROVE  MembersInv' /\ TreeInv'
<1>1. Shaped
  BY DEF MembersInv
<1> QED
  BY <1>1, TreeMembers, CreateTree, DeleteTree, MoveTree DEF TreeStep, MoveStep

LEMMA InvStep == MembersInv /\ TreeInv /\ [Next]_vars => MembersInv' /\ TreeInv'
<1> SUFFICES ASSUME MembersInv, TreeInv, [Next]_vars PROVE MembersInv' /\ TreeInv'
  OBVIOUS
<1>1. TreeAdmins \cup Movers \cup MemberAdmins \subseteq Sessions /\ Shaped
  BY SessionsAssumption DEF MembersInv
<1>2. ASSUME NEW s \in Sessions, Climb(s) \/ ParentExists(s) \/ FinishMove(s)
      PROVE  MembersInv' /\ TreeInv'
  BY <1>1, <1>2, MoveMembers, ClimbTree, FinishTree
<1>3. CASE UNCHANGED vars
  BY <1>3, StutterMembers, StutterTree
<1>4. CASE Crash
  BY <1>4, CrashMembers, CrashTree
<1>5. CASE \/ \E s \in TreeAdmins : TreeStep(s)
           \/ \E s \in Movers : MoveStep(s)
           \/ \E s \in MemberAdmins : MemberStep(s)
  BY <1>1, <1>5, TreeStepStep, MemberStepStep
<1>6. CASE \E s \in Sessions : Statement(s)
  BY <1>6, StatementStep
<1> QED
  BY <1>2, <1>3, <1>4, <1>5, <1>6 DEF Next, Statement

LEMMA InvInit == Init => MembersInv /\ TreeInv
<1> SUFFICES ASSUME Init PROVE MembersInv /\ TreeInv
  OBVIOUS
<1>1. MembersInv
  BY IdleFormed DEF Init, MembersInv, Shaped, AllChecked, Checked, OptOutsInherited
<1>2. Ids /\ \A s \in Sessions : Careful(req[s], parent, lastTeam)
  BY IdleFormed DEF Init, Ids, Careful, MoveOps, Root, NoTeam
<1>3. LoopsAreOvertaken
  <2>1. \A t \in DOMAIN Trusted : ClosedUnder(Trusted, t, {})
    BY TrustedRows DEF Init, ClosedUnder, Root, NoTeam
  <2> QED
    BY <2>1, BelowLeast DEF LoopsAreOvertaken
<1> QED
  BY <1>1, <1>2, <1>3 DEF TreeInv

LEMMA Prepared == Spec => [](MembersInv /\ TreeInv)
  BY InvInit, InvStep, PTL DEF Spec

(* However many sessions move teams at once, whatever statements fail and   *)
(* whenever the server stops, every loop in the tree goes through a team    *)
(* that was moved on a walk that broke off, or that another move overtook.  *)
THEOREM TreeHasNoLoop == Spec => []LoopsAreOvertaken
<1>1. MembersInv /\ TreeInv => LoopsAreOvertaken
  BY DEF TreeInv
<1> QED
  BY <1>1, Prepared, PTL

-----------------------------------------------------------------------------
(* A step with an effect on the memberships is one of these.                *)
LEMMA StepKinds ==
  ASSUME [Next]_vars
  PROVE  \/ UNCHANGED members
         \/ Fewer
         \/ \E k : Puts(k, Direct) /\ astray' = astray \ {k}
         \/ \E s \in Sessions : Inherit(s) \/ OptOut(s)
<1>1. TreeAdmins \cup Movers \cup MemberAdmins \subseteq Sessions
  BY SessionsAssumption
<1>2. CASE UNCHANGED vars \/ Crash
  BY <1>2 DEF vars, members, Crash
<1>3. ASSUME NEW s, Quiet(s) PROVE UNCHANGED members
  BY <1>3, Effects
<1>4. ASSUME NEW s \in MemberAdmins, MemberStep(s)
      PROVE  \/ UNCHANGED members
             \/ Fewer
             \/ \E k : Puts(k, Direct) /\ astray' = astray \ {k}
  BY <1>4, MemberEffects DEF MemberStep
<1>5. ASSUME NEW s, EnsureUserTeamMembership(s)
      PROVE  UNCHANGED members \/ \E k : Puts(k, Direct) /\ astray' = astray \ {k}
  BY <1>5, Effects
<1>6. ASSUME NEW s, Leave(s) \/ Cascade(s) \/ ForgetOptOut(s) PROVE Fewer
  BY <1>6, Effects
<1> QED
  BY <1>1, <1>2, <1>3, <1>4, <1>5, <1>6 DEF Next, Quiet

KeptDirect ==
  \A k \in Rows : userTeams[k] = Direct =>
     \/ k \notin Rows' \/ userTeams'[k] = Direct
     \/ \E s \in Sessions : Step(s, {"update"}) /\ RowAt(s) = k /\ "direct" \in req[s].late

LEMMA DirectStep ==
  ASSUME MembersInv, [Next]_vars
  PROVE  KeptDirect
<1>1. CASE UNCHANGED members \/ Fewer
  BY <1>1 DEF members, Fewer, KeptDirect
<1>2. ASSUME NEW k, Puts(k, Direct) PROVE KeptDirect
  BY <1>2 DEF Puts, KeptDirect
<1>3. ASSUME NEW s \in Sessions, Inherit(s) PROVE KeptDirect
  <2>1. CASE UNCHANGED members
    BY <2>1 DEF members, KeptDirect
  <2>2. CASE Puts(RowAt(s), req[s].team) /\ (req[s].op = "update") = (RowAt(s) \in Rows)
    <3>1. SUFFICES ASSUME NEW k \in Rows, userTeams[k] = Direct
                   PROVE  \/ userTeams'[k] = Direct
                          \/ Step(s, {"update"}) /\ RowAt(s) = k /\ "direct" \in req[s].late
      BY DEF KeptDirect
    <3>2. CASE k # RowAt(s)
      BY <2>2, <3>1, <3>2 DEF Puts
    <3>3. CASE k = RowAt(s)
      <4>1. req[s].op = "update"
        BY <2>2, <3>1, <3>3
      <4>2. "direct" \in req[s].late
        BY <3>1, <3>3, <4>1 DEF MembersInv, AllChecked, Checked, RowAt, Rows
      <4> QED
        BY <3>3, <4>1, <4>2 DEF Step
    <3> QED
      BY <3>2, <3>3
  <2> QED
    BY <1>3, <2>1, <2>2, Effects
<1>4. ASSUME NEW s \in Sessions, OptOut(s) PROVE KeptDirect
  BY <1>4 DEF OptOut, KeptDirect
<1> QED
  BY <1>1, <1>2, <1>3, <1>4, StepKinds

(* However many sessions assign and remove members at once, only a          *)
(* propagation whose question about a direct membership failed, or was put  *)
(* before it was there, turns it into an inherited one.                     *)
THEOREM DirectStaysDirect == Spec => DirectKept
<1>1. (MembersInv /\ TreeInv) /\ [Next]_vars
        => [\A k \in Rows : userTeams[k] = Direct =>
              \/ k \notin Rows' \/ userTeams'[k] = Direct
              \/ \E s \in Sessions : Step(s, {"update"}) /\ RowAt(s) = k /\ "direct" \in req[s].late]_vars
  BY DirectStep DEF KeptDirect
<1> QED
  BY <1>1, Prepared, PTL DEF Spec, DirectKept

-----------------------------------------------------------------------------
LEMMA InheritHonours ==
  ASSUME MembersInv, OptOutHonoured, NEW s \in Sessions, Inherit(s)
  PROVE  OptOutHonoured'
<1>1. CASE UNCHANGED members
  BY <1>1 DEF members, OptOutHonoured, Rows
<1>2. CASE /\ Puts(RowAt(s), req[s].team)
           /\ astray' = IF "optout" \in req[s].late THEN astray \cup {RowAt(s)}
                                                    ELSE astray \ {RowAt(s)}
  <2>1. SUFFICES ASSUME NEW o \in optouts, NEW k, k = <<o[1], o[2]>>, k \in Rows', userTeams'[k] = o[3]
                 PROVE  k \in astray'
    BY <1>2 DEF Puts, OptOutHonoured
  <2>2. CASE k # RowAt(s)
    <3>1. k \in Rows /\ userTeams[k] = o[3]
      BY <1>2, <2>1, <2>2 DEF Puts
    <3>2. k \in astray
      BY <2>1, <3>1 DEF OptOutHonoured
    <3> QED
      BY <1>2, <2>2, <3>2
  <2>3. CASE k = RowAt(s)
    <3>1. /\ o = <<o[1], o[2], o[3]>> /\ o[1] = req[s].user /\ o[2] = req[s].at
      BY <2>1, <2>3 DEF RowAt, MembersInv, OptOutsInherited
    <3>2. o[3] = req[s].team
      BY <1>2, <2>1, <2>3 DEF Puts
    <3>3. <<req[s].user, req[s].at, req[s].team>> \in optouts
      BY <3>1, <3>2
    <3>4. req[s].op \in {"update", "insert"}
      BY DEF Inherit, Step
    <3>5. "optout" \in req[s].late
      BY <3>3, <3>4 DEF MembersInv, AllChecked, Checked
    <3> QED
      BY <1>2, <2>3, <3>5
  <2> QED
    BY <2>2, <2>3
<1> QED
  BY <1>1, <1>2, Effects

LEMMA OptOutHonours ==
  ASSUME OptOutHonoured, NEW s \in Sessions, OptOut(s)
  PROVE  OptOutHonoured'
<1>1. CASE UNCHANGED members
  BY <1>1 DEF members, OptOutHonoured, Rows
<1>2. CASE /\ optouts' = optouts \cup {<<req[s].user, req[s].team, req[s].from>>}
           /\ UNCHANGED userTeams /\ astray' = astray \cup ({Row(s)} \cap Rows)
  <2>1. SUFFICES ASSUME NEW o \in optouts', <<o[1], o[2]>> \in Rows, userTeams[<<o[1], o[2]>>] = o[3]
                 PROVE  <<o[1], o[2]>> \in astray'
    BY <1>2 DEF OptOutHonoured, Rows
  <2>2. CASE o \in optouts
    BY <1>2, <2>1, <2>2 DEF OptOutHonoured
  <2>3. CASE o = <<req[s].user, req[s].team, req[s].from>>
    BY <1>2, <2>1, <2>3 DEF Row
  <2> QED
    BY <1>2, <2>2, <2>3
<1> QED
  BY <1>1, <1>2, Effects

LEMMA HonouredStep ==
  ASSUME MembersInv, OptOutHonoured, [Next]_vars
  PROVE  OptOutHonoured'
<1>1. CASE UNCHANGED members
  BY <1>1 DEF members, OptOutHonoured, Rows
<1>2. CASE Fewer
  BY <1>2 DEF Fewer, OptOutHonoured
<1>3. ASSUME NEW k, Puts(k, Direct), astray' = astray \ {k} PROVE OptOutHonoured'
  <2>1. SUFFICES ASSUME NEW o \in optouts, <<o[1], o[2]>> \in Rows', userTeams'[<<o[1], o[2]>>] = o[3]
                 PROVE  <<o[1], o[2]>> \in astray'
    BY <1>3 DEF Puts, OptOutHonoured
  <2>2. o[3] # Direct
    BY DEF MembersInv, OptOutsInherited
  <2>3. <<o[1], o[2]>> # k
    BY <1>3, <2>1, <2>2 DEF Puts
  <2> QED
    BY <1>3, <2>1, <2>3 DEF Puts, OptOutHonoured
<1> QED
  BY <1>1, <1>2, <1>3, StepKinds, InheritHonours, OptOutHonours

(* However many sessions assign and remove members and rearrange the tree,  *)
(* a member who is taken out of a team he is in by inheritance and whose    *)
(* opt-out is recorded gets back in from the same team only by a            *)
(* propagation whose question about it failed, or was put before.           *)
THEOREM OptOutsAreHonoured == Spec => []OptOutHonoured
<1>1. Init => OptOutHonoured
  BY DEF Init, OptOutHonoured
<1>2. (MembersInv /\ TreeInv) /\ OptOutHonoured /\ [Next]_vars => OptOutHonoured'
  BY HonouredStep
<1> QED
  BY <1>1, <1>2, Prepared, PTL DEF Spec

=============================================================================
