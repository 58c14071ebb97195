-------------------------- MODULE Workflow_proofs --------------------------
(* The registry, what an alert's workflow sends, and that its dry run is    *)
(* its run, for any plugins, gateways, documents, administrators and bounds.*)
EXTENDS WorkflowPlan, FiniteSetTheorems, WellFoundedInduction, TLAPS

IsSequence(s) == s \in Seq({s[i] : i \in DOMAIN s})

(* A sequence over a set is one over its own elements.                      *)
LEMMA SequenceOf ==
  ASSUME NEW T, NEW s \in Seq(T)
  PROVE  IsSequence(s)
<1>1. DOMAIN s = 1 .. Len(s) /\ Len(s) \in Nat /\ s = [i \in 1 .. Len(s) |-> s[i]]
  OBVIOUS
<1> DEFINE U == {s[i] : i \in DOMAIN s}
<1>2. \A i \in 1 .. Len(s) : s[i] \in U
  BY <1>1
<1> HIDE DEF U
<1>3. s \in Seq(U)
  BY <1>1, <1>2
<1> QED
  BY <1>3 DEF U, IsSequence

LEMMA SequenceBy ==
  ASSUME NEW n \in Nat, NEW s, s = [i \in 1 .. n |-> s[i]]
  PROVE  IsSequence(s) /\ Len(s) = n
<1> DEFINE U == {s[i] : i \in 1 .. n}
<1>1. \A i \in 1 .. n : s[i] \in U
  OBVIOUS
<1> HIDE DEF U
<1>2. s \in Seq(U) /\ Len(s) = n
  BY <1>1
<1> QED
  BY <1>2, SequenceOf

LEMMA NothingIsSequence == IsSequence(<<>>)
<1>1. << >> \in Seq({})
  OBVIOUS
<1> QED
  BY <1>1, SequenceOf

-----------------------------------------------------------------------------
(* The registry objects: the engine has the last.  They grow in number, and *)
(* none gains or loses a manifest.                                          *)
ObjectsInv == IsSequence(registries) /\ engine = Len(registries)
ObjectStays(i) == i \in DOMAIN registries' /\ DOMAIN registries'[i] = DOMAIN registries[i]
ObjectsStay == \A i \in DOMAIN registries : ObjectStays(i)

LEMMA ObjectsAre ==
  ASSUME ObjectsInv
  PROVE  engine \in Nat /\ DOMAIN registries = 1 .. engine
  BY DEF ObjectsInv, IsSequence

LEMMA ObjectAdded ==
  ASSUME ObjectsInv, NEW got, registries' = Append(registries, got), engine' = Len(registries')
  PROVE  /\ ObjectsInv'
         /\ engine' = engine + 1 /\ DOMAIN registries' = 1 .. engine + 1
         /\ registries'[engine + 1] = got
         /\ \A i \in 1 .. engine : registries'[i] = registries[i]
<1> DEFINE S == {registries[i] : i \in DOMAIN registries}
           U == S \cup {got}
<1>1. registries \in Seq(S) /\ engine = Len(registries)
  BY DEF ObjectsInv, IsSequence
<1> HIDE DEF S
<1>2. registries \in Seq(U) /\ got \in U
  BY <1>1
<1> HIDE DEF U
<1>3. /\ registries' \in Seq(U) /\ Len(registries') = engine + 1 /\ DOMAIN registries' = 1 .. engine + 1
      /\ registries'[engine + 1] = got
      /\ \A i \in 1 .. engine : registries'[i] = registries[i]
  BY <1>1, <1>2
<1>4. IsSequence(registries')
  BY <1>3, SequenceOf
<1> QED
  BY <1>3, <1>4 DEF ObjectsInv

LEMMA ObjectChanged ==
  ASSUME ObjectsInv, NEW r, NEW new, registries' = [registries EXCEPT ![r] = new], UNCHANGED engine
  PROVE  /\ ObjectsInv'
         /\ DOMAIN registries' = 1 .. engine
         /\ \A i \in 1 .. engine : registries'[i] = IF i = r THEN new ELSE registries[i]
<1>1. engine \in Nat /\ DOMAIN registries = 1 .. engine
  BY ObjectsAre
<1>2. registries' = [i \in 1 .. engine |-> IF i = r THEN new ELSE registries[i]]
  BY <1>1
<1>3. DOMAIN registries' = 1 .. engine
  BY <1>2
<1>4. \A i \in 1 .. engine : registries'[i] = IF i = r THEN new ELSE registries[i]
  BY <1>2
<1>5. registries' = [i \in 1 .. engine |-> registries'[i]]
  BY <1>2
<1>6. IsSequence(registries') /\ Len(registries') = engine
  BY <1>1, <1>5, SequenceBy
<1> QED
  BY <1>3, <1>4, <1>6 DEF ObjectsInv

LEMMA RestrictedIs ==
  ASSUME NEW f, NEW p, NEW v
  PROVE  /\ DOMAIN Restrict1(f, p, v) = DOMAIN f \cup {p}
         /\ \A x \in DOMAIN f \cup {p} : Restrict1(f, p, v)[x] = IF x = p THEN v ELSE f[x]
  BY DEF Restrict1

(* A step of the registry adds an object or keeps them all.                 *)
LEMMA ObjectsKept ==
  ASSUME ObjectsInv, RegistryStep
  PROVE  ObjectsInv' /\ ObjectsStay
<1>1. engine \in Nat /\ DOMAIN registries = 1 .. engine
  BY ObjectsAre
<1>2. ASSUME UNCHANGED <<registries, engine>> PROVE ObjectsInv' /\ ObjectsStay
  BY <1>2 DEF ObjectsInv, ObjectsStay, ObjectStays
<1>3. ASSUME NEW v \in Views, FinishReload(v) PROVE ObjectsInv' /\ ObjectsStay
  <2>1. registries' = Append(registries, reload[v].got) /\ engine' = Len(registries')
    BY <1>3 DEF FinishReload
  <2> QED
    BY <1>1, <2>1, ObjectAdded DEF ObjectsStay, ObjectStays
<1>4. ASSUME NEW s \in Admins, Update(s) PROVE ObjectsInv' /\ ObjectsStay
  <2>1. UpdateWith(s) /\ UNCHANGED engine
    BY <1>4 DEF Update
  <2>2. CASE upd[s].path \notin DOMAIN registries[upd[s].reg]
    <3>1. UNCHANGED registries
      BY <2>1, <2>2 DEF UpdateWith
    <3> QED
      BY <1>2, <2>1, <3>1
  <2>3. CASE upd[s].path \in DOMAIN registries[upd[s].reg]
    <3>1. PICK m : registries' = [registries EXCEPT ![upd[s].reg] = Restrict1(registries[upd[s].reg], upd[s].path, m)]
      BY <2>1, <2>3 DEF UpdateWith
    <3>2. DOMAIN Restrict1(registries[upd[s].reg], upd[s].path, m) = DOMAIN registries[upd[s].reg]
      BY <2>3 DEF Restrict1
    <3>3. /\ ObjectsInv' /\ DOMAIN registries' = 1 .. engine
          /\ \A i \in 1 .. engine :
               registries'[i] = IF i = upd[s].reg THEN Restrict1(registries[upd[s].reg], upd[s].path, m)
                                                  ELSE registries[i]
      BY <2>1, <3>1, ObjectChanged
    <3> QED
      BY <1>1, <3>2, <3>3 DEF ObjectsStay, ObjectStays
  <2> QED
    BY <2>2, <2>3
<1>5. \/ \E v \in Views : BeginReload(v) \/ ReadManifest(v)
      \/ \E s \in Admins : (\E p \in Paths : AskUpdate(s, p)) \/ OpenManifest(s) \/ WriteManifest(s) \/ WriteFails(s)
      => UNCHANGED <<registries, engine>>
  BY DEF BeginReload, ReadManifest, AskUpdate, OpenManifest, WriteManifest, WriteFails
<1> QED
  BY <1>2, <1>3, <1>4, <1>5 DEF RegistryStep

-----------------------------------------------------------------------------
(* Files and objects hold manifests; a file may be empty or torn instead.   *)
Manifests ==
  /\ DOMAIN files = Paths
  /\ \A p \in Paths : ~IsJSON(files[p]) \/ IsManifest(files[p])
  /\ \A i \in DOMAIN registries : \A p \in DOMAIN registries[i] : IsManifest(registries[i][p])

Waiting(u) == u = [step |-> "lock", path |-> u.path, reg |-> u.reg]
Changing(u) == /\ u.step \in {"open", "write"}
               /\ u = [step |-> u.step, path |-> u.path, reg |-> u.reg, data |-> u.data]
Update1(u) == u.path \in Paths /\ u.reg \in DOMAIN registries /\ (Waiting(u) \/ Changing(u))

UpdateShape ==
  /\ DOMAIN upd = Admins /\ DOMAIN answer = Paths
  /\ \A s \in Admins : upd[s] = Idle \/ Update1(upd[s])

(* A reload in progress knows which updates it has met, and of every other  *)
(* path it has read, it has got what is in the file.                        *)
Reload1(l) ==
  /\ l = Load(l.todo, l.got, l.crossed)
  /\ l.todo \subseteq Paths /\ l.todo \cap DOMAIN l.got = {}
  /\ \A p \in DOMAIN l.got : IsManifest(l.got[p])
ReadRight(l, p) == IF IsJSON(files[p]) THEN p \in DOMAIN l.got /\ l.got[p] = files[p] ELSE p \notin DOMAIN l.got
ReloadShape == DOMAIN reload = Views /\ \A v \in Views : reload[v] = Idle \/ Reload1(reload[v])
ReloadMet == \A v \in Views : Loading(v) => \A s \in Admins : upd[s] # Idle => upd[s].path \in reload[v].crossed
ReloadReads ==
  \A v \in Views : Loading(v) =>
    \A p \in Paths : p \notin reload[v].crossed /\ p \notin reload[v].todo => ReadRight(reload[v], p)

(* One update at a time changes an object, and writes what it holds.        *)
OneWriter ==
  /\ \A s, t \in Admins : Writing(s) /\ Writing(t) /\ upd[s].reg = upd[t].reg => s = t
  /\ \A s \in Admins : Writing(s) =>
       upd[s].path \in DOMAIN registries[upd[s].reg] /\ upd[s].data = registries[upd[s].reg][upd[s].path]

(* Of a path that has not been crossed, updates change the engine's object, *)
(* and find the file as they have left it.                                  *)
Settled(s) ==
  upd[s] # Idle /\ upd[s].path \notin crossed =>
    /\ upd[s].reg = engine
    /\ upd[s].step = "write" => files[upd[s].path] = Empty

(* What was answered is in the file, and in the object once there is one.   *)
BeingWritten(p) == \E s \in Admins : Writing(s) /\ upd[s].path = p
InFile(p) ==
  /\ IsJSON(files[p])
  /\ engine # 0 => p \in DOMAIN registries[engine] /\ files[p] = registries[engine][p]
Saved == \A p \in Paths : p \notin crossed /\ answer[p] = "ok" /\ ~BeingWritten(p) => InFile(p)

Shapes == ObjectsInv /\ Manifests /\ UpdateShape /\ ReloadShape
RegistryInv == Shapes /\ ReloadMet /\ ReloadReads /\ OneWriter /\ (\A s \in Admins : Settled(s)) /\ Saved

-----------------------------------------------------------------------------
LEMMA ManifestIsJSON == \A m : IsManifest(m) => IsJSON(m)
  BY DEF IsManifest, IsJSON, Empty, Torn

LEMMA NotJSON == ~IsJSON(Empty) /\ ~IsJSON(Torn)
  BY DEF IsJSON

LEMMA IdleStep == Idle.step = "idle"
  BY DEF Idle

LEMMA LoadFields ==
  \A t, g, x : /\ Load(t, g, x).step = "loading" /\ Load(t, g, x).todo = t
               /\ Load(t, g, x).got = g /\ Load(t, g, x).crossed = x
  BY DEF Load

LEMMA RegistryInit ==
  ASSUME InitRegistry
  PROVE  RegistryInv
<1>1. \A s \in Admins : upd[s] = Idle /\ ~Writing(s)
  BY IdleStep DEF InitRegistry, Writing
<1>2. \A v \in Views : reload[v] = Idle /\ ~Loading(v)
  BY IdleStep DEF InitRegistry, Loading
<1>3. ObjectsInv
  BY NothingIsSequence DEF InitRegistry, ObjectsInv
<1>4. Manifests
  BY ShippedAssumption DEF InitRegistry, Manifests
<1>5. UpdateShape /\ ReloadShape
  BY DEF InitRegistry, UpdateShape, ReloadShape
<1>6. Saved
  BY DEF InitRegistry, Saved
<1> QED
  BY <1>1, <1>2, <1>3, <1>4, <1>5, <1>6
  DEF RegistryInv, Shapes, ReloadMet, ReloadReads, OneWriter, Settled

(* Updates leave the fields of a manifest.                                  *)
LEMMA ChangedIsManifest ==
  ASSUME NEW m, IsManifest(m), NEW c \in Changed(m)
  PROVE  IsManifest(c)
<1>1. \A v : IsManifest([m EXCEPT !.routingEnabled = v]) /\ IsManifest([m EXCEPT !.autoRun = v])
             /\ IsManifest([m EXCEPT !.config = v]) /\ IsManifest([m EXCEPT !.status = v])
  BY DEF IsManifest
<1>2. \A on : IsManifest(RoutingSet(m, on))
  BY <1>1 DEF RoutingSet
<1>3. \A on : IsManifest(AutoRunSet(m, on))
  BY DEF AutoRunSet, IsManifest
<1>4. ASSUME NEW v, NEW on PROVE IsManifest(ConfigSet(m, v, on))
  <2> DEFINE routed == m.routingEnabled \/ on
  <2>1. ConfigSet(m, v, on) = [m EXCEPT !.config = v, !.routingEnabled = routed]
    BY DEF ConfigSet
  <2> HIDE DEF routed
  <2> QED
    BY <2>1 DEF IsManifest
<1> QED
  BY <1>2, <1>3, <1>4 DEF Changed

(* An update in progress is one of three steps.                             *)
LEMMA InUpdate ==
  ASSUME RegistryInv, NEW s \in Admins, upd[s].step \in {"lock", "open", "write"}
  PROVE  /\ upd[s] # Idle /\ upd[s].path \in Paths /\ upd[s].reg \in DOMAIN registries
         /\ upd[s].step = "lock" => Waiting(upd[s])
         /\ Writing(s) => Changing(upd[s])
  BY IdleStep DEF RegistryInv, Shapes, UpdateShape, Update1, Waiting, Changing, Writing

LEMMA InReload ==
  ASSUME RegistryInv, NEW v \in Views, Loading(v)
  PROVE  reload[v] # Idle /\ Reload1(reload[v])
  BY IdleStep DEF RegistryInv, Shapes, ReloadShape, Loading

-----------------------------------------------------------------------------
(* Reloads.  What they leave alone.                                         *)
LEMMA UpdatesStay ==
  ASSUME RegistryInv, UNCHANGED <<files, registries, engine, upd, answer, crossed>>
  PROVE  ObjectsInv' /\ Manifests' /\ UpdateShape' /\ OneWriter' /\ (\A s \in Admins : Settled(s)') /\ Saved'
  BY DEF RegistryInv, Shapes, ObjectsInv, Manifests, UpdateShape, Update1, OneWriter, Settled, Saved, InFile,
     BeingWritten, Writing

LEMMA OtherReloads ==
  ASSUME RegistryInv, NEW v \in Views, NEW l, reload' = [reload EXCEPT ![v] = l],
         UNCHANGED <<files, upd>>, l = Idle \/ Reload1(l),
         l.step = "loading" =>
           /\ \A s \in Admins : upd[s] # Idle => upd[s].path \in l.crossed
           /\ \A p \in Paths : p \notin l.crossed /\ p \notin l.todo => ReadRight(l, p)
  PROVE  ReloadShape' /\ ReloadMet' /\ ReloadReads'
<1>1. DOMAIN reload' = Views /\ reload'[v] = l /\ \A w \in Views \ {v} : reload'[w] = reload[w]
  BY DEF RegistryInv, Shapes, ReloadShape
<1>2. \A w \in Views \ {v} : Loading(w)' <=> Loading(w)
  BY <1>1 DEF Loading
<1>3. Loading(v)' <=> l.step = "loading"
  BY <1>1 DEF Loading
<1>4. ReloadShape'
  BY <1>1 DEF RegistryInv, Shapes, ReloadShape, Reload1
<1>5. ReloadMet'
  BY <1>1, <1>2, <1>3 DEF RegistryInv, ReloadMet
<1>6. ReloadReads'
  <2>1. SUFFICES ASSUME NEW w \in Views, Loading(w)', NEW p \in Paths, p \notin reload'[w].crossed,
                        p \notin reload'[w].todo
                 PROVE  IF IsJSON(files[p]) THEN p \in DOMAIN reload'[w].got /\ reload'[w].got[p] = files[p]
                                            ELSE p \notin DOMAIN reload'[w].got
    BY DEF ReloadReads, ReadRight
  <2>2. CASE w = v
    BY <1>1, <1>3, <2>1, <2>2 DEF ReadRight
  <2>3. CASE w # v
    BY <1>1, <1>2, <2>1, <2>3 DEF RegistryInv, ReloadReads, ReadRight
  <2> QED
    BY <2>2, <2>3
<1> QED
  BY <1>4, <1>5, <1>6

LEMMA BeginStep ==
  ASSUME RegistryInv, NEW v \in Views, BeginReload(v)
  PROVE  RegistryInv'
<1> DEFINE l == Load(Paths, <<>>, BeingUpdated)
<1>1. reload' = [reload EXCEPT ![v] = l] /\ UNCHANGED <<files, registries, engine, upd, answer, crossed>>
  BY DEF BeginReload
<1>2. l.todo = Paths /\ l.got = <<>> /\ l.crossed = BeingUpdated
  BY LoadFields
<1>3. l = Load(l.todo, l.got, l.crossed)
  BY <1>2
<1>4. Reload1(l)
  <2> HIDE DEF l
  <2> QED
    BY <1>2, <1>3 DEF Reload1
<1>5. \A s \in Admins : upd[s] # Idle => upd[s].path \in BeingUpdated
  BY DEF BeingUpdated
<1> HIDE DEF l
<1>6. ReloadShape' /\ ReloadMet' /\ ReloadReads'
  BY <1>1, <1>2, <1>4, <1>5, OtherReloads
<1> QED
  BY <1>1, <1>6, UpdatesStay DEF RegistryInv, Shapes

LEMMA ReadStep ==
  ASSUME RegistryInv, NEW v \in Views, ReadManifest(v)
  PROVE  RegistryInv'
<1>1. /\ UNCHANGED <<files, registries, engine, upd, answer, crossed>>
      /\ Loading(v)
  BY DEF ReadManifest
<1>2. PICK p \in reload[v].todo :
        reload' = [reload EXCEPT ![v] =
          Load(reload[v].todo \ {p},
               IF IsJSON(files[p]) THEN Restrict1(reload[v].got, p, files[p]) ELSE reload[v].got,
               reload[v].crossed)]
  BY DEF ReadManifest
<1> DEFINE k == reload[v]
           got == IF IsJSON(files[p]) THEN Restrict1(k.got, p, files[p]) ELSE k.got
           l == Load(k.todo \ {p}, got, k.crossed)
<1>3. Reload1(k)
  BY <1>1, InReload
<1>4. l.todo = k.todo \ {p} /\ l.got = got /\ l.crossed = k.crossed
  BY LoadFields
<1>5. l = Load(l.todo, l.got, l.crossed)
  BY <1>4
<1>6. reload' = [reload EXCEPT ![v] = l]
  BY <1>2
<1>7. p \in Paths /\ p \notin DOMAIN k.got
  BY <1>2, <1>3 DEF Reload1
<1>8. ~IsJSON(files[p]) \/ IsManifest(files[p])
  BY <1>7 DEF RegistryInv, Shapes, Manifests
<1>9. IF IsJSON(files[p])
      THEN /\ DOMAIN got = DOMAIN k.got \cup {p} /\ got[p] = files[p]
           /\ \A q \in DOMAIN k.got : got[q] = k.got[q]
      ELSE got = k.got
  <2>1. CASE IsJSON(files[p])
    <3>1. got = Restrict1(k.got, p, files[p])
      BY <2>1
    <3> HIDE DEF got, k
    <3> QED
      BY <1>7, <2>1, <3>1 DEF Restrict1
  <2>2. CASE ~IsJSON(files[p])
    BY <2>2
  <2> QED
    BY <2>1, <2>2
<1>10. /\ \A s \in Admins : upd[s] # Idle => upd[s].path \in k.crossed
       /\ \A q \in Paths : q \notin k.crossed /\ q \notin k.todo => ReadRight(k, q)
  BY <1>1 DEF RegistryInv, ReloadMet, ReloadReads
<1> HIDE DEF l, got, k
<1>11. Reload1(l)
  <2>1. l.todo \subseteq Paths /\ l.todo \cap DOMAIN l.got = {}
    BY <1>3, <1>4, <1>9 DEF Reload1
  <2>2. \A q \in DOMAIN l.got : IsManifest(l.got[q])
    BY <1>3, <1>4, <1>8, <1>9 DEF Reload1
  <2> QED
    BY <1>5, <2>1, <2>2 DEF Reload1
<1>12. ASSUME NEW q \in Paths, q \notin l.crossed, q \notin l.todo PROVE ReadRight(l, q)
  <2>1. CASE q = p
    BY <1>4, <1>7, <1>9, <2>1 DEF ReadRight
  <2>2. CASE q # p
    <3>1. ReadRight(k, q)
      BY <1>4, <1>10, <1>12, <2>2
    <3>2. q \in DOMAIN l.got <=> q \in DOMAIN k.got
      BY <1>4, <1>9, <2>2
    <3>3. q \in DOMAIN k.got => l.got[q] = k.got[q]
      BY <1>4, <1>9
    <3> QED
      BY <3>1, <3>2, <3>3 DEF ReadRight
  <2> QED
    BY <2>1, <2>2
<1>13. \A s \in Admins : upd[s] # Idle => upd[s].path \in l.crossed
  BY <1>4, <1>10
<1>14. ReloadShape' /\ ReloadMet' /\ ReloadReads'
  BY <1>1, <1>6, <1>11, <1>12, <1>13, OtherReloads
<1> QED
  BY <1>1, <1>14, UpdatesStay DEF RegistryInv, Shapes

(* The engine gets a new object.  A path is then crossed unless no update   *)
(* met this reload and the engine had it right, or has got it now.          *)
LEMMA FinishStep ==
  ASSUME RegistryInv, NEW v \in Views, FinishReload(v)
  PROVE  RegistryInv'
<1> DEFINE k == reload[v]
           E == engine + 1
<1>1. /\ registries' = Append(registries, k.got) /\ engine' = Len(registries')
      /\ reload' = [reload EXCEPT ![v] = Idle]
      /\ crossed' = k.crossed \cup (crossed \ DOMAIN k.got)
      /\ UNCHANGED <<files, upd, answer>>
      /\ Loading(v) /\ k.todo = {}
  BY DEF FinishReload
<1>2. Reload1(k)
  BY <1>1, InReload
<1>3. /\ \A s \in Admins : upd[s] # Idle => upd[s].path \in k.crossed
      /\ \A p \in Paths : p \notin k.crossed => ReadRight(k, p)
  BY <1>1 DEF RegistryInv, ReloadMet, ReloadReads
<1>4. engine \in Nat /\ DOMAIN registries = 1 .. engine
  BY ObjectsAre DEF RegistryInv, Shapes
<1> HIDE DEF k
<1>5. /\ ObjectsInv'
      /\ engine' = E /\ DOMAIN registries' = 1 .. E
      /\ registries'[E] = k.got
      /\ \A i \in 1 .. engine : registries'[i] = registries[i]
  BY <1>1, ObjectAdded DEF RegistryInv, Shapes
<1>6. E \in 1 .. E /\ E # 0 /\ \A i \in 1 .. E : i = E \/ i \in 1 .. engine
  BY <1>4
<1>7. ReloadShape' /\ ReloadMet' /\ ReloadReads'
  BY <1>1, IdleStep, OtherReloads
<1> HIDE DEF E
<1>8. Manifests'
  BY <1>1, <1>2, <1>4, <1>5, <1>6 DEF Reload1, RegistryInv, Shapes, Manifests
<1>9. \A i \in 1 .. engine : i \in 1 .. E
  BY <1>4, <1>5 DEF E
<1>10. UpdateShape'
  BY <1>1, <1>4, <1>5, <1>9 DEF RegistryInv, Shapes, UpdateShape, Update1
<1>11. \A s \in Admins : Writing(s) => upd[s].reg \in 1 .. engine
  BY <1>4, IdleStep DEF RegistryInv, Shapes, UpdateShape, Update1, Writing
<1>12. OneWriter'
  BY <1>1, <1>5, <1>11 DEF RegistryInv, OneWriter, Writing
<1>13. \A s \in Admins : Settled(s)'
  BY <1>1, <1>3 DEF Settled
<1>14. ASSUME NEW p \in Paths, p \notin crossed', answer[p] = "ok", \A s \in Admins : ~(Writing(s) /\ upd[s].path = p)
       PROVE  IsJSON(files[p]) /\ p \in DOMAIN k.got /\ files[p] = k.got[p]
  <2>1. ReadRight(k, p) /\ (p \notin crossed \/ p \in DOMAIN k.got)
    BY <1>1, <1>3, <1>14
  <2>2. CASE p \in DOMAIN k.got
    BY <2>1, <2>2 DEF ReadRight
  <2>3. CASE p \notin crossed
    <3>1. IsJSON(files[p])
      BY <1>14, <2>3 DEF RegistryInv, Saved, InFile, BeingWritten
    <3> QED
      BY <2>1, <3>1 DEF ReadRight
  <2> QED
    BY <2>1, <2>2, <2>3
<1>15. Saved'
  <2>1. SUFFICES ASSUME NEW p \in Paths, p \notin crossed', answer[p] = "ok",
                        \A s \in Admins : ~(Writing(s) /\ upd[s].path = p)
                 PROVE  IsJSON(files[p]) /\ p \in DOMAIN registries'[engine'] /\ files[p] = registries'[engine'][p]
    BY <1>1 DEF Saved, InFile, BeingWritten, Writing
  <2> QED
    BY <1>5, <1>14, <2>1
<1> QED
  BY <1>5, <1>7, <1>8, <1>10, <1>12, <1>13, <1>15 DEF RegistryInv, Shapes

-----------------------------------------------------------------------------
(* Updates.                                                                 *)
LEMMA AskStep ==
  ASSUME RegistryInv, NEW s \in Admins, NEW p \in Paths, AskUpdate(s, p)
  PROVE  RegistryInv'
<1> DEFINE u == [step |-> "lock", path |-> p, reg |-> engine]
<1>1. /\ UNCHANGED <<files, registries, engine, answer, crossed>>
      /\ engine # 0 /\ upd[s] = Idle
      /\ upd' = [upd EXCEPT ![s] = u]
      /\ reload' = [v \in Views |->
           IF Loading(v) THEN Load(reload[v].todo, reload[v].got, reload[v].crossed \cup {p}) ELSE reload[v]]
  BY DEF AskUpdate
<1>2. u.step = "lock" /\ u.path = p /\ u.reg = engine /\ Waiting(u)
  BY DEF Waiting
<1> HIDE DEF u
<1>3. DOMAIN upd' = Admins /\ upd'[s] = u /\ \A t \in Admins \ {s} : upd'[t] = upd[t]
  BY <1>1 DEF RegistryInv, Shapes, UpdateShape
<1>4. \A t \in Admins : /\ Writing(t)' <=> Writing(t)
                        /\ Writing(t) => upd'[t] = upd[t]
  BY <1>1, <1>2, <1>3, IdleStep DEF Writing
<1>5. engine \in DOMAIN registries
  BY <1>1, ObjectsAre DEF RegistryInv, Shapes
<1>6. ObjectsInv' /\ Manifests'
  BY <1>1 DEF RegistryInv, Shapes, ObjectsInv, Manifests
<1>7. UpdateShape'
  BY <1>1, <1>2, <1>3, <1>5 DEF RegistryInv, Shapes, UpdateShape, Update1
<1>8. \A v \in Views :
        /\ ~Loading(v) => reload'[v] = reload[v]
        /\ Loading(v) => /\ reload'[v] = Load(reload'[v].todo, reload'[v].got, reload'[v].crossed)
                         /\ reload'[v].step = "loading" /\ reload'[v].todo = reload[v].todo
                         /\ reload'[v].got = reload[v].got /\ reload'[v].crossed = reload[v].crossed \cup {p}
  BY <1>1, LoadFields
<1>9. DOMAIN reload' = Views /\ \A v \in Views : Loading(v)' <=> Loading(v)
  BY <1>1, <1>8 DEF Loading
<1>10. ReloadShape'
  <2>1. SUFFICES ASSUME NEW v \in Views PROVE reload'[v] = Idle \/ Reload1(reload'[v])
    BY <1>1, <1>9 DEF ReloadShape, Reload1
  <2>2. CASE Loading(v)
    <3>1. Reload1(reload[v])
      BY <2>2, InReload
    <3> QED
      BY <1>8, <2>2, <3>1 DEF Reload1
  <2>3. CASE ~Loading(v)
    BY <1>8, <2>3 DEF RegistryInv, Shapes, ReloadShape
  <2> QED
    BY <2>2, <2>3
<1>11. ReloadMet'
  <2>1. SUFFICES ASSUME NEW v \in Views, Loading(v), NEW t \in Admins, upd'[t] # Idle
                 PROVE  upd'[t].path \in reload[v].crossed \cup {p}
    BY <1>8, <1>9 DEF ReloadMet
  <2> QED
    BY <1>2, <1>3, <2>1 DEF RegistryInv, ReloadMet
<1>12. ReloadReads'
  BY <1>1, <1>8, <1>9 DEF RegistryInv, ReloadReads, ReadRight
<1>13. OneWriter'
  BY <1>1, <1>4 DEF RegistryInv, OneWriter
<1>14. \A t \in Admins : Settled(t)'
  BY <1>1, <1>2, <1>3 DEF RegistryInv, Settled
<1>15. \A q \in Paths : BeingWritten(q)' <=> BeingWritten(q)
  BY <1>4 DEF BeingWritten
<1>16. Saved'
  BY <1>1, <1>15 DEF RegistryInv, Saved, InFile
<1> QED
  BY <1>6, <1>7, <1>10, <1>11, <1>12, <1>13, <1>14, <1>16 DEF RegistryInv, Shapes

(* A reload in progress has met the update, whatever it does to its file.   *)
LEMMA ReloadsStay ==
  ASSUME RegistryInv, NEW s \in Admins, upd[s] # Idle, UNCHANGED reload,
         \A t \in Admins : upd'[t] # Idle => upd[t] # Idle /\ upd'[t].path = upd[t].path,
         \A q \in Paths : q # upd[s].path => files'[q] = files[q]
  PROVE  ReloadShape' /\ ReloadMet' /\ ReloadReads'
<1>1. \A v \in Views : Loading(v)' <=> Loading(v)
  BY DEF Loading
<1>2. \A v \in Views : Loading(v) => upd[s].path \in reload[v].crossed
  BY DEF RegistryInv, ReloadMet
<1>3. ReloadShape'
  BY DEF RegistryInv, Shapes, ReloadShape, Reload1
<1>4. ReloadMet'
  BY <1>1 DEF RegistryInv, ReloadMet
<1>5. ReloadReads'
  BY <1>1, <1>2 DEF RegistryInv, ReloadReads, ReadRight
<1> QED
  BY <1>3, <1>4, <1>5

(* Two writers of one file have different objects, and one is not the       *)
(* engine's.                                                                *)
LEMMA WritesAlone ==
  ASSUME RegistryInv, NEW s \in Admins, NEW t \in Admins, Writing(s), Writing(t),
         upd[s].path = upd[t].path, upd[s].path \notin crossed
  PROVE  s = t
  BY IdleStep DEF RegistryInv, Settled, OneWriter, Writing

(* A step that ends an update: its answer, and the next state of the rest.  *)
LEMMA ToldIs ==
  ASSUME RegistryInv, NEW s \in Admins, upd[s].path \in Paths, NEW a, Told(s, a)
  PROVE  /\ DOMAIN upd' = Admins /\ DOMAIN answer' = Paths
         /\ upd'[s] = Idle /\ answer'[upd[s].path] = a
         /\ \A t \in Admins \ {s} : upd'[t] = upd[t]
         /\ \A p \in Paths \ {upd[s].path} : answer'[p] = answer[p]
         /\ ~(Writing(s)')
         /\ \A t \in Admins \ {s} : Writing(t)' <=> Writing(t)
<1>1. /\ DOMAIN upd' = Admins /\ DOMAIN answer' = Paths
      /\ upd'[s] = Idle /\ answer'[upd[s].path] = a
      /\ \A t \in Admins \ {s} : upd'[t] = upd[t]
      /\ \A p \in Paths \ {upd[s].path} : answer'[p] = answer[p]
  BY DEF RegistryInv, Shapes, UpdateShape, Told
<1> QED
  BY <1>1, IdleStep DEF Writing

(* The end of an update, but for what it did to its file.                   *)
LEMMA EndStep ==
  ASSUME RegistryInv, NEW s \in Admins, upd[s].step \in {"lock", "open", "write"}, NEW a, Told(s, a),
         NEW p \in Paths, p = upd[s].path,
         UNCHANGED <<registries, engine, reload, crossed>>,
         DOMAIN files' = Paths,
         \A q \in Paths : q # p => files'[q] = files[q],
         ~IsJSON(files'[p]) \/ IsManifest(files'[p]),
         Writing(s) \/ files' = files,
         p \notin crossed /\ a = "ok" => InFile(p)'
  PROVE  RegistryInv'
<1>1. upd[s] # Idle /\ upd[s].path \in Paths /\ upd[s].reg \in DOMAIN registries
  BY InUpdate
<1>2. /\ DOMAIN upd' = Admins /\ DOMAIN answer' = Paths
      /\ upd'[s] = Idle /\ answer'[p] = a
      /\ \A t \in Admins \ {s} : upd'[t] = upd[t]
      /\ \A q \in Paths \ {p} : answer'[q] = answer[q]
      /\ ~(Writing(s)')
      /\ \A t \in Admins \ {s} : Writing(t)' <=> Writing(t)
  BY <1>1, ToldIs
<1>3. ObjectsInv' /\ UpdateShape'
  BY <1>2 DEF RegistryInv, Shapes, ObjectsInv, UpdateShape, Update1
<1>4. Manifests'
  BY DEF RegistryInv, Shapes, Manifests
<1>5. \A t \in Admins : upd'[t] # Idle => upd[t] # Idle /\ upd'[t].path = upd[t].path
  BY <1>2
<1>6. ReloadShape' /\ ReloadMet' /\ ReloadReads'
  BY <1>1, <1>5, ReloadsStay
<1>7. OneWriter'
  BY <1>2 DEF RegistryInv, OneWriter
<1>8. ASSUME NEW t \in Admins PROVE Settled(t)'
  <2>1. CASE t = s
    BY <1>2, <2>1 DEF Settled
  <2>2. CASE t # s
    <3>1. upd'[t] = upd[t] /\ Settled(t)
      BY <1>2, <2>2 DEF RegistryInv
    <3>2. upd[t].step = "write" /\ upd[t].path \notin crossed => files'[upd[t].path] = files[upd[t].path]
      <4>1. SUFFICES ASSUME upd[t].step = "write", upd[t].path \notin crossed, upd[t].path = p
                     PROVE  files' = files
        BY InUpdate
      <4>2. Writing(t)
        BY <4>1 DEF Writing
      <4> QED
        BY <2>2, <4>1, <4>2, WritesAlone
    <3> QED
      BY <3>1, <3>2 DEF Settled
  <2> QED
    BY <2>1, <2>2
<1>9. \A q \in Paths \ {p} : BeingWritten(q)' <=> BeingWritten(q)
  BY <1>2 DEF BeingWritten
<1>10. Saved'
  <2>1. SUFFICES ASSUME NEW q \in Paths, q \notin crossed, answer'[q] = "ok", ~(BeingWritten(q)') PROVE InFile(q)'
    BY DEF Saved
  <2>2. CASE q = p
    BY <1>1, <1>2, <2>1, <2>2
  <2>3. CASE q # p
    BY <1>2, <1>9, <2>1, <2>3 DEF RegistryInv, Saved, InFile
  <2> QED
    BY <2>2, <2>3
<1> QED
  BY <1>3, <1>4, <1>6, <1>7, <1>8, <1>10 DEF RegistryInv, Shapes

LEMMA UpdateStep ==
  ASSUME RegistryInv, NEW s \in Admins, Update(s)
  PROVE  RegistryInv'
<1>1. upd[s].step = "lock" /\ ~Locked(upd[s].reg) /\ UpdateWith(s) /\ UNCHANGED <<files, engine, reload, crossed>>
  BY DEF Update
<1>2. /\ upd[s] # Idle /\ upd[s].path \in Paths /\ upd[s].reg \in DOMAIN registries
  BY <1>1, InUpdate
<1> DEFINE r == upd[s].reg
<1>p. PICK p \in Paths : p = upd[s].path
  BY <1>2
<1>3. CASE p \notin DOMAIN registries[r]
  <2>1. Told(s, "error") /\ UNCHANGED registries
    BY <1>1, <1>p, <1>3 DEF UpdateWith
  <2> QED
    BY <1>1, <1>p, <2>1, EndStep DEF RegistryInv, Shapes, Manifests
<1>4. CASE p \in DOMAIN registries[r]
  <2>1. PICK m \in Changed(registries[r][p]) :
          /\ registries' = [registries EXCEPT ![r] = Restrict1(registries[r], p, m)]
          /\ upd' = [upd EXCEPT ![s] = [step |-> "open", path |-> p, reg |-> r, data |-> m]]
          /\ UNCHANGED answer
    BY <1>1, <1>p, <1>4 DEF UpdateWith
  <2> DEFINE new == Restrict1(registries[r], p, m)
             u == [step |-> "open", path |-> p, reg |-> r, data |-> m]
  <2>2. IsManifest(m)
    BY <1>2, <1>4, ChangedIsManifest DEF RegistryInv, Shapes, Manifests
  <2>3. DOMAIN new = DOMAIN registries[r] /\ new[p] = m /\ \A q \in DOMAIN registries[r] : q # p => new[q] = registries[r][q]
    BY <1>4 DEF Restrict1
  <2>4. u.step = "open" /\ u.path = p /\ u.reg = r /\ u.data = m /\ Changing(u)
    BY DEF Changing
  <2>5. registries' = [registries EXCEPT ![r] = new] /\ upd' = [upd EXCEPT ![s] = u]
    BY <2>1
  <2> HIDE DEF u, new, r
  <2>6. /\ engine \in Nat /\ DOMAIN registries = 1 .. engine
    BY ObjectsAre DEF RegistryInv, Shapes
  <2>7. /\ ObjectsInv' /\ DOMAIN registries' = DOMAIN registries
        /\ \A i \in DOMAIN registries : registries'[i] = IF i = r THEN new ELSE registries[i]
    BY <1>1, <2>5, <2>6, ObjectChanged DEF RegistryInv, Shapes
  <2>8. r \in DOMAIN registries
    BY <1>2 DEF r
  <2>9. DOMAIN upd' = Admins /\ upd'[s] = u /\ \A t \in Admins \ {s} : upd'[t] = upd[t]
    BY <2>5 DEF RegistryInv, Shapes, UpdateShape
  <2>10. /\ Writing(s)' /\ ~Writing(s) /\ \A t \in Admins \ {s} : Writing(t)' <=> Writing(t)
         /\ \A t \in Admins : Writing(t) => upd[t].reg # r
    BY <1>1, <2>4, <2>9 DEF Writing, Locked, r
  <2>11. UpdateShape'
    BY <1>1, <2>1, <2>4, <2>7, <2>8, <2>9 DEF RegistryInv, Shapes, UpdateShape, Update1
  <2>12. Manifests'
    <3>1. \A q \in DOMAIN new : IsManifest(new[q])
      BY <2>2, <2>3, <2>8 DEF RegistryInv, Shapes, Manifests
    <3> QED
      BY <1>1, <2>7, <3>1 DEF RegistryInv, Shapes, Manifests
  <2>13. \A t \in Admins : upd'[t] # Idle => upd[t] # Idle /\ upd'[t].path = upd[t].path
    BY <1>2, <1>p, <2>4, <2>9
  <2>14. ReloadShape' /\ ReloadMet' /\ ReloadReads'
    BY <1>1, <1>2, <2>13, ReloadsStay
  <2>15. OneWriter'
    <3>1. ASSUME NEW t \in Admins, NEW w \in Admins, Writing(t)', Writing(w)', upd'[t].reg = upd'[w].reg PROVE t = w
      BY <2>4, <2>9, <2>10, <3>1 DEF RegistryInv, OneWriter
    <3>2. ASSUME NEW t \in Admins, Writing(t)'
          PROVE  upd'[t].path \in DOMAIN registries'[upd'[t].reg] /\ upd'[t].data = registries'[upd'[t].reg][upd'[t].path]
      <4>1. CASE t = s
        BY <1>4, <2>3, <2>4, <2>7, <2>8, <2>9, <4>1 DEF r
      <4>2. CASE t # s
        <5>1. Writing(t) /\ upd[t].reg # r /\ upd'[t] = upd[t]
          BY <2>9, <2>10, <3>2, <4>2
        <5>2. upd[t].reg \in DOMAIN registries
          BY <5>1, InUpdate DEF Writing
        <5> QED
          BY <2>7, <5>1, <5>2 DEF RegistryInv, OneWriter
      <4> QED
        BY <4>1, <4>2
    <3> QED
      BY <3>1, <3>2 DEF OneWriter
  <2>16. ASSUME NEW t \in Admins PROVE Settled(t)'
    <3>1. CASE t = s
      BY <1>1, <1>2, <1>p, <2>4, <2>9, <3>1 DEF RegistryInv, Settled, r
    <3>2. CASE t # s
      BY <1>1, <2>9, <3>2 DEF RegistryInv, Settled
    <3> QED
      BY <3>1, <3>2
  <2>17. BeingWritten(p)' /\ \A q \in Paths : q # p => (BeingWritten(q)' <=> BeingWritten(q))
    BY <1>p, <2>4, <2>9, <2>10 DEF BeingWritten
  <2>18. Saved'
    <3>1. SUFFICES ASSUME NEW q \in Paths, q \notin crossed, answer[q] = "ok", ~(BeingWritten(q)') PROVE InFile(q)'
      BY <1>1, <2>1 DEF Saved
    <3>2. q # p /\ InFile(q)
      BY <2>17, <3>1 DEF RegistryInv, Saved
    <3>3. engine # 0 => engine \in DOMAIN registries
      BY <2>6
    <3>4. engine # 0 => q \in DOMAIN registries'[engine] /\ registries'[engine][q] = registries[engine][q]
      BY <2>3, <2>7, <3>2, <3>3 DEF InFile
    <3> QED
      BY <1>1, <3>2, <3>4 DEF InFile
  <2> QED
    BY <2>7, <2>11, <2>12, <2>14, <2>15, <2>16, <2>18 DEF RegistryInv, Shapes
<1> QED
  BY <1>3, <1>4

LEMMA OpenStep ==
  ASSUME RegistryInv, NEW s \in Admins, OpenManifest(s)
  PROVE  RegistryInv'
<1>1. /\ upd[s].step = "open" /\ UNCHANGED <<registries, engine, reload, answer, crossed>>
      /\ files' = [files EXCEPT ![upd[s].path] = Empty]
      /\ upd' = [upd EXCEPT ![s].step = "write"]
  BY DEF OpenManifest
<1>2. upd[s] # Idle /\ upd[s].path \in Paths /\ upd[s].reg \in DOMAIN registries /\ Writing(s) /\ Changing(upd[s])
  BY <1>1, InUpdate DEF Writing
<1>p. PICK p \in Paths : p = upd[s].path
  BY <1>2
<1>3. /\ DOMAIN upd' = Admins
      /\ upd'[s] = [step |-> "write", path |-> p, reg |-> upd[s].reg, data |-> upd[s].data]
      /\ \A t \in Admins \ {s} : upd'[t] = upd[t]
  BY <1>p, <1>1, <1>2 DEF RegistryInv, Shapes, UpdateShape, Changing
<1>4. /\ DOMAIN files' = Paths /\ files'[p] = Empty
      /\ \A q \in Paths : q # p => files'[q] = files[q]
  BY <1>p, <1>1 DEF RegistryInv, Shapes, Manifests
<1>5. \A t \in Admins : /\ Writing(t)' <=> Writing(t)
                        /\ Writing(t) => /\ upd'[t].path = upd[t].path /\ upd'[t].reg = upd[t].reg
                                         /\ upd'[t].data = upd[t].data
  BY <1>p, <1>2, <1>3 DEF Writing
<1>6. Changing(upd'[s]) /\ upd'[s].path = p /\ upd'[s].reg = upd[s].reg /\ upd'[s].step = "write"
  BY <1>3 DEF Changing
<1>7. UpdateShape'
  BY <1>p, <1>1, <1>2, <1>3, <1>6 DEF RegistryInv, Shapes, UpdateShape, Update1
<1>8. ObjectsInv' /\ Manifests'
  BY <1>1, <1>4, NotJSON DEF RegistryInv, Shapes, ObjectsInv, Manifests
<1>9. \A t \in Admins : upd'[t] # Idle => upd[t] # Idle /\ upd'[t].path = upd[t].path
  BY <1>2, <1>p, <1>3, <1>6
<1>10. ReloadShape' /\ ReloadMet' /\ ReloadReads'
  BY <1>1, <1>2, <1>p, <1>4, <1>9, ReloadsStay
<1>11. OneWriter'
  BY <1>1, <1>5 DEF RegistryInv, OneWriter
<1>12. ASSUME NEW t \in Admins PROVE Settled(t)'
  <2>1. CASE t = s
    BY <1>1, <1>2, <1>p, <1>4, <1>6, <2>1 DEF RegistryInv, Settled
  <2>2. CASE t # s
    <3>1. upd'[t] = upd[t] /\ Settled(t)
      BY <1>3, <2>2 DEF RegistryInv
    <3>2. upd[t].step = "write" => upd[t].path \in Paths
      BY InUpdate
    <3>3. upd[t].step = "write" /\ files[upd[t].path] = Empty => files'[upd[t].path] = Empty
      BY <1>4, <3>2
    <3>4. UNCHANGED <<engine, crossed>>
      BY <1>1
    <3> QED
      BY <3>1, <3>3, <3>4 DEF Settled
  <2> QED
    BY <2>1, <2>2
<1>13. BeingWritten(p)' /\ \A q \in Paths : BeingWritten(q)' <=> BeingWritten(q)
  BY <1>2, <1>p, <1>5 DEF BeingWritten
<1>14. Saved'
  BY <1>1, <1>4, <1>13 DEF RegistryInv, Saved, InFile
<1> QED
  BY <1>7, <1>8, <1>10, <1>11, <1>12, <1>14 DEF RegistryInv, Shapes

LEMMA WriteStep ==
  ASSUME RegistryInv, NEW s \in Admins, WriteManifest(s)
  PROVE  RegistryInv'
<1>1. upd[s].step = "write" /\ Told(s, "ok") /\ UNCHANGED <<registries, engine, reload, crossed>>
  BY DEF WriteManifest
<1>2. upd[s] # Idle /\ upd[s].path \in Paths /\ Writing(s)
  BY <1>1, InUpdate DEF Writing
<1>p. PICK p \in Paths : p = upd[s].path
  BY <1>2
<1>3. PICK text : /\ text = upd[s].data \/ (files[p] # Empty /\ text = Torn)
                  /\ files' = [files EXCEPT ![p] = text]
  BY <1>p DEF WriteManifest
<1>4. /\ DOMAIN files' = Paths /\ files'[p] = text
      /\ \A q \in Paths : q # p => files'[q] = files[q]
  BY <1>3 DEF RegistryInv, Shapes, Manifests
<1>5. /\ p \in DOMAIN registries[upd[s].reg] /\ upd[s].data = registries[upd[s].reg][p]
      /\ upd[s].reg \in DOMAIN registries
  BY <1>1, <1>2, <1>p, InUpdate DEF RegistryInv, OneWriter
<1>6. IsManifest(upd[s].data)
  BY <1>5 DEF RegistryInv, Shapes, Manifests
<1>7. ~IsJSON(text) \/ IsManifest(text)
  BY <1>3, <1>6, NotJSON
<1>8. ASSUME p \notin crossed PROVE InFile(p)'
  <2>1. upd[s].reg = engine /\ files[p] = Empty
    BY <1>1, <1>2, <1>p, <1>8 DEF RegistryInv, Settled
  <2>2. text = registries[engine][p] /\ p \in DOMAIN registries[engine] /\ IsJSON(text)
    BY <1>3, <1>5, <1>6, <2>1, ManifestIsJSON
  <2> QED
    BY <1>1, <1>4, <2>2 DEF InFile
<1> QED
  BY <1>1, <1>2, <1>p, <1>4, <1>7, <1>8, EndStep

LEMMA FailStep ==
  ASSUME RegistryInv, NEW s \in Admins, WriteFails(s)
  PROVE  RegistryInv'
<1>1. /\ Writing(s) /\ Told(s, "error") /\ UNCHANGED <<registries, engine, reload, crossed>>
      /\ files' = files \/ files' = [files EXCEPT ![upd[s].path] = Torn]
  BY DEF WriteFails
<1>2. upd[s].step \in {"lock", "open", "write"} /\ upd[s].path \in Paths
  BY <1>1, InUpdate DEF Writing
<1>p. PICK p \in Paths : p = upd[s].path
  BY <1>2
<1>3. /\ DOMAIN files' = Paths
      /\ ~IsJSON(files'[p]) \/ IsManifest(files'[p])
      /\ \A q \in Paths : q # p => files'[q] = files[q]
  BY <1>1, <1>p, NotJSON DEF RegistryInv, Shapes, Manifests
<1>4. Writing(s) /\ Told(s, "error") /\ UNCHANGED <<registries, engine, reload, crossed>>
  BY <1>1
<1> QED
  BY <1>2, <1>p, <1>3, <1>4, EndStep

(* A restart leaves the files, and answers whose update was not under way.  *)
LEMMA RestartStep ==
  ASSUME RegistryInv, RestartRegistry
  PROVE  RegistryInv'
<1>1. registries' = <<>> /\ engine' = 0 /\ UNCHANGED <<files, crossed>>
  BY DEF RestartRegistry
<1>2. /\ DOMAIN upd' = Admins /\ DOMAIN answer' = Paths
      /\ \A s \in Admins : upd'[s] = Idle
      /\ DOMAIN reload' = Views /\ \A v \in Views : reload'[v] = Idle
  BY DEF RestartRegistry
<1>3. (\A s \in Admins : ~(Writing(s)')) /\ (\A v \in Views : ~(Loading(v)'))
  BY <1>2, IdleStep DEF Writing, Loading
<1>4. ASSUME NEW p \in Paths, p \notin crossed, answer'[p] = "ok" PROVE IsJSON(files[p])
  <2>1. answer[p] = "ok" /\ p \notin BeingUpdated
    BY <1>4 DEF RestartRegistry
  <2>2. ~BeingWritten(p)
    BY <2>1, IdleStep DEF BeingWritten, BeingUpdated, Writing
  <2> QED
    BY <1>4, <2>1, <2>2 DEF RegistryInv, Saved, InFile
<1>5. ObjectsInv'
  BY <1>1, NothingIsSequence DEF ObjectsInv
<1>6. UpdateShape' /\ ReloadShape'
  BY <1>2 DEF UpdateShape, ReloadShape
<1>7. Manifests'
  BY <1>1 DEF RegistryInv, Shapes, Manifests
<1>8. ReloadMet' /\ ReloadReads' /\ OneWriter' /\ \A s \in Admins : Settled(s)'
  BY <1>2, <1>3 DEF ReloadMet, ReloadReads, OneWriter, Settled
<1>9. Saved'
  BY <1>1, <1>4 DEF Saved, InFile
<1> QED
  BY <1>5, <1>6, <1>7, <1>8, <1>9 DEF RegistryInv, Shapes

LEMMA RegistryKept ==
  ASSUME RegistryInv, [Next]_vars
  PROVE  RegistryInv'
<1>1. ASSUME UNCHANGED pluginVars PROVE RegistryInv'
  <2>1. UNCHANGED <<files, registries, engine, upd, answer, crossed>> /\ UNCHANGED reload
    BY <1>1 DEF pluginVars
  <2>2. ReloadShape' /\ ReloadMet' /\ ReloadReads'
    BY <2>1 DEF RegistryInv, Shapes, ReloadShape, Reload1, ReloadMet, ReloadReads, ReadRight, Loading
  <2> QED
    BY <2>1, <2>2, UpdatesStay DEF RegistryInv, Shapes
<1>2. CASE RegistryStep
  BY <1>2, BeginStep, ReadStep, FinishStep, AskStep, UpdateStep, OpenStep, WriteStep, FailStep DEF RegistryStep
<1>3. CASE Restart
  BY <1>3, RestartStep DEF Restart
<1>4. UNCHANGED vars => UNCHANGED pluginVars
  BY DEF vars, registryVars
<1>5. \A r : SaveProject(r) => UNCHANGED pluginVars
  BY DEF SaveProject
<1>6. \A d : PutWorkflow(d) => UNCHANGED pluginVars
  BY DEF PutWorkflow
<1>7. \A a : ReadColumns(a) => UNCHANGED pluginVars
  BY DEF ReadColumns, registryVars
<1>8. ReadContext => UNCHANGED pluginVars
  BY DEF ReadContext
<1>9. \/ SaveProjectWorkflow \/ ClearProjectWorkflow \/ RunPostIngestRemediation \/ VisitNode
      \/ EndWalk \/ EvaluateAlertRules \/ RunMatch \/ EndJob
      => UNCHANGED pluginVars
  BY DEF SaveProjectWorkflow, ClearProjectWorkflow, RunPostIngestRemediation, VisitNode,
     EndWalk, EvaluateAlertRules, RunMatch, EndJob, registryVars
<1> QED
  BY <1>1, <1>2, <1>3, <1>4, <1>5, <1>6, <1>7, <1>8, <1>9 DEF Next, ApplyRunbook

(* The manifest of a plugin whose last change was answered with success,    *)
(* and that no other request is changing, is the same in its file and in    *)
(* the engine: through crashes, failing writes, any number of concurrent    *)
(* requests and reloads, until the engine reads it while it is updated.     *)
THEOREM ChangesAreSaved == Spec => []AnsweredIsSaved
<1>1. Init => RegistryInv
  BY RegistryInit DEF Init
<1>2. RegistryInv /\ [Next]_vars => RegistryInv'
  BY RegistryKept
<1>3. RegistryInv => AnsweredIsSaved
  <2> SUFFICES ASSUME RegistryInv, engine # 0, NEW p \in Paths \ crossed, answer[p] = "ok", p \notin BeingUpdated
               PROVE  p \in DOMAIN registries[engine] /\ files[p] = registries[engine][p]
    BY DEF AnsweredIsSaved
  <2>1. ~BeingWritten(p)
    BY IdleStep DEF BeingWritten, BeingUpdated, Writing
  <2> QED
    BY <2>1 DEF RegistryInv, Saved, InFile
<1> QED
  BY <1>1, <1>2, <1>3, PTL DEF Spec

-----------------------------------------------------------------------------
(* The fields of the alert that is followed, in each of its stages.         *)
Walking(j) == /\ j.step \in {"walk", "walked"}
              /\ j = [step |-> j.step, alert |-> j.alert, asked |-> j.asked, context |-> j.context, reg |-> j.reg,
                      ran |-> j.ran, sent |-> j.sent, todo |-> j.todo, doc |-> j.doc, visited |-> j.visited]
Ruled(j) == /\ j.step \in {"rules", "fan"}
            /\ j = [step |-> j.step, alert |-> j.alert, asked |-> j.asked, context |-> j.context, reg |-> j.reg,
                    ran |-> j.ran, sent |-> j.sent, todo |-> j.todo]
Arrived(j) == j = [step |-> "arrived", alert |-> j.alert, asked |-> j.asked]
Contexted(j) == j = [step |-> "stored", alert |-> j.alert, asked |-> j.asked,
                     context |-> [to |-> j.context.to, allowed |-> j.context.allowed]]

(* The columns are what the entries say: each save makes them so.  Whatever *)
(* the second read has found, the columns of the first are in the context.  *)
Synced(g) == \A p \in Column : Routed(g, p) = g.columns[p]
Informed(j) ==
  /\ DOMAIN j.context.to = Paths
  /\ \A p \in Column : Routed(j.asked, p) # Blank => j.context.to[p] = Routed(j.asked, p)
RoutedAll(j) ==
  \A s \in j.sent :
    s[1] \in Column /\ Routed(j.asked, s[1]) # Blank => s[2] = Routed(j.asked, s[1])
Right(j) == Informed(j) /\ RoutedAll(j)

Followed(j) ==
  \/ j = NoJob
  \/ Arrived(j) /\ Synced(j.asked)
  \/ Contexted(j) /\ Informed(j)
  \/ (Walking(j) \/ Ruled(j)) /\ Right(j)
JobInv == Synced(gateway) /\ Followed(job)

LEMMA SavedIsSynced ==
  ASSUME NEW r, NEW g, g = [entries |-> r.entries, columns |-> SyncedColumns(r)]
  PROVE  Synced(g)
<1>1. g.entries = r.entries /\ g.columns = SyncedColumns(r)
  OBVIOUS
<1>2. \A p \in Column : SyncedColumns(r)[p] =
        IF p \in DOMAIN r.entries /\ r.entries[p] # Blank THEN r.entries[p] ELSE r.legacy[p]
  BY DEF SyncedColumns
<1> QED
  BY <1>1, <1>2 DEF Synced, Routed

LEMMA ColumnIsPath == Column \subseteq Paths /\ Column \subseteq FromGateway
  BY DEF Column

LEMMA OverlaidIs ==
  ASSUME NEW g, Synced(g), NEW to
  PROVE  /\ DOMAIN Overlaid(g.columns, to) = Paths
         /\ \A p \in Column : Routed(g, p) # Blank => Overlaid(g.columns, to)[p] = Routed(g, p)
  BY ColumnIsPath DEF Overlaid, Synced

LEMMA KeyedIs ==
  ASSUME NEW to, NEW key
  PROVE  /\ DOMAIN Keyed(to, key) = DOMAIN to
         /\ \A p \in DOMAIN to : to[p] # Blank => Keyed(to, key)[p] = to[p]
  BY DEF Keyed

LEMMA DestinationRouted ==
  ASSUME NEW p \in FromGateway, NEW m, NEW to, to[p] # Blank
  PROVE  Destination(p, m, to) = to[p]
  BY DEF Destination, MergedConfig, FromGateway, FromManifest, MailOrDispatch

(* Assignments to fields, one at a time.                                    *)
LEMMA Assigned ==
  ASSUME NEW j, NEW v
  PROVE  /\ Walking(j) => /\ Walking([j EXCEPT !.ran = v]) /\ Walking([j EXCEPT !.sent = v])
                           /\ Walking([j EXCEPT !.todo = v]) /\ Walking([j EXCEPT !.visited = v])
                           /\ Walking([j EXCEPT !.step = "walked"])
         /\ Ruled(j) => /\ Ruled([j EXCEPT !.ran = v]) /\ Ruled([j EXCEPT !.sent = v])
                         /\ Ruled([j EXCEPT !.todo = v]) /\ Ruled([j EXCEPT !.step = "fan"])
<1>1. Walking(j) => Walking([j EXCEPT !.ran = v])
  BY DEF Walking
<1>2. Walking(j) => Walking([j EXCEPT !.sent = v])
  BY DEF Walking
<1>3. Walking(j) => Walking([j EXCEPT !.todo = v])
  BY DEF Walking
<1>4. Walking(j) => Walking([j EXCEPT !.visited = v])
  BY DEF Walking
<1>5. Walking(j) => Walking([j EXCEPT !.step = "walked"])
  BY DEF Walking
<1>6. Ruled(j) => Ruled([j EXCEPT !.ran = v])
  BY DEF Ruled
<1>7. Ruled(j) => Ruled([j EXCEPT !.sent = v])
  BY DEF Ruled
<1>8. Ruled(j) => Ruled([j EXCEPT !.todo = v])
  BY DEF Ruled
<1>9. Ruled(j) => Ruled([j EXCEPT !.step = "fan"])
  BY DEF Ruled
<1> QED
  BY <1>1, <1>2, <1>3, <1>4, <1>5, <1>6, <1>7, <1>8, <1>9

LEMMA AssignedTwice ==
  ASSUME NEW j, NEW a, NEW b
  PROVE  /\ [j EXCEPT !.ran = a, !.sent = b] = [[j EXCEPT !.ran = a] EXCEPT !.sent = b]
         /\ [j EXCEPT !.visited = a, !.todo = b] = [[j EXCEPT !.visited = a] EXCEPT !.todo = b]
         /\ [j EXCEPT !.step = a, !.todo = b] = [[j EXCEPT !.step = a] EXCEPT !.todo = b]
  OBVIOUS

LEMMA RunRouted ==
  ASSUME Walking(job) \/ Ruled(job), Right(job), NEW p
  PROVE  /\ Walking(job) => Walking(RunManifest(p))
         /\ Ruled(job) => Ruled(RunManifest(p))
         /\ RunManifest(p).step = job.step
         /\ Right(RunManifest(p))
<1> DEFINE dest == Destination(p, registries[job.reg][p], job.context.to)
           ran == Append(job.ran, p)
           sent == job.sent \cup {<<p, dest>>}
           r == [job EXCEPT !.ran = ran, !.sent = sent]
<1>1. RunManifest(p) = r
  BY DEF RunManifest
<1>2. p \in Column /\ Routed(job.asked, p) # Blank => dest = Routed(job.asked, p)
  BY DestinationRouted, ColumnIsPath DEF Right, Informed
<1>3. sent = job.sent \cup {<<p, dest>>}
  OBVIOUS
<1> HIDE DEF dest, ran, sent
<1>4. /\ Walking(job) => Walking(r)
      /\ Ruled(job) => Ruled(r)
  BY Assigned, AssignedTwice
<1>5. r.step = job.step /\ r.sent = sent /\ r.context = job.context /\ r.asked = job.asked
  BY DEF Walking, Ruled
<1> HIDE DEF r
<1>6. Right(r)
  BY <1>2, <1>3, <1>5 DEF Right, Informed, RoutedAll
<1> QED
  BY <1>1, <1>4, <1>5, <1>6

(* Where the walk or the rules go next does not change what was sent.       *)
LEMMA GoingOn ==
  ASSUME NEW j, Right(j), NEW td, NEW vs
  PROVE  /\ Walking(j) =>
              /\ Walking([j EXCEPT !.todo = td]) /\ Right([j EXCEPT !.todo = td])
              /\ Walking([j EXCEPT !.visited = vs, !.todo = td])
              /\ Right([j EXCEPT !.visited = vs, !.todo = td])
              /\ Walking([j EXCEPT !.step = "walked"]) /\ Right([j EXCEPT !.step = "walked"])
         /\ Ruled(j) =>
              /\ Ruled([j EXCEPT !.todo = td]) /\ Right([j EXCEPT !.todo = td])
              /\ Ruled([j EXCEPT !.step = "fan", !.todo = td])
              /\ Right([j EXCEPT !.step = "fan", !.todo = td])
<1>1. ASSUME Walking(j)
      PROVE  /\ Walking([j EXCEPT !.todo = td])
             /\ Walking([j EXCEPT !.visited = vs, !.todo = td])
             /\ Walking([j EXCEPT !.step = "walked"])
  BY <1>1, Assigned, AssignedTwice
<1>2. ASSUME Ruled(j)
      PROVE  Ruled([j EXCEPT !.todo = td]) /\ Ruled([j EXCEPT !.step = "fan", !.todo = td])
  BY <1>2, Assigned, AssignedTwice
<1>3. ASSUME NEW k, k.sent = j.sent, k.context = j.context, k.asked = j.asked PROVE Right(k)
  BY <1>3 DEF Right, Informed, RoutedAll
<1>4. ASSUME Walking(j) \/ Ruled(j)
      PROVE  /\ Right([j EXCEPT !.todo = td])
             /\ Right([j EXCEPT !.visited = vs, !.todo = td])
             /\ Right([j EXCEPT !.step = "walked"])
             /\ Right([j EXCEPT !.step = "fan", !.todo = td])
  BY <1>3, <1>4 DEF Walking, Ruled
<1> QED
  BY <1>1, <1>2, <1>4

LEMMA InJob ==
  ASSUME JobInv
  PROVE  /\ job.step \in {"walk", "walked"} => Walking(job) /\ Right(job)
         /\ job.step \in {"rules", "fan"} => Ruled(job) /\ Right(job)
  BY DEF JobInv, Followed, Arrived, Contexted, NoJob, Walking, Ruled

LEMMA JobKept ==
  ASSUME JobInv, [Next]_vars
  PROVE  JobInv'
<1>1. ASSUME UNCHANGED <<gateway, job>> PROVE JobInv'
  BY <1>1 DEF JobInv, Followed, Arrived, Contexted, Walking, Ruled, Right, Informed, RoutedAll, Synced
<1>2. ASSUME NEW j, job' = j, Followed(j), UNCHANGED gateway PROVE JobInv'
  BY <1>2 DEF JobInv, Synced
<1>3. job.step \in {"walk", "walked", "rules", "fan"} =>
        (Walking(job) \/ Ruled(job)) /\ Right(job)
  BY DEF JobInv, Followed, Arrived, Contexted, NoJob
<1>4. ASSUME NEW a \in Alerts, ReadColumns(a) PROVE JobInv'
  <2>1. job' = [step |-> "arrived", alert |-> a, asked |-> gateway] /\ UNCHANGED gateway
    BY <1>4 DEF ReadColumns
  <2>2. Arrived(job') /\ Synced(job'.asked)
    BY <2>1 DEF Arrived, JobInv
  <2> QED
    BY <1>2, <2>1, <2>2 DEF Followed
<1>5. CASE ReadContext
  <2>1. Arrived(job) /\ Synced(job.asked)
    BY <1>5 DEF ReadContext, JobInv, Followed, NoJob, Contexted, Walking, Ruled
  <2>2. PICK c : job' = [step |-> "stored", alert |-> job.alert, asked |-> job.asked,
                         context |-> [to |-> Overlaid(job.asked.columns, c.to), allowed |-> c.allowed]]
    BY <1>5 DEF ReadContext
  <2> DEFINE to == Overlaid(job.asked.columns, c.to)
  <2>3. Contexted(job') /\ job'.asked = job.asked /\ job'.context.to = to
    BY <2>2 DEF Contexted
  <2>4. DOMAIN to = Paths /\ \A p \in Column : Routed(job.asked, p) # Blank => to[p] = Routed(job.asked, p)
    BY <2>1, OverlaidIs
  <2> HIDE DEF to
  <2>5. Informed(job')
    BY <2>3, <2>4 DEF Informed
  <2>6. UNCHANGED gateway
    BY <1>5 DEF ReadContext
  <2> QED
    BY <1>2, <2>3, <2>5, <2>6 DEF Followed
<1>15. CASE RunPostIngestRemediation
  <2>1. Contexted(job) /\ Informed(job) /\ UNCHANGED gateway
    BY <1>15 DEF RunPostIngestRemediation, JobInv, Followed, NoJob, Arrived, Walking, Ruled
  <2>2. PICK key : LET context == [to |-> Keyed(job.context.to, key), allowed |-> job.context.allowed]
       IN  job' = IF IsWorkflowActive(stored)
                  THEN [step |-> "walk", alert |-> job.alert, asked |-> job.asked, context |-> context, reg |-> engine,
                        ran |-> <<>>, sent |-> {}, todo |-> <<stored.entry>>, doc |-> stored, visited |-> {}]
                  ELSE [step |-> "rules", alert |-> job.alert, asked |-> job.asked, context |-> context, reg |-> engine,
                        ran |-> <<>>, sent |-> {}, todo |-> {}]
    BY <1>15 DEF RunPostIngestRemediation
  <2> DEFINE to == Keyed(job.context.to, key)
             context == [to |-> to, allowed |-> job.context.allowed]
             w == [step |-> "walk", alert |-> job.alert, asked |-> job.asked, context |-> context, reg |-> engine,
                   ran |-> <<>>, sent |-> {}, todo |-> <<stored.entry>>, doc |-> stored, visited |-> {}]
             r == [step |-> "rules", alert |-> job.alert, asked |-> job.asked, context |-> context, reg |-> engine,
                   ran |-> <<>>, sent |-> {}, todo |-> {}]
  <2>3. job' = w \/ job' = r
    BY <2>2
  <2>4. DOMAIN to = Paths /\ \A p \in Column : Routed(job.asked, p) # Blank => to[p] = Routed(job.asked, p)
    BY <2>1, KeyedIs, ColumnIsPath DEF Informed
  <2>5. context.to = to
    OBVIOUS
  <2> HIDE DEF to, context
  <2>6. /\ Walking(w) /\ w.asked = job.asked /\ w.context = context /\ w.sent = {}
        /\ Ruled(r) /\ r.asked = job.asked /\ r.context = context /\ r.sent = {}
    BY DEF Walking, Ruled
  <2> HIDE DEF w, r
  <2>7. Right(w) /\ Right(r)
    BY <2>4, <2>5, <2>6 DEF Right, Informed, RoutedAll
  <2> QED
    BY <1>2, <2>1, <2>3, <2>6, <2>7 DEF Followed
<1>6. CASE VisitNode
  <2>1. Walking(job) /\ Right(job) /\ UNCHANGED gateway
    BY <1>3, <1>6 DEF VisitNode, Ruled
  <2>2. PICK j, td, vs : /\ j = job \/ \E p : j = RunManifest(p)
                         /\ \/ job' = [job EXCEPT !.todo = td]
                            \/ job' = [j EXCEPT !.visited = vs, !.todo = td]
    <3> DEFINE n == Head(job.todo)
               known == n \in DOMAIN job.doc.nodes
               j0 == IF known /\ Runs(n) THEN RunManifest(job.doc.nodes[n].path) ELSE job
               td == Successors(job.doc, n, job.alert) \o Tail(j0.todo)
               vs == j0.visited \cup {n}
    <3>1. \/ job' = [job EXCEPT !.todo = Tail(job.todo)]
          \/ job' = [j0 EXCEPT !.visited = vs, !.todo = td]
      BY <1>6 DEF VisitNode
    <3>2. j0 = job \/ \E p : j0 = RunManifest(p)
      OBVIOUS
    <3> HIDE DEF j0, td, vs
    <3> QED
      BY <3>1, <3>2
  <2>3. Walking(j) /\ Right(j)
    BY <2>1, <2>2, RunRouted
  <2> QED
    BY <1>2, <2>1, <2>2, <2>3, GoingOn DEF Followed
<1>7. CASE EndWalk
  BY <1>2, <1>3, <1>7, GoingOn DEF EndWalk, Ruled, Followed
<1>8. CASE EvaluateAlertRules
  <2>1. Ruled(job) /\ Right(job) /\ UNCHANGED gateway
    BY <1>3, <1>8 DEF EvaluateAlertRules, Walking
  <2>2. \E td : job' = [job EXCEPT !.step = "fan", !.todo = td]
    BY <1>8 DEF EvaluateAlertRules
  <2> QED
    BY <1>2, <2>1, <2>2, GoingOn DEF Followed
<1>9. CASE RunMatch
  <2>1. Ruled(job) /\ Right(job) /\ UNCHANGED gateway
    BY <1>3, <1>9 DEF RunMatch, Walking
  <2>2. \E p, td : job' = [RunManifest(p) EXCEPT !.todo = td]
    BY <1>9 DEF RunMatch
  <2>3. \A p : Ruled(RunManifest(p)) /\ Right(RunManifest(p))
    BY <2>1, RunRouted
  <2> QED
    BY <1>2, <2>1, <2>2, <2>3, GoingOn DEF Followed
<1>10. CASE EndJob \/ Restart
  BY <1>2, <1>10 DEF EndJob, Restart, Followed
<1>11. ASSUME NEW r, SaveProject(r) PROVE JobInv'
  <2>1. gateway' = [entries |-> r.entries, columns |-> SyncedColumns(r)] /\ UNCHANGED job
    BY <1>11 DEF SaveProject
  <2>2. Synced(gateway')
    BY <2>1, SavedIsSynced
  <2>3. Synced(gateway')  <=> Synced(gateway)'
    BY DEF Synced
  <2> QED
    BY <2>1, <2>2, <2>3
    DEF JobInv, Followed, Arrived, Contexted, Walking, Ruled, Right, Informed, RoutedAll, Synced
<1>12. ASSUME NEW d, PutWorkflow(d) PROVE UNCHANGED <<gateway, job>>
  BY <1>12 DEF PutWorkflow
<1>13. SaveProjectWorkflow \/ ClearProjectWorkflow => UNCHANGED <<gateway, job>>
  BY DEF SaveProjectWorkflow, ClearProjectWorkflow
<1>14. UNCHANGED workflowVars => UNCHANGED <<gateway, job>>
  BY DEF workflowVars
<1> QED
  BY <1>1, <1>4, <1>5, <1>6, <1>7, <1>8, <1>9, <1>10, <1>11, <1>12, <1>13, <1>14, <1>15
  DEF Next, ApplyRunbook, vars

(* Whatever administrators save meanwhile, and whether the gateway could be *)
(* read a second time or not, Slack, Jira and Teams are sent to where the   *)
(* gateway said when the alert arrived, if it said anything.                *)
THEOREM AlertsGoWhereRouted == Spec => []SentWhereRouted
<1>1. Init => JobInv
  BY SavedIsSynced DEF Init, JobInv, Followed
<1>2. JobInv /\ [Next]_vars => JobInv'
  BY JobKept
<1>3. JobInv => SentWhereRouted
  BY DEF JobInv, Followed, Arrived, Contexted, SentWhereRouted, Right, RoutedAll, NoJob
<1> QED
  BY <1>1, <1>2, <1>3, PTL DEF Spec

-----------------------------------------------------------------------------
(* A set of numbers that is not empty has a smallest element.               *)
LEMMA Smallest ==
  ASSUME NEW T \in SUBSET Nat, T # {}
  PROVE  \E x \in T : \A y \in T : x <= y
<1>1. IsWellFoundedOn(OpToRel(<, Nat), Nat)
  BY NatLessThanWellFounded
<1>2. \E x \in T : \A y \in T : ~ (<<y, x>> \in OpToRel(<, Nat))
  BY <1>1, WFMin
<1>3. \E x \in T : \A y \in T : ~ (y < x)
  BY <1>2 DEF OpToRel
<1> QED
  BY <1>3

(* Induction up to m, for what can be said as a set of numbers.             *)
LEMMA UpTo ==
  ASSUME NEW m \in Nat, NEW T, 0 \in T, \A i \in 0 .. m - 1 : i \in T => i + 1 \in T
  PROVE  \A i \in 0 .. m : i \in T
<1> DEFINE missing == {i \in 0 .. m : i \notin T}
<1> SUFFICES ASSUME missing # {} PROVE FALSE
  OBVIOUS
<1>1. missing \in SUBSET Nat
  OBVIOUS
<1>2. PICK x \in missing : \A y \in missing : x <= y
  BY <1>1, Smallest
<1>3. x # 0 /\ x - 1 \in 0 .. m - 1
  BY <1>2
<1>4. x - 1 \in T
  BY <1>2, <1>3
<1>5. x \in T
  BY <1>3, <1>4
<1> QED
  BY <1>2, <1>5

(* A table of functions that take D to D; what comes of them one after the  *)
(* other.                                                                   *)
Keeps(walk, I, D) == \A n \in I : \A q \in D : walk[n][q] \in D
Iteration(h, a, g, m) == h[0] = a /\ \A i \in 1 .. m : h[i] = g[i][h[i - 1]]

(* Functions that stay in D can be applied one after the other.             *)
LEMMA Iterates ==
  ASSUME NEW D, NEW a \in D, NEW m \in Nat, NEW g, Keeps(g, 1 .. m, D)
  PROVE  \E h \in [0 .. m -> D] : Iteration(h, a, g, m)
<1> USE DEF Keeps, Iteration
<1> DEFINE From(k) == \E h \in [0 .. k -> D] : h[0] = a /\ \A i \in 1 .. k : h[i] = g[i][h[i - 1]]
           T == {k \in 0 .. m : From(k)}
<1>1. 0 \in T
  <2> DEFINE h == [i \in 0 .. 0 |-> a]
  <2>1. h \in [0 .. 0 -> D] /\ h[0] = a /\ 1 .. 0 = {}
    OBVIOUS
  <2>2. From(0)
    BY <2>1
  <2> QED
    BY <2>2
<1>2. ASSUME NEW k \in 0 .. m - 1, k \in T PROVE k + 1 \in T
  <2>1. PICK h \in [0 .. k -> D] : h[0] = a /\ \A i \in 1 .. k : h[i] = g[i][h[i - 1]]
    BY <1>2
  <2> DEFINE f == [i \in 0 .. k + 1 |-> IF i = k + 1 THEN g[k + 1][h[k]] ELSE h[i]]
  <2>2. g[k + 1][h[k]] \in D
    OBVIOUS
  <2>3. f \in [0 .. k + 1 -> D]
    BY <2>2
  <2>4. f[0] = a
    BY <2>1
  <2>5. ASSUME NEW i \in 1 .. k + 1 PROVE f[i] = g[i][f[i - 1]]
    <3>1. f[i - 1] = h[i - 1]
      OBVIOUS
    <3>2. CASE i = k + 1
      BY <3>1, <3>2
    <3>3. CASE i # k + 1
      BY <2>1, <3>1, <3>3
    <3> QED
      BY <3>2, <3>3
  <2> HIDE DEF f
  <2>6. From(k + 1)
    BY <2>3, <2>4, <2>5
  <2> QED
    BY <2>6
<1> HIDE DEF T
<1>3. \A k \in 0 .. m : k \in T
  BY <1>1, <1>2, UpTo
<1> QED
  BY <1>3 DEF T

-----------------------------------------------------------------------------

(* What WalkEach gives after each of the successors.                        *)
Steps(f, walk, ns, plan) == f[0] = plan /\ \A i \in 1 .. Len(ns) : f[i] = walk[ns[i]][f[i - 1]]

(* WalkEach is the last of any sequence of plans that takes its steps.      *)
LEMMA EachIs ==
  ASSUME NEW walk, NEW ns, NEW plan, Len(ns) \in Nat, NEW f, Steps(f, walk, ns, plan)
  PROVE  WalkEach(walk, ns, plan) = f[Len(ns)]
<1> DEFINE m == Len(ns)
           Body(h) == [i \in 0 .. m |-> IF i = 0 THEN plan ELSE walk[ns[i]][h[i - 1]]]
           all == CHOOSE h : h = Body(h)
           known == [i \in 0 .. m |-> f[i]]
<1>1. known = Body(known)
  BY DEF Steps
<1>2. all = Body(all)
  <2> HIDE DEF Body
  <2> QED
    BY <1>1
<1>3. WalkEach(walk, ns, plan) = all[m]
  BY DEF WalkEach
<1> HIDE DEF all
<1> DEFINE T == {i \in 0 .. m : all[i] = f[i]}
<1>4. 0 \in T
  BY <1>2 DEF Steps
<1>5. \A i \in 0 .. m - 1 : i \in T => i + 1 \in T
  BY <1>2 DEF Steps
<1>6. \A i \in 0 .. m : i \in T
  <2> HIDE DEF T, m
  <2>1. m \in Nat
    BY DEF m
  <2> QED
    BY <1>4, <1>5, <2>1, UpTo
<1> QED
  BY <1>3, <1>6

(* While walk stays in D there is one, and it stays in D.                   *)
LEMMA EachSteps ==
  ASSUME NEW I, NEW D, NEW walk, Keeps(walk, I, D), NEW ns \in Seq(I), NEW plan \in D
  PROVE  \E f \in [0 .. Len(ns) -> D] : Steps(f, walk, ns, plan) /\ WalkEach(walk, ns, plan) = f[Len(ns)]
<1> DEFINE m == Len(ns)
           g == [i \in 1 .. m |-> walk[ns[i]]]
<1>1. m \in Nat /\ \A i \in 1 .. m : ns[i] \in I
  OBVIOUS
<1>2. Keeps(g, 1 .. m, D)
  BY <1>1 DEF Keeps
<1>3. PICK f \in [0 .. m -> D] : Iteration(f, plan, g, m)
  <2> HIDE DEF g, m
  <2> QED
    BY <1>1, <1>2, Iterates
<1>4. Steps(f, walk, ns, plan)
  BY <1>3 DEF Steps, Iteration
<1>5. WalkEach(walk, ns, plan) = f[m]
  BY <1>1, <1>4, EachIs
<1> QED
  BY <1>4, <1>5

(* Two lists of nodes are walked one after the other.                       *)
LEMMA EachConcat ==
  ASSUME NEW I, NEW D, NEW walk, Keeps(walk, I, D), NEW ns \in Seq(I), NEW more \in Seq(I), NEW plan \in D
  PROVE  WalkEach(walk, ns \o more, plan) = WalkEach(walk, more, WalkEach(walk, ns, plan))
<1> DEFINE k == Len(ns)  m == Len(more)  all == ns \o more
<1>1. PICK f \in [0 .. k -> D] : Steps(f, walk, ns, plan) /\ WalkEach(walk, ns, plan) = f[k]
  BY EachSteps
<1>2. k \in Nat /\ m \in Nat /\ f[k] \in D
  OBVIOUS
<1>3. PICK h \in [0 .. m -> D] : Steps(h, walk, more, f[k]) /\ WalkEach(walk, more, f[k]) = h[m]
  BY <1>2, EachSteps
<1> DEFINE both == [i \in 0 .. k + m |-> IF i <= k THEN f[i] ELSE h[i - k]]
<1>4. /\ Len(all) = k + m
      /\ \A i \in 1 .. k + m : all[i] = IF i <= k THEN ns[i] ELSE more[i - k]
  OBVIOUS
<1>5. both[0] = plan
  BY <1>1, <1>2 DEF Steps
<1>6. ASSUME NEW i \in 1 .. k + m PROVE both[i] = walk[all[i]][both[i - 1]]
  <2>1. CASE i <= k
    BY <1>1, <1>2, <1>4, <2>1 DEF Steps
  <2>2. CASE i > k
    <3>1. both[i] = h[i - k] /\ all[i] = more[i - k] /\ i - k \in 1 .. m
      BY <1>2, <1>4, <2>2
    <3>2. both[i - 1] = h[i - k - 1]
      BY <1>2, <1>3, <2>2 DEF Steps
    <3> QED
      BY <1>3, <3>1, <3>2 DEF Steps
  <2> QED
    BY <1>2, <2>1, <2>2
<1>7. both[k + m] = h[m]
  <2>1. CASE m = 0
    BY <1>2, <1>3, <2>1 DEF Steps
  <2>2. CASE m # 0
    <3>1. k + m \in 0 .. k + m /\ ~(k + m <= k) /\ (k + m) - k = m
      BY <1>2, <2>2
    <3> HIDE DEF k, m
    <3> QED
      BY <3>1
  <2> QED
    BY <2>1, <2>2
<1> HIDE DEF both, all
<1>8. Steps(both, walk, all, plan) /\ Len(all) \in Nat
  BY <1>2, <1>4, <1>5, <1>6 DEF Steps
<1>9. WalkEach(walk, all, plan) = both[k + m]
  BY <1>4, <1>8, EachIs
<1> QED
  BY <1>1, <1>3, <1>7, <1>9 DEF all

(* One node is walked by one call.                                          *)
LEMMA EachOne ==
  ASSUME NEW walk, NEW n, NEW plan
  PROVE  WalkEach(walk, <<n>>, plan) = walk[n][plan]
<1> DEFINE one == <<n>>
           f == [i \in 0 .. 1 |-> IF i = 0 THEN plan ELSE walk[n][plan]]
<1>1. Len(one) = 1 /\ Len(one) \in Nat /\ one[1] = n
  OBVIOUS
<1>2. Steps(f, walk, one, plan) /\ f[1] = walk[n][plan]
  BY <1>1 DEF Steps
<1> HIDE DEF one, f
<1>3. WalkEach(walk, one, plan) = f[Len(one)]
  BY <1>1, <1>2, EachIs
<1> QED
  BY <1>1, <1>2, <1>3 DEF one

(* No node leaves the plan as it is.                                        *)
LEMMA EachNone ==
  ASSUME NEW walk, NEW plan
  PROVE  WalkEach(walk, << >>, plan) = plan
<1> DEFINE f == [i \in 0 .. 0 |-> plan]
<1>1. Len(<< >>) = 0 /\ f[0] = plan /\ 1 .. 0 = {}
  OBVIOUS
<1>2. Steps(f, walk, << >>, plan)
  BY <1>1 DEF Steps
<1> HIDE DEF f
<1>3. WalkEach(walk, << >>, plan) = f[Len(<< >>)]
  BY <1>1, <1>2, EachIs
<1> QED
  BY <1>1, <1>3

(* The first node is walked before the others.                              *)
LEMMA EachNext ==
  ASSUME NEW I, NEW D, NEW walk, Keeps(walk, I, D), NEW ns \in Seq(I), ns # <<>>, NEW plan \in D
  PROVE  WalkEach(walk, ns, plan) = WalkEach(walk, Tail(ns), walk[Head(ns)][plan])
<1> DEFINE n == Head(ns)  one == <<n>>  rest == Tail(ns)
<1>1. one \in Seq(I) /\ rest \in Seq(I) /\ ns = one \o rest
  OBVIOUS
<1> HIDE DEF n
<1>2. WalkEach(walk, one, plan) = walk[n][plan]
  BY EachOne
<1> HIDE DEF one, rest
<1>3. WalkEach(walk, one \o rest, plan) = WalkEach(walk, rest, WalkEach(walk, one, plan))
  BY <1>1, EachConcat
<1>4. WalkEach(walk, ns, plan) = WalkEach(walk, rest, walk[n][plan])
  BY <1>1, <1>2, <1>3
<1> QED
  BY <1>4 DEF n, rest

(* Two walks that agree on D give the same, which is in D.                  *)
LEMMA EachSame ==
  ASSUME NEW I, NEW D, NEW walk, Keeps(walk, I, D), NEW other, \A n \in I : \A q \in D : other[n][q] = walk[n][q],
         NEW ns \in Seq(I), NEW plan \in D
  PROVE  WalkEach(walk, ns, plan) \in D /\ WalkEach(other, ns, plan) = WalkEach(walk, ns, plan)
<1>1. PICK f \in [0 .. Len(ns) -> D] : Steps(f, walk, ns, plan) /\ WalkEach(walk, ns, plan) = f[Len(ns)]
  BY EachSteps
<1>2. Len(ns) \in Nat /\ \A i \in 1 .. Len(ns) : ns[i] \in I /\ f[i - 1] \in D
  OBVIOUS
<1>3. Steps(f, other, ns, plan)
  BY <1>1, <1>2 DEF Steps
<1>4. WalkEach(other, ns, plan) = f[Len(ns)]
  BY <1>2, <1>3, EachIs
<1> QED
  BY <1>1, <1>2, <1>4

-----------------------------------------------------------------------------
(* What Those has kept after each element.                                  *)
Picks(f, s, S) ==
  f[0] = <<>> /\ \A i \in 1 .. Len(s) : f[i] = IF s[i] \in S THEN Append(f[i - 1], s[i]) ELSE f[i - 1]

(* Those is the last of any sequence that keeps what it keeps.              *)
LEMMA ThoseIs ==
  ASSUME NEW s, NEW S, Len(s) \in Nat, NEW f, Picks(f, s, S)
  PROVE  Those(s, S) = f[Len(s)]
<1> DEFINE m == Len(s)
           Body(h) == [i \in 0 .. m |-> IF i = 0 THEN <<>>
                                        ELSE IF s[i] \in S THEN Append(h[i - 1], s[i]) ELSE h[i - 1]]
           all == CHOOSE h : h = Body(h)
           known == [i \in 0 .. m |-> f[i]]
<1>1. known = Body(known)
  BY DEF Picks
<1>2. all = Body(all)
  <2> HIDE DEF Body
  <2> QED
    BY <1>1
<1>3. Those(s, S) = all[m]
  BY DEF Those
<1> HIDE DEF all
<1> DEFINE T == {i \in 0 .. m : all[i] = f[i]}
<1>4. 0 \in T
  BY <1>2 DEF Picks
<1>5. ASSUME NEW i \in 0 .. m - 1, i \in T PROVE i + 1 \in T
  <2>1. i + 1 \in 1 .. m /\ i + 1 \in 0 .. m /\ i + 1 # 0 /\ (i + 1) - 1 = i
    OBVIOUS
  <2>2. f[i + 1] = IF s[i + 1] \in S THEN Append(f[i], s[i + 1]) ELSE f[i]
    BY <2>1 DEF Picks
  <2>3. all[i + 1] = IF s[i + 1] \in S THEN Append(all[i], s[i + 1]) ELSE all[i]
    BY <1>2, <2>1
  <2>4. all[i] = f[i]
    BY <1>5
  <2> QED
    BY <2>1, <2>2, <2>3, <2>4
<1>6. \A i \in 0 .. m : i \in T
  <2> HIDE DEF T, m
  <2>1. m \in Nat
    BY DEF m
  <2> QED
    BY <1>4, <1>5, <2>1, UpTo
<1> QED
  BY <1>3, <1>6

(* There is one, of sequences over the same set.                            *)
LEMMA ThoseSteps ==
  ASSUME NEW T, NEW s \in Seq(T), NEW S
  PROVE  \E f \in [0 .. Len(s) -> Seq(T)] : Picks(f, s, S) /\ Those(s, S) = f[Len(s)]
<1> DEFINE m == Len(s)
           g == [i \in 1 .. m |-> [x \in Seq(T) |-> IF s[i] \in S THEN Append(x, s[i]) ELSE x]]
<1>1. m \in Nat /\ (\A i \in 1 .. m : s[i] \in T) /\ << >> \in Seq(T)
  OBVIOUS
<1>2. Keeps(g, 1 .. m, Seq(T))
  BY <1>1 DEF Keeps
<1>3. PICK f \in [0 .. m -> Seq(T)] : Iteration(f, << >>, g, m)
  <2> HIDE DEF g, m
  <2> QED
    BY <1>1, <1>2, Iterates
<1>4. Picks(f, s, S)
  <2>1. ASSUME NEW i \in 1 .. m PROVE f[i] = IF s[i] \in S THEN Append(f[i - 1], s[i]) ELSE f[i - 1]
    <3>1. \A x \in Seq(T) : g[i][x] = IF s[i] \in S THEN Append(x, s[i]) ELSE x
      OBVIOUS
    <3>2. i - 1 \in 0 .. m
      BY <1>1
    <3> HIDE DEF g, m
    <3>3. f[i - 1] \in Seq(T) /\ f[i] = g[i][f[i - 1]]
      BY <1>3, <3>2 DEF Iteration, m
    <3> QED
      BY <3>1, <3>3
  <2> QED
    BY <1>3, <2>1 DEF Picks, Iteration
<1>5. Those(s, S) = f[m]
  BY <1>1, <1>4, ThoseIs
<1> QED
  BY <1>4, <1>5

(* Those of a sequence over T is a sequence over T.                         *)
LEMMA ThoseIn ==
  ASSUME NEW T, NEW s \in Seq(T), NEW S
  PROVE  Those(s, S) \in Seq(T)
<1>1. Len(s) \in 0 .. Len(s)
  OBVIOUS
<1> QED
  BY <1>1, ThoseSteps

(* Nothing is kept of nothing.                                              *)
LEMMA ThoseNone == ASSUME NEW S PROVE Those(<< >>, S) = << >>
<1> DEFINE none == << >>
           f == [i \in 0 .. 0 |-> << >>]
<1>1. Len(none) = 0 /\ Len(none) \in Nat /\ f[0] = << >> /\ 1 .. 0 = {}
  OBVIOUS
<1>2. Picks(f, none, S)
  BY <1>1 DEF Picks
<1> HIDE DEF f, none
<1>3. Those(none, S) = f[Len(none)]
  BY <1>1, <1>2, ThoseIs
<1> QED
  BY <1>1, <1>3 DEF none

(* Those, when the sequence grows: the last element is kept or not.         *)
LEMMA ThoseAppend ==
  ASSUME NEW T, NEW s \in Seq(T), NEW x \in T, NEW S
  PROVE  Those(Append(s, x), S) = IF x \in S THEN Append(Those(s, S), x) ELSE Those(s, S)
<1> DEFINE m == Len(s)  more == Append(s, x)
<1>1. PICK f \in [0 .. m -> Seq(T)] : Picks(f, s, S) /\ Those(s, S) = f[m]
  BY ThoseSteps
<1>2. /\ m \in Nat /\ Len(more) = m + 1 /\ more[m + 1] = x
      /\ \A i \in 1 .. m : more[i] = s[i]
  OBVIOUS
<1> DEFINE last == IF x \in S THEN Append(f[m], x) ELSE f[m]
           g == [i \in 0 .. m + 1 |-> IF i = m + 1 THEN last ELSE f[i]]
<1> HIDE DEF more, m, last
<1>3. g[0] = f[0] /\ g[m + 1] = last /\ \A i \in 0 .. m : g[i] = f[i]
  BY <1>2
<1> HIDE DEF g
<1>4. ASSUME NEW i \in 1 .. m + 1
      PROVE  g[i] = IF more[i] \in S THEN Append(g[i - 1], more[i]) ELSE g[i - 1]
  <2>1. CASE i = m + 1
    <3>1. i - 1 = m /\ m \in 0 .. m
      BY <1>2, <2>1
    <3> QED
      BY <1>2, <1>3, <2>1, <3>1 DEF last
  <2>2. CASE i # m + 1
    <3>1. i \in 1 .. m /\ i \in 0 .. m /\ i - 1 \in 0 .. m
      BY <1>2, <2>2
    <3>2. g[i] = f[i] /\ g[i - 1] = f[i - 1] /\ more[i] = s[i]
      BY <1>2, <1>3, <3>1
    <3>3. f[i] = IF s[i] \in S THEN Append(f[i - 1], s[i]) ELSE f[i - 1]
      BY <1>1, <3>1 DEF Picks, m
    <3> QED
      BY <3>2, <3>3
  <2> QED
    BY <2>1, <2>2
<1>5. Picks(g, more, S) /\ Len(more) \in Nat
  <2>1. f[0] = << >> /\ Len(more) \in Nat
    BY <1>1, <1>2 DEF Picks
  <2> QED
    BY <1>2, <1>3, <1>4, <2>1 DEF Picks
<1>6. Those(more, S) = g[Len(more)]
  BY <1>5, ThoseIs
<1> QED
  BY <1>1, <1>2, <1>3, <1>6 DEF more, m, last

-----------------------------------------------------------------------------
(* A document names finitely many nodes.                                    *)
LEMMA DocumentIsFinite ==
  ASSUME NEW d, IsDocument(d)
  PROVE  IsFiniteSet(Ids(d)) /\ Cardinality(Ids(d)) \in Nat
<1> DEFINE places == DOMAIN d.edges
           to == [i \in places |-> d.edges[i].to]
           targets == {d.edges[i].to : i \in places}
<1>1. IsFiniteSet(places)
  <2>1. places = 1 .. Len(d.edges) /\ Len(d.edges) \in Nat
    BY DEF IsDocument
  <2>2. IsFiniteSet(1 .. Len(d.edges))
    BY <2>1, FS_Interval
  <2> QED
    BY <2>1, <2>2
<1>2. to \in Surjection(places, targets)
  BY DEF Surjection
<1>3. IsFiniteSet(targets)
  <2> HIDE DEF places, to, targets
  <2> QED
    BY <1>1, <1>2, FS_Surjection
<1>4. IsFiniteSet({d.entry})
  BY FS_Singleton
<1> HIDE DEF places, to
<1>5. IsFiniteSet(DOMAIN d.nodes \cup {d.entry})
  BY <1>4, FS_Union DEF IsDocument
<1>6. IsFiniteSet((DOMAIN d.nodes \cup {d.entry}) \cup targets)
  <2> HIDE DEF targets
  <2> QED
    BY <1>3, <1>5, FS_Union
<1>7. Ids(d) = (DOMAIN d.nodes \cup {d.entry}) \cup targets
  BY DEF Ids, places
<1> QED
  BY <1>6, <1>7, FS_CardinalityType

(* The walk stays among the names of its document.                          *)
LEMMA SuccessorsIn ==
  ASSUME NEW d, IsDocument(d), NEW n, NEW alert
  PROVE  Successors(d, n, alert) \in Seq(Ids(d))
<1> DEFINE edges == {d.edges[i] : i \in DOMAIN d.edges}
<1>1. ASSUME NEW when PROVE OutgoingEdges(d, n, when) \in Seq(Ids(d))
  <2> DEFINE leaves == {i \in DOMAIN d.edges : d.edges[i].from = n /\ d.edges[i].when = when}
             these == {d.edges[i] : i \in leaves}
             picked == Those(d.edges, these)
  <2>1. \A e \in edges : e.to \in Ids(d)
    BY DEF Ids
  <2>2. d.edges \in Seq(edges)
    BY DEF IsDocument
  <2>3. OutgoingEdges(d, n, when) = [i \in DOMAIN picked |-> picked[i].to]
    BY DEF OutgoingEdges
  <2> HIDE DEF edges, these
  <2>4. picked \in Seq(edges)
    BY <2>2, ThoseIn
  <2> HIDE DEF picked
  <2>5. DOMAIN picked = 1 .. Len(picked) /\ Len(picked) \in Nat /\ \A i \in DOMAIN picked : picked[i] \in edges
    BY <2>4
  <2> QED
    BY <2>1, <2>3, <2>5
<1>2. << >> \in Seq(Ids(d))
  OBVIOUS
<1> QED
  BY <1>1, <1>2 DEF Successors

(* Passing a node marks it, and lists paths of the document only.           *)
LEMMA PassedIn ==
  ASSUME NEW d, NEW n \in Ids(d), NEW allowed, NEW plan \in Plans(d)
  PROVE  /\ Passed(d, n, allowed, plan) \in Plans(d)
         /\ Passed(d, n, allowed, plan).visited = plan.visited \cup {n}
<1> DEFINE acts == n \in DOMAIN d.nodes /\ d.nodes[n].type = "action" /\ d.nodes[n].path \in allowed
           more == IF acts THEN Append(plan.actions, d.nodes[n].path) ELSE plan.actions
<1>1. plan.visited \in SUBSET Ids(d) /\ plan.actions \in Seq(PathsOf(d))
  BY DEF Plans
<1>2. acts => d.nodes[n].path \in PathsOf(d)
  BY DEF PathsOf
<1>3. more \in Seq(PathsOf(d))
  <2>1. CASE acts
    <3>1. Append(plan.actions, d.nodes[n].path) \in Seq(PathsOf(d))
      <4>1. d.nodes[n].path \in PathsOf(d)
        BY <1>2, <2>1
      <4> HIDE DEF acts
      <4> QED
        BY <1>1, <4>1
    <3> QED
      BY <2>1, <3>1
  <2>2. CASE ~acts
    BY <1>1, <2>2
  <2> QED
    BY <2>1, <2>2
<1>4. Passed(d, n, allowed, plan) = [visited |-> plan.visited \cup {n}, actions |-> more]
  BY DEF Passed
<1> HIDE DEF more
<1> QED
  BY <1>1, <1>3, <1>4 DEF Plans

-----------------------------------------------------------------------------
(* What a document's edges lead to, as a set that edges do not leave.       *)
Closed(d, S) == Targets(d, S) \subseteq S
EdgeEnds(d) == {d.edges[i].to : i \in DOMAIN d.edges}

(* Edges end at no more nodes than there are edges.                         *)
LEMMA EndsAreFew ==
  ASSUME NEW d, IsDocument(d)
  PROVE  /\ Len(d.edges) \in Nat /\ IsFiniteSet(EdgeEnds(d)) /\ Cardinality(EdgeEnds(d)) <= Len(d.edges)
         /\ \A S : Targets(d, S) \subseteq EdgeEnds(d)
<1> DEFINE m == Len(d.edges)
           to == [i \in 1 .. m |-> d.edges[i].to]
<1>1. m \in Nat /\ DOMAIN d.edges = 1 .. m
  BY DEF IsDocument
<1>2. to \in Surjection(1 .. m, EdgeEnds(d))
  BY <1>1 DEF Surjection, EdgeEnds
<1>3. IsFiniteSet(1 .. m) /\ Cardinality(1 .. m) = m
  BY <1>1, FS_Interval
<1> HIDE DEF to, m
<1>4. IsFiniteSet(EdgeEnds(d)) /\ Cardinality(EdgeEnds(d)) <= m
  BY <1>2, <1>3, FS_Surjection
<1>5. \A S : Targets(d, S) \subseteq EdgeEnds(d)
  BY DEF Targets, EdgeEnds
<1> QED
  BY <1>1, <1>4, <1>5 DEF m

(* Reachable, step by step.                                                 *)
Spreads(f, d, n) ==
  f[0] = Targets(d, {n}) /\ \A k \in 1 .. Len(d.edges) : f[k] = f[k - 1] \cup Targets(d, f[k - 1])

LEMMA ReachableSteps ==
  ASSUME NEW d, IsDocument(d), NEW n
  PROVE  \E f \in [0 .. Len(d.edges) -> SUBSET EdgeEnds(d)] : Spreads(f, d, n) /\ Reachable(d, n) = f[Len(d.edges)]
<1> DEFINE m == Len(d.edges)  D == SUBSET EdgeEnds(d)
           g == [k \in 1 .. m |-> [S \in D |-> S \cup Targets(d, S)]]
           Body(h) == [k \in 0 .. m |-> IF k = 0 THEN Targets(d, {n}) ELSE h[k - 1] \cup Targets(d, h[k - 1])]
           all == CHOOSE h : h = Body(h)
<1>1. m \in Nat /\ \A S : Targets(d, S) \in D
  BY EndsAreFew
<1>2. Keeps(g, 1 .. m, D)
  BY <1>1 DEF Keeps
<1>3. PICK f \in [0 .. m -> D] : Iteration(f, Targets(d, {n}), g, m)
  <2> HIDE DEF g, m, D
  <2> QED
    BY <1>1, <1>2, Iterates
<1>4. ASSUME NEW k \in 1 .. m PROVE f[k] = f[k - 1] \cup Targets(d, f[k - 1])
  <2>1. k - 1 \in 0 .. m
    BY <1>1
  <2>2. \A S \in D : g[k][S] = S \cup Targets(d, S)
    OBVIOUS
  <2> HIDE DEF g, m, D
  <2>3. f[k - 1] \in D /\ f[k] = g[k][f[k - 1]]
    BY <1>3, <2>1 DEF Iteration
  <2> QED
    BY <2>2, <2>3
<1>5. f[0] = Targets(d, {n})
  BY <1>3 DEF Iteration
<1>6. f = Body(f)
  <2> HIDE DEF D
  <2>1. ASSUME NEW k \in 0 .. m
        PROVE  f[k] = IF k = 0 THEN Targets(d, {n}) ELSE f[k - 1] \cup Targets(d, f[k - 1])
    <3>1. CASE k = 0
      BY <1>5, <3>1
    <3>2. CASE k # 0
      <4>1. k \in 1 .. m
        BY <1>1, <3>2
      <4> QED
        BY <1>4, <3>2, <4>1
    <3> QED
      BY <3>1, <3>2
  <2> QED
    BY <2>1
<1>7. all = Body(all)
  <2> HIDE DEF Body
  <2> QED
    BY <1>6
<1>8. Reachable(d, n) = all[m]
  BY DEF Reachable
<1> HIDE DEF all, D
<1> DEFINE T == {k \in 0 .. m : all[k] = f[k]}
<1>9. 0 \in T
  BY <1>1, <1>5, <1>7
<1>10. ASSUME NEW k \in 0 .. m - 1, k \in T PROVE k + 1 \in T
  <2>1. k + 1 \in 1 .. m /\ k + 1 \in 0 .. m /\ k + 1 # 0 /\ (k + 1) - 1 = k
    BY <1>1
  <2>2. f[k + 1] = f[k] \cup Targets(d, f[k])
    BY <1>4, <2>1
  <2>3. all[k + 1] = all[k] \cup Targets(d, all[k])
    BY <1>7, <2>1
  <2> QED
    BY <1>10, <2>1, <2>2, <2>3
<1>11. \A k \in 0 .. m : k \in T
  <2> HIDE DEF T, m
  <2> QED
    BY <1>1, <1>9, <1>10, UpTo
<1>12. Spreads(f, d, n) /\ all[m] = f[m]
  <2>1. m \in 0 .. m
    BY <1>1
  <2> QED
    BY <1>4, <1>5, <1>11, <2>1 DEF Spreads
<1> QED
  BY <1>8, <1>12 DEF D

(* The search for a loop looks as far as there is anything to find: what a  *)
(* node reaches is what its edges and theirs lead to, however long the way, *)
(* and nothing else.                                                        *)
THEOREM ReachableIsLeast ==
  ASSUME NEW d, IsDocument(d), NEW n
  PROVE  /\ Targets(d, {n}) \subseteq Reachable(d, n) /\ Closed(d, Reachable(d, n))
         /\ \A S : Targets(d, {n}) \subseteq S /\ Closed(d, S) => Reachable(d, n) \subseteq S
<1> DEFINE m == Len(d.edges)  E == EdgeEnds(d)
<1>1. PICK f \in [0 .. m -> SUBSET E] : Spreads(f, d, n) /\ Reachable(d, n) = f[m]
  BY ReachableSteps
<1>2. m \in Nat /\ m \in 0 .. m /\ IsFiniteSet(E) /\ Cardinality(E) \in Nat /\ Cardinality(E) <= m
  BY EndsAreFew, FS_CardinalityType
<1> HIDE DEF E, m
<1>3. ASSUME NEW k \in 0 .. m - 1
      PROVE  k \in 0 .. m /\ k + 1 \in 0 .. m /\ f[k + 1] = f[k] \cup Targets(d, f[k])
  <2>1. k \in 0 .. m /\ k + 1 \in 0 .. m /\ k + 1 \in 1 .. m /\ (k + 1) - 1 = k
    BY <1>2
  <2>2. f[k + 1] = f[(k + 1) - 1] \cup Targets(d, f[(k + 1) - 1])
    BY <1>1, <2>1 DEF Spreads, m
  <2> QED
    BY <2>1, <2>2
<1>4. f[0] = Targets(d, {n}) /\ 0 \in 0 .. m
  BY <1>1, <1>2 DEF Spreads
<1>5. Targets(d, {n}) \subseteq f[m]
  <2> DEFINE T == {k \in 0 .. m : Targets(d, {n}) \subseteq f[k]}
  <2>1. 0 \in T /\ \A k \in 0 .. m - 1 : k \in T => k + 1 \in T
    BY <1>3, <1>4
  <2> HIDE DEF T
  <2>2. \A k \in 0 .. m : k \in T
    BY <1>2, <2>1, UpTo
  <2> QED
    BY <1>2, <2>2 DEF T
<1>6. ASSUME NEW S, Targets(d, {n}) \subseteq S, Closed(d, S) PROVE f[m] \subseteq S
  <2> DEFINE T == {k \in 0 .. m : f[k] \subseteq S}
  <2>1. \A U : U \subseteq S => Targets(d, U) \subseteq Targets(d, S)
    BY DEF Targets
  <2>2. 0 \in T /\ \A k \in 0 .. m - 1 : k \in T => k + 1 \in T
    BY <1>3, <1>4, <1>6, <2>1 DEF Closed
  <2> HIDE DEF T
  <2>3. \A k \in 0 .. m : k \in T
    BY <1>2, <2>2, UpTo
  <2> QED
    BY <1>2, <2>3 DEF T
<1>7. Closed(d, f[m])
  <2> DEFINE T == {k \in 0 .. m : Closed(d, f[k]) \/ Cardinality(f[k]) >= k + 1}
  <2>1. ASSUME NEW k \in 0 .. m PROVE IsFiniteSet(f[k]) /\ Cardinality(f[k]) \in Nat /\ Cardinality(f[k]) <= m
    <3>1. f[k] \in SUBSET E
      OBVIOUS
    <3>2. IsFiniteSet(f[k]) /\ Cardinality(f[k]) <= Cardinality(E)
      BY <1>2, <3>1, FS_Subset
    <3> QED
      BY <1>2, <3>2, FS_CardinalityType
  <2>2. 0 \in T
    <3>1. CASE f[0] = {}
      BY <1>4, <3>1 DEF Closed, Targets
    <3>2. CASE f[0] # {}
      <4>1. Cardinality(f[0]) # 0
        BY <1>4, <2>1, <3>2, FS_EmptySet
      <4> QED
        BY <1>4, <2>1, <4>1
    <3> QED
      BY <3>1, <3>2
  <2>3. ASSUME NEW k \in 0 .. m - 1, k \in T PROVE k + 1 \in T
    <3>1. k \in 0 .. m /\ k + 1 \in 0 .. m /\ f[k + 1] = f[k] \cup Targets(d, f[k])
      BY <1>3
    <3>2. CASE Closed(d, f[k])
      <4>1. f[k + 1] = f[k]
        BY <3>1, <3>2 DEF Closed
      <4> QED
        BY <3>1, <3>2, <4>1
    <3>3. CASE ~Closed(d, f[k])
      <4>1. f[k] \in SUBSET f[k + 1] /\ f[k + 1] # f[k]
        BY <3>1, <3>3 DEF Closed
      <4>2. Cardinality(f[k]) <= Cardinality(f[k + 1]) /\ Cardinality(f[k]) # Cardinality(f[k + 1])
        BY <2>1, <3>1, <4>1, FS_Subset
      <4>3. Cardinality(f[k]) >= k + 1
        BY <2>3, <3>3
      <4>4. Cardinality(f[k]) \in Nat /\ Cardinality(f[k + 1]) \in Nat
        BY <2>1, <3>1
      <4>5. Cardinality(f[k + 1]) >= (k + 1) + 1
        BY <4>2, <4>3, <4>4
      <4> QED
        BY <3>1, <4>5
    <3> QED
      BY <3>2, <3>3
  <2> HIDE DEF T
  <2>4. \A k \in 0 .. m : k \in T
    BY <1>2, <2>2, <2>3, UpTo
  <2>5. Closed(d, f[m]) \/ Cardinality(f[m]) >= m + 1
    BY <1>2, <2>4 DEF T
  <2>6. Cardinality(f[m]) \in Nat /\ Cardinality(f[m]) <= m
    BY <1>2, <2>1
  <2> QED
    BY <1>2, <2>5, <2>6
<1> QED
  BY <1>1, <1>5, <1>6, <1>7

-----------------------------------------------------------------------------
(* A dry run that goes one call deeper than walk.                           *)
Deeper(walk, d, alert, allowed) ==
  [n \in Ids(d) |-> [plan \in Plans(d) |->
     IF n \in plan.visited THEN plan
     ELSE WalkEach(walk, Successors(d, n, alert), Passed(d, n, allowed, plan))]]

(* It makes plans from plans.                                               *)
LEMMA DeeperKeeps ==
  ASSUME NEW d, IsDocument(d), NEW alert, NEW allowed, NEW walk, Keeps(walk, Ids(d), Plans(d))
  PROVE  /\ Deeper(walk, d, alert, allowed) \in [Ids(d) -> [Plans(d) -> Plans(d)]]
         /\ Keeps(Deeper(walk, d, alert, allowed), Ids(d), Plans(d))
<1> DEFINE I == Ids(d)  D == Plans(d)
<1>1. ASSUME NEW n \in I, NEW plan \in D
      PROVE  WalkEach(walk, Successors(d, n, alert), Passed(d, n, allowed, plan)) \in D
  <2>1. Successors(d, n, alert) \in Seq(I)
    BY SuccessorsIn
  <2>2. Passed(d, n, allowed, plan) \in D
    BY PassedIn
  <2> QED
    BY <2>1, <2>2, EachSame
<1>2. \A n \in I, plan \in D :
        (IF n \in plan.visited THEN plan
         ELSE WalkEach(walk, Successors(d, n, alert), Passed(d, n, allowed, plan))) \in D
  BY <1>1
<1>3. Deeper(walk, d, alert, allowed) \in [I -> [D -> D]]
  BY <1>2 DEF Deeper
<1> QED
  BY <1>3 DEF Keeps

(* A dry run at each depth: the definition of WalkPlan, unfolded once.      *)
IsWalk(W, d, alert, allowed) ==
  /\ \A n \in Ids(d), plan \in Plans(d) : W[0][n][plan] = plan
  /\ \A k \in 1 .. Cardinality(Ids(d)) : W[k] = Deeper(W[k - 1], d, alert, allowed)
  /\ \A k \in 0 .. Cardinality(Ids(d)) : Keeps(W[k], Ids(d), Plans(d))

(* There is one, so that WalkPlan's recursion is one.                       *)
LEMMA WalkIs ==
  ASSUME NEW d, IsDocument(d), NEW alert, NEW allowed
  PROVE  IsWalk(WalkPlan(d, alert, allowed), d, alert, allowed)
<1> DEFINE K == Cardinality(Ids(d))  I == Ids(d)  D == Plans(d)
           Walks == {w \in [I -> [D -> D]] : Keeps(w, I, D)}
           same == [n \in I |-> [plan \in D |-> plan]]
           g == [k \in 1 .. K |-> [w \in Walks |-> Deeper(w, d, alert, allowed)]]
           Level(w, k) == [n \in I |-> [plan \in D |->
             IF k = 0 \/ n \in plan.visited THEN plan
             ELSE WalkEach(w[k - 1], Successors(d, n, alert), Passed(d, n, allowed, plan))]]
           Body(w) == [k \in 0 .. K |-> Level(w, k)]
           all == CHOOSE w : w = Body(w)
<1>1. K \in Nat
  BY DocumentIsFinite
<1>2. \A w : Level(w, 0) = same
  OBVIOUS
<1>3. \A w : \A k \in 1 .. K : Level(w, k) = Deeper(w[k - 1], d, alert, allowed)
  BY <1>1 DEF Deeper
<1>4. PICK h \in [0 .. K -> Walks] : Iteration(h, same, g, K)
  <2>1. same \in Walks
    BY DEF Keeps
  <2>2. ASSUME NEW w \in Walks PROVE Deeper(w, d, alert, allowed) \in Walks
    BY DeeperKeeps
  <2>3. Keeps(g, 1 .. K, Walks)
    <3> HIDE DEF Walks, K
    <3> QED
      BY <2>2 DEF Keeps
  <2> HIDE DEF Walks, K, same, g
  <2> QED
    BY <1>1, <2>1, <2>3, Iterates
<1>5. h = Body(h)
  <2> HIDE DEF Level, Walks, same
  <2>1. h[0] = Level(h, 0)
    BY <1>2, <1>4 DEF Iteration
  <2>2. ASSUME NEW k \in 1 .. K PROVE h[k] = Level(h, k)
    <3>1. k - 1 \in 0 .. K
      BY <1>1
    <3>2. \A w \in Walks : g[k][w] = Deeper(w, d, alert, allowed)
      OBVIOUS
    <3> HIDE DEF g, K
    <3>3. h[k - 1] \in Walks /\ h[k] = g[k][h[k - 1]]
      BY <1>4, <3>1 DEF Iteration
    <3> QED
      BY <1>3, <3>2, <3>3
  <2>3. \A k \in 0 .. K : h[k] = Level(h, k)
    BY <1>1, <2>1, <2>2
  <2> HIDE DEF K
  <2> QED
    BY <2>3
<1>6. all = Body(all)
  <2> HIDE DEF Body
  <2> QED
    BY <1>5
<1>7. WalkPlan(d, alert, allowed) = all
  BY DEF WalkPlan
<1> HIDE DEF all
<1>8. all[0] = same /\ \A k \in 1 .. K : all[k] = Deeper(all[k - 1], d, alert, allowed)
  <2> HIDE DEF Level, same, K
  <2> QED
    BY <1>1, <1>2, <1>3, <1>6
<1> DEFINE T == {k \in 0 .. K : Keeps(all[k], I, D)}
<1>9. 0 \in T
  BY <1>1, <1>8 DEF Keeps
<1>10. ASSUME NEW k \in 0 .. K - 1, k \in T PROVE k + 1 \in T
  <2>1. Keeps(all[k], I, D) /\ k + 1 \in 1 .. K /\ k + 1 \in 0 .. K /\ (k + 1) - 1 = k
    BY <1>1, <1>10
  <2> HIDE DEF K
  <2>2. all[k + 1] = Deeper(all[k], d, alert, allowed)
    BY <1>8, <2>1
  <2>3. Keeps(Deeper(all[k], d, alert, allowed), I, D)
    BY <2>1, DeeperKeeps
  <2> QED
    BY <2>1, <2>2, <2>3
<1>11. \A k \in 0 .. K : k \in T
  <2> HIDE DEF T, K
  <2> QED
    BY <1>1, <1>9, <1>10, UpTo
<1>12. \A n \in I, plan \in D : all[0][n][plan] = plan
  BY <1>8
<1>13. \A k \in 0 .. K : Keeps(all[k], I, D)
  BY <1>11
<1> HIDE DEF K
<1> QED
  BY <1>7, <1>8, <1>12, <1>13 DEF K, IsWalk

(* The plans that have visited V already.                                   *)
Beyond(d, V) == {q \in Plans(d) : V \subseteq q.visited}

(* A dry run never takes back a visit.                                      *)
LEMMA WalkVisits ==
  ASSUME NEW d, IsDocument(d), NEW alert, NEW allowed, NEW W, IsWalk(W, d, alert, allowed),
         NEW V, NEW j \in 0 .. Cardinality(Ids(d))
  PROVE  Keeps(W[j], Ids(d), Beyond(d, V))
<1> DEFINE K == Cardinality(Ids(d))  I == Ids(d)  D == Beyond(d, V)
           T == {k \in 0 .. K : Keeps(W[k], I, D)}
<1>1. K \in Nat
  BY DocumentIsFinite
<1>2. 0 \in T
  BY <1>1 DEF Keeps, Beyond, IsWalk
<1>3. ASSUME NEW k \in 0 .. K - 1, k \in T PROVE k + 1 \in T
  <2>1. Keeps(W[k], I, D) /\ k + 1 \in 1 .. K /\ k + 1 \in 0 .. K /\ (k + 1) - 1 = k
    BY <1>1, <1>3
  <2> HIDE DEF K
  <2>2. W[k + 1] = Deeper(W[k], d, alert, allowed)
    BY <2>1 DEF IsWalk, K
  <2>3. ASSUME NEW n \in I, NEW q \in D PROVE W[k + 1][n][q] \in D
    <3>1. q \in Plans(d)
      BY DEF Beyond
    <3>2. CASE n \in q.visited
      BY <2>2, <3>1, <3>2 DEF Deeper
    <3>3. CASE n \notin q.visited
      <4>1. Passed(d, n, allowed, q) \in D
        BY <3>1, PassedIn DEF Beyond
      <4>2. Successors(d, n, alert) \in Seq(I)
        BY SuccessorsIn
      <4>3. WalkEach(W[k], Successors(d, n, alert), Passed(d, n, allowed, q)) \in D
        <5> HIDE DEF D, I
        <5> QED
          BY <2>1, <4>1, <4>2, EachSame
      <4> QED
        BY <2>2, <3>1, <3>3, <4>3 DEF Deeper
    <3> QED
      BY <3>2, <3>3
  <2> HIDE DEF D
  <2>4. Keeps(W[k + 1], I, D)
    BY <2>3 DEF Keeps
  <2> QED
    BY <2>1, <2>4
<1>4. \A k \in 0 .. K : k \in T
  <2> HIDE DEF T, K
  <2> QED
    BY <1>1, <1>2, <1>3, UpTo
<1> QED
  BY <1>4

(* How many names a plan has not visited.                                   *)
Left(d, plan) == Cardinality(Ids(d) \ plan.visited)

(* It only falls, and by one with each new node.                            *)
LEMMA LeftLess ==
  ASSUME NEW d, IsDocument(d), NEW V, NEW q \in Beyond(d, V)
  PROVE  /\ Left(d, q) \in Nat
         /\ Left(d, q) <= Cardinality(Ids(d) \ V)
         /\ \A n \in Ids(d) : n \notin V => Cardinality(Ids(d) \ (V \cup {n})) = Cardinality(Ids(d) \ V) - 1
         /\ Cardinality(Ids(d) \ V) \in Nat
         /\ Cardinality(Ids(d) \ V) = 0 => Ids(d) \subseteq V
<1> DEFINE I == Ids(d)  rest == I \ V
<1>1. IsFiniteSet(I)
  BY DocumentIsFinite
<1>2. IsFiniteSet(rest) /\ Cardinality(rest) \in Nat
  <2>1. rest \in SUBSET I
    OBVIOUS
  <2> HIDE DEF I, rest
  <2> QED
    BY <1>1, <2>1, FS_Subset, FS_CardinalityType
<1>3. I \ q.visited \in SUBSET rest
  BY DEF Beyond
<1> HIDE DEF I, rest
<1>4. Left(d, q) <= Cardinality(rest) /\ Left(d, q) \in Nat
  BY <1>2, <1>3, FS_Subset, FS_CardinalityType DEF Left, I
<1>5. ASSUME NEW n \in I, n \notin V PROVE Cardinality(I \ (V \cup {n})) = Cardinality(rest) - 1
  <2>1. I \ (V \cup {n}) = rest \ {n} /\ n \in rest
    BY <1>5 DEF rest
  <2> QED
    BY <1>2, <2>1, FS_RemoveElement
<1>6. Cardinality(rest) = 0 => rest = {}
  BY <1>2, FS_EmptySet
<1> QED
  BY <1>2, <1>4, <1>5, <1>6 DEF rest, I

(* As deep as there are names left, a deeper dry run finds nothing more.    *)
LEMMA DepthIsEnough ==
  ASSUME NEW d, IsDocument(d), NEW alert, NEW allowed, NEW W, IsWalk(W, d, alert, allowed),
         NEW j \in 0 .. Cardinality(Ids(d)) - 1
  PROVE  \A n \in Ids(d), q \in Plans(d) : Left(d, q) <= j => W[j + 1][n][q] = W[j][n][q]
<1> DEFINE K == Cardinality(Ids(d))  I == Ids(d)
           Same(k) == \A n \in I, q \in Plans(d) : Left(d, q) <= k => W[k + 1][n][q] = W[k][n][q]
           T == {k \in 0 .. K - 1 : Same(k)}
<1>1. K \in Nat /\ K - 1 \in Nat
  BY DocumentIsFinite
<1>2. ASSUME NEW q \in Plans(d)
      PROVE  q \in Beyond(d, q.visited) /\ Left(d, q) \in Nat /\ (Left(d, q) = 0 => I \subseteq q.visited)
  <2>1. q \in Beyond(d, q.visited)
    BY DEF Beyond
  <2> QED
    BY <2>1, LeftLess DEF Left
<1>3. 0 \in T
  <2>1. ASSUME NEW n \in I, NEW q \in Plans(d), Left(d, q) <= 0 PROVE W[1][n][q] = W[0][n][q]
    <3>1. n \in q.visited
      BY <1>2, <2>1
    <3>2. W[1] = Deeper(W[0], d, alert, allowed) /\ W[0][n][q] = q
      BY <1>1 DEF IsWalk
    <3> QED
      BY <3>1, <3>2 DEF Deeper
  <2> QED
    BY <1>1, <2>1
<1>4. ASSUME NEW k \in 0 .. (K - 1) - 1, k \in T PROVE k + 1 \in T
  <2>1. /\ Same(k) /\ k + 1 \in 1 .. K /\ k + 2 \in 1 .. K /\ k \in 0 .. K /\ k + 1 \in 0 .. K - 1
        /\ (k + 1) - 1 = k /\ (k + 2) - 1 = k + 1 /\ (k + 1) + 1 = k + 2
    BY <1>1, <1>4
  <2>2. W[k + 1] = Deeper(W[k], d, alert, allowed) /\ W[k + 2] = Deeper(W[k + 1], d, alert, allowed)
    <3> HIDE DEF Same, K
    <3> QED
      BY <2>1 DEF IsWalk, K
  <2>3. ASSUME NEW n \in I, NEW q \in Plans(d), Left(d, q) <= k + 1 PROVE W[k + 2][n][q] = W[k + 1][n][q]
    <3>1. CASE n \in q.visited
      BY <2>2, <3>1 DEF Deeper
    <3>2. CASE n \notin q.visited
      <4> DEFINE p == Passed(d, n, allowed, q)  ns == Successors(d, n, alert)  D == Beyond(d, p.visited)
      <4>1. p \in Plans(d) /\ p.visited = q.visited \cup {n}
        BY PassedIn
      <4>2. ns \in Seq(I)
        BY SuccessorsIn
      <4> HIDE DEF p, ns
      <4>3. Left(d, p) <= k
        <5>1. Left(d, p) = Left(d, q) - 1
          BY <1>2, <3>2, <4>1, LeftLess DEF Left
        <5> QED
          BY <1>1, <1>2, <2>3, <4>1, <5>1
      <4>4. Keeps(W[k], I, D)
        <5> HIDE DEF Same
        <5> QED
          BY <2>1, WalkVisits
      <4>5. ASSUME NEW m \in I, NEW r \in D PROVE W[k + 1][m][r] = W[k][m][r]
        <5>1. r \in Plans(d)
          BY DEF Beyond
        <5>2. Left(d, r) <= Left(d, p)
          BY LeftLess DEF Left
        <5>3. Left(d, r) <= k
          BY <1>2, <4>1, <4>3, <5>1, <5>2
        <5> QED
          BY <2>1, <5>1, <5>3
      <4>6. p \in D
        BY <1>2, <4>1
      <4>7. WalkEach(W[k + 1], ns, p) = WalkEach(W[k], ns, p)
        <5> HIDE DEF D, I
        <5> QED
          BY <4>2, <4>4, <4>5, <4>6, EachSame
      <4> QED
        BY <2>2, <3>2, <4>7 DEF Deeper, p, ns
    <3> QED
      BY <3>1, <3>2
  <2>4. Same(k + 1)
    BY <2>1, <2>3
  <2> QED
    BY <2>1, <2>4
<1>5. \A k \in 0 .. K - 1 : k \in T
  <2> HIDE DEF T, K
  <2> QED
    BY <1>1, <1>3, <1>4, UpTo
<1> QED
  BY <1>5

(* So the bound on the depth, which the code has not, is never felt: the    *)
(* dry run of a node that was not visited is the node, then its successors, *)
(* whose dry runs may go as deep as its own.                                *)
THEOREM WalkUnfolds ==
  ASSUME NEW d, IsDocument(d), NEW alert, NEW allowed, NEW W, IsWalk(W, d, alert, allowed),
         NEW n \in Ids(d), NEW q \in Plans(d)
  PROVE  LET w == W[Cardinality(Ids(d))]
         IN  w[n][q] = IF n \in q.visited THEN q
                       ELSE WalkEach(w, Successors(d, n, alert), Passed(d, n, allowed, q))
<1> DEFINE K == Cardinality(Ids(d))  I == Ids(d)
           p == Passed(d, n, allowed, q)  ns == Successors(d, n, alert)  D == Beyond(d, p.visited)
<1>1. K \in Nat /\ K # 0
  BY DocumentIsFinite, FS_EmptySet
<1>2. K \in 1 .. K /\ K - 1 \in 0 .. K - 1 /\ K - 1 \in 0 .. K /\ (K - 1) + 1 = K
  BY <1>1
<1> HIDE DEF K
<1>3. W[K] = Deeper(W[K - 1], d, alert, allowed)
  BY <1>2 DEF IsWalk, K
<1>4. CASE n \in q.visited
  BY <1>3, <1>4 DEF Deeper, K
<1>5. CASE n \notin q.visited
  <2>1. p \in Plans(d) /\ p.visited = q.visited \cup {n}
    BY PassedIn
  <2>2. ns \in Seq(I)
    BY SuccessorsIn
  <2> HIDE DEF p, ns
  <2>3. p \in D /\ Keeps(W[K - 1], I, D)
    <3>1. p \in D
      BY <2>1 DEF Beyond
    <3>2. Keeps(W[K - 1], I, D)
      BY <1>2, WalkVisits DEF K
    <3> QED
      BY <3>1, <3>2
  <2>4. Left(d, p) <= K - 1
    <3>1. {} \subseteq q.visited /\ q \in Beyond(d, {}) /\ Cardinality(I \ {}) = K
      BY DEF Beyond, K
    <3>2. Left(d, q) <= K /\ Left(d, q) \in Nat
      BY <3>1, LeftLess DEF Left
    <3>3. q \in Beyond(d, q.visited)
      BY DEF Beyond
    <3>4. Left(d, p) = Left(d, q) - 1
      BY <1>5, <2>1, <3>3, LeftLess DEF Left
    <3> QED
      BY <1>1, <3>2, <3>4
  <2>5. ASSUME NEW m \in I, NEW r \in D PROVE W[K][m][r] = W[K - 1][m][r]
    <3>1. r \in Plans(d)
      BY DEF Beyond
    <3>2. Left(d, r) <= Left(d, p) /\ Left(d, r) \in Nat /\ Left(d, p) \in Nat
      BY LeftLess DEF Left
    <3>3. Left(d, r) <= K - 1
      BY <1>1, <2>4, <3>2
    <3>4. W[(K - 1) + 1][m][r] = W[K - 1][m][r]
      BY <1>2, <3>1, <3>3, DepthIsEnough DEF K
    <3> QED
      BY <1>2, <3>4
  <2>6. WalkEach(W[K], ns, p) = WalkEach(W[K - 1], ns, p)
    <3> HIDE DEF D, I
    <3> QED
      BY <2>2, <2>3, <2>5, EachSame
  <2> QED
    BY <1>3, <1>5, <2>6 DEF Deeper, p, ns, K
<1> QED
  BY <1>4, <1>5 DEF K

-----------------------------------------------------------------------------
(* What is left of a walk, from what it has visited and run, gives the list *)
(* of the dry run.  A is what it would have run had no manifest been        *)
(* missing; R the manifests there are.                                      *)
DryWalk(j) == WalkPlan(j.doc, j.alert, j.context.allowed)[Cardinality(Ids(j.doc))]
SoFar(j, A) == [visited |-> j.visited, actions |-> A]

Simulated(j, R, A) ==
  /\ A \in Seq(PathsOf(j.doc))
  /\ j.ran = Those(A, R)
  /\ WalkEach(DryWalk(j), j.todo, SoFar(j, A)).actions = PlanExecution(j.doc, j.alert, j.context.allowed)

Drawn(j, R) ==
  /\ Walking(j) /\ IsDocument(j.doc)
  /\ j.todo \in Seq(Ids(j.doc)) /\ j.visited \subseteq Ids(j.doc)
  /\ \E A : Simulated(j, R, A)
  /\ j.step = "walked" => j.todo = <<>>

PlanInv ==
  /\ IsSequence(registries) /\ engine = Len(registries)
  /\ IsDocument(stored) /\ IsDocument(save)
  /\ job.step \in {"walk", "walked"} =>
       job.reg \in DOMAIN registries /\ Drawn(job, DOMAIN registries[job.reg])

(* Documents: the empty one, the templates, the catalog.                    *)
LEMMA DocumentIs ==
  ASSUME NEW d, IsFiniteSet(DOMAIN d.nodes), IsSequence(d.edges)
  PROVE  IsDocument(d)
  BY DEF IsDocument, IsSequence

LEMMA NoDocIsDocument == IsDocument(NoDoc)
<1>1. NoDoc.nodes = << >> /\ NoDoc.edges = << >>
  BY DEF NoDoc
<1>2. DOMAIN NoDoc.nodes = {}
  BY <1>1
<1>3. IsFiniteSet(DOMAIN NoDoc.nodes)
  BY <1>2, FS_EmptySet
<1>4. NoDoc.edges \in Seq({})
  BY <1>1
<1>5. IsSequence(NoDoc.edges)
  BY <1>4, SequenceOf
<1> QED
  BY <1>3, <1>5, DocumentIs

LEMMA TemplateIsDocument ==
  ASSUME NEW op, NEW facts, NEW first, NEW then
  PROVE  IsDocument(Template(op, facts, first, then))
<1> DEFINE d == Template(op, facts, first, then)
           rest == IF then = Blank THEN {} ELSE {"then"}
           all == {Edge("start", "cond", ""), Edge("cond", "first", "true"), Edge("first", "then", "")}
           two == <<Edge("start", "cond", ""), Edge("cond", "first", "true")>>
           more == IF then = Blank THEN <<>> ELSE <<Edge("first", "then", "")>>
<1>1. DOMAIN d.nodes = {"start", "cond", "first"} \cup rest /\ d.edges = two \o more
  BY DEF Template
<1>2. IsFiniteSet({"start", "cond", "first"} \cup rest)
  <2>1. IsFiniteSet({"start"}) /\ IsFiniteSet({"cond"}) /\ IsFiniteSet({"first"}) /\ IsFiniteSet(rest)
    BY FS_Singleton, FS_EmptySet
  <2> HIDE DEF rest
  <2>2. IsFiniteSet({"start"} \cup {"cond"})
    BY <2>1, FS_Union
  <2>3. IsFiniteSet(({"start"} \cup {"cond"}) \cup {"first"})
    BY <2>1, <2>2, FS_Union
  <2>4. IsFiniteSet((({"start"} \cup {"cond"}) \cup {"first"}) \cup rest)
    BY <2>1, <2>3, FS_Union
  <2>5. {"start", "cond", "first"} \cup rest = (({"start"} \cup {"cond"}) \cup {"first"}) \cup rest
    OBVIOUS
  <2> QED
    BY <2>4, <2>5
<1>3. two \in Seq(all) /\ more \in Seq(all)
  <2>1. \A a, b, c \in all : <<a, b>> \in Seq(all) /\ <<c>> \in Seq(all) /\ <<>> \in Seq(all)
    <3> HIDE DEF all
    <3> QED
      OBVIOUS
  <2>2. /\ Edge("start", "cond", "") \in all /\ Edge("cond", "first", "true") \in all
        /\ Edge("first", "then", "") \in all
    OBVIOUS
  <2> HIDE DEF all
  <2> QED
    BY <2>1, <2>2
<1>4. two \o more \in Seq(all)
  <2> HIDE DEF two, more, all
  <2> QED
    BY <1>3
<1> HIDE DEF d, all, two, more, rest
<1>5. IsFiniteSet(DOMAIN d.nodes) /\ IsSequence(d.edges)
  BY <1>1, <1>2, <1>4, SequenceOf
<1> QED
  BY <1>5, DocumentIs DEF d

LEMMA CatalogIsDocuments == \A d \in RunbookCatalog : IsDocument(d)
  BY TemplateIsDocument DEF RunbookCatalog

-----------------------------------------------------------------------------
(* The walk would run node n, if its manifest were there.                   *)
Acts(j, n) ==
  n \in DOMAIN j.doc.nodes /\ j.doc.nodes[n].type = "action" /\ j.doc.nodes[n].path \in j.context.allowed

(* What the visit of a node does to the job.                                *)
Skips(j, j2) == j2.visited = j.visited /\ j2.ran = j.ran /\ j2.todo = Tail(j.todo)
Visits(j, j2, n, R) ==
  /\ j2.visited = j.visited \cup {n}
  /\ j2.todo = Successors(j.doc, n, j.alert) \o Tail(j.todo)
  /\ j2.ran = IF Acts(j, n) /\ j.doc.nodes[n].path \in R THEN Append(j.ran, j.doc.nodes[n].path) ELSE j.ran
SameAlert(j, j2) == j2.doc = j.doc /\ j2.alert = j.alert /\ j2.context = j.context

(* WalkUnfolds, for the dry run of a job.                                   *)
LEMMA DryWalkIs ==
  ASSUME NEW j, IsDocument(j.doc)
  PROVE  /\ Keeps(DryWalk(j), Ids(j.doc), Plans(j.doc))
         /\ \A n \in Ids(j.doc), q \in Plans(j.doc) :
              DryWalk(j)[n][q] =
                IF n \in q.visited THEN q
                ELSE WalkEach(DryWalk(j), Successors(j.doc, n, j.alert), Passed(j.doc, n, j.context.allowed, q))
<1> DEFINE d == j.doc  W == WalkPlan(d, j.alert, j.context.allowed)  K == Cardinality(Ids(d))
<1>1. IsWalk(W, d, j.alert, j.context.allowed)
  BY WalkIs
<1>2. K \in 0 .. K
  BY DocumentIsFinite
<1>3. Keeps(W[K], Ids(d), Plans(d))
  BY <1>1, <1>2 DEF IsWalk
<1>4. DryWalk(j) = W[K]
  BY DEF DryWalk
<1>5. ASSUME NEW n \in Ids(d), NEW q \in Plans(d)
      PROVE  W[K][n][q] = IF n \in q.visited THEN q
                          ELSE WalkEach(W[K], Successors(d, n, j.alert), Passed(d, n, j.context.allowed, q))
  <2> HIDE DEF W
  <2> QED
    BY <1>1, WalkUnfolds
<1> HIDE DEF W, K
<1> QED
  BY <1>3, <1>4, <1>5

(* The parts of a sequence that is not empty.                               *)
LEMMA HeadAndTail ==
  ASSUME NEW I, NEW s \in Seq(I), s # <<>>
  PROVE  Head(s) \in I /\ Tail(s) \in Seq(I)
  OBVIOUS

(* A visit moves a node from what is left to what was run.                  *)
LEMMA SimulatedVisit ==
  ASSUME NEW j, NEW R, NEW A, Simulated(j, R, A), IsDocument(j.doc),
         j.todo \in Seq(Ids(j.doc)), j.todo # <<>>, j.visited \subseteq Ids(j.doc),
         NEW j2, SameAlert(j, j2),
         \/ Head(j.todo) \in j.visited /\ Skips(j, j2)
         \/ Head(j.todo) \notin j.visited /\ Visits(j, j2, Head(j.todo), R)
  PROVE  (\E B : Simulated(j2, R, B)) /\ j2.todo \in Seq(Ids(j.doc)) /\ j2.visited \subseteq Ids(j.doc)
<1> DEFINE d == j.doc  I == Ids(d)  D == Plans(d)  w == DryWalk(j)  n == Head(j.todo)  rest == Tail(j.todo)
           q == SoFar(j, A)  ns == Successors(d, n, j.alert)  p == Passed(d, n, j.context.allowed, q)
           plan == PlanExecution(d, j.alert, j.context.allowed)
<1>1. n \in I /\ rest \in Seq(I)
  BY HeadAndTail
<1>2. Keeps(w, I, D) /\ w[n][q] = IF n \in q.visited THEN q ELSE WalkEach(w, ns, p)
  <2>1. q \in D
    BY DEF SoFar, Plans, Simulated
  <2> QED
    BY <1>1, <2>1, DryWalkIs
<1>3. q \in D /\ q.visited = j.visited /\ q.actions = A
  BY DEF SoFar, Plans, Simulated
<1>4. WalkEach(w, j.todo, q).actions = plan
  BY DEF Simulated
<1>5. WalkEach(w, j.todo, q) = WalkEach(w, rest, w[n][q])
  <2> HIDE DEF I, D, w, q
  <2> QED
    BY <1>2, <1>3, EachNext DEF I
<1>6. DryWalk(j2) = w /\ plan = PlanExecution(j2.doc, j2.alert, j2.context.allowed) /\ PathsOf(j2.doc) = PathsOf(d)
  BY DEF SameAlert, DryWalk
<1>7. CASE n \in j.visited /\ Skips(j, j2)
  <2>1. SoFar(j2, A) = q
    BY <1>7 DEF SoFar, Skips
  <2>2. Simulated(j2, R, A)
    BY <1>2, <1>3, <1>4, <1>5, <1>6, <1>7, <2>1 DEF Simulated, Skips
  <2> QED
    BY <1>1, <1>7, <2>2 DEF Skips
<1>8. CASE n \notin j.visited /\ Visits(j, j2, n, R)
  <2>1. p \in D /\ p.visited = j.visited \cup {n}
    BY <1>1, <1>3, PassedIn
  <2>2. ns \in Seq(I)
    BY SuccessorsIn
  <2>3. ns \o rest \in Seq(I)
    <3> HIDE DEF ns, rest, I
    <3> QED
      BY <1>1, <2>2
  <2>4. WalkEach(w, ns \o rest, p) = WalkEach(w, rest, WalkEach(w, ns, p))
    <3> HIDE DEF ns, rest, I, D, p, w
    <3> QED
      BY <1>1, <1>2, <2>1, <2>2, EachConcat
  <2>5. WalkEach(w, ns \o rest, p).actions = plan
    BY <1>2, <1>3, <1>4, <1>5, <1>8, <2>4
  <2>6. p = SoFar(j2, p.actions)
    BY <1>8, <2>1 DEF Passed, SoFar, Visits
  <2>7. p.actions \in Seq(PathsOf(d))
    BY <2>1 DEF Plans
  <2>8. j2.ran = Those(p.actions, R)
    <3> DEFINE path == d.nodes[n].path
    <3>1. p.actions = IF Acts(j, n) THEN Append(A, path) ELSE A
      BY <1>3 DEF Passed, Acts
    <3>2. A \in Seq(PathsOf(d)) /\ j.ran = Those(A, R)
      BY DEF Simulated
    <3>3. CASE Acts(j, n)
      <4>1. path \in PathsOf(d)
        BY <3>3 DEF Acts, PathsOf
      <4>2. j2.ran = IF path \in R THEN Append(j.ran, path) ELSE j.ran
        BY <1>8, <3>3 DEF Visits
      <4> HIDE DEF path
      <4>3. Those(Append(A, path), R) = IF path \in R THEN Append(Those(A, R), path) ELSE Those(A, R)
        BY <3>2, <4>1, ThoseAppend
      <4> QED
        BY <3>1, <3>2, <3>3, <4>2, <4>3
    <3>4. CASE ~Acts(j, n)
      BY <1>8, <3>1, <3>2, <3>4 DEF Visits
    <3> QED
      BY <3>3, <3>4
  <2>9. j2.todo = ns \o rest /\ j2.visited = j.visited \cup {n}
    BY <1>8 DEF Visits
  <2> HIDE DEF p, ns, rest, w, plan, n
  <2>10. Simulated(j2, R, p.actions)
    BY <1>6, <2>5, <2>6, <2>7, <2>8, <2>9 DEF Simulated
  <2> QED
    BY <1>1, <2>3, <2>9, <2>10
<1> QED
  BY <1>7, <1>8

-----------------------------------------------------------------------------
(* Before the first visit all of the dry run is left.                       *)
LEMMA WalkBegins ==
  ASSUME NEW d, IsDocument(d), NEW j, Walking(j), j.step = "walk", j.doc = d, NEW R,
         j.ran = <<>>, j.todo = <<d.entry>>, j.visited = {}
  PROVE  Drawn(j, R)
<1> DEFINE start == SoFar(j, <<>>)
<1>1. d.entry \in Ids(d) /\ << >> \in Seq(PathsOf(d)) /\ {} \subseteq Ids(d)
  BY DEF Ids
<1>2. <<d.entry>> \in Seq(Ids(d))
  <2> DEFINE e == d.entry
  <2>1. e \in Ids(d)
    BY <1>1
  <2> HIDE DEF e
  <2>2. <<e>> \in Seq(Ids(d))
    BY <2>1
  <2> QED
    BY <2>2 DEF e
<1>3. start = [visited |-> {}, actions |-> <<>>]
  BY DEF SoFar
<1>4. PlanExecution(d, j.alert, j.context.allowed) = DryWalk(j)[d.entry][start].actions
  BY <1>3 DEF PlanExecution, DryWalk
<1>5. WalkEach(DryWalk(j), <<d.entry>>, start) = DryWalk(j)[d.entry][start]
  BY EachOne
<1>6. Those(<<>>, R) = <<>>
  BY ThoseNone
<1>7. Simulated(j, R, <<>>)
  BY <1>1, <1>4, <1>5, <1>6 DEF Simulated
<1> QED
  BY <1>1, <1>2, <1>7 DEF Drawn

(* After the last visit nothing is left.                                    *)
LEMMA WalkEnds ==
  ASSUME NEW j, NEW R, Drawn(j, R), j.todo = <<>>
  PROVE  j.ran = Those(PlanExecution(j.doc, j.alert, j.context.allowed), R)
<1>1. PICK A : Simulated(j, R, A)
  BY DEF Drawn
<1>2. WalkEach(DryWalk(j), <<>>, SoFar(j, A)) = SoFar(j, A)
  BY EachNone
<1>3. SoFar(j, A).actions = A
  BY DEF SoFar
<1> QED
  BY <1>1, <1>2, <1>3 DEF Simulated

(* What a visit assigns, field by field.                                    *)
LEMMA VisitFields ==
  ASSUME Walking(job), VisitNode, Right(job)
  PROVE  /\ Walking(job') /\ job'.step = "walk" /\ job'.reg = job.reg /\ SameAlert(job, job')
         /\ \/ Head(job.todo) \in job.visited /\ Skips(job, job')
            \/ /\ Head(job.todo) \notin job.visited
               /\ Visits(job, job', Head(job.todo), DOMAIN registries[job.reg])
<1> DEFINE n == Head(job.todo)  R == DOMAIN registries[job.reg]  path == job.doc.nodes[n].path
           runs == n \in DOMAIN job.doc.nodes /\ Runs(n)
           j0 == IF runs THEN RunManifest(path) ELSE job
           td == Successors(job.doc, n, job.alert) \o Tail(j0.todo)
           vs == j0.visited \cup {n}
<1>1. job.step = "walk"
  BY DEF VisitNode
<1>2. runs <=> Acts(job, n) /\ path \in R
  BY DEF Runs, Acts
<1>3. ASSUME NEW p
      PROVE  /\ Walking(RunManifest(p)) /\ RunManifest(p).ran = Append(job.ran, p)
             /\ RunManifest(p).todo = job.todo /\ RunManifest(p).visited = job.visited
             /\ RunManifest(p).step = job.step /\ RunManifest(p).reg = job.reg
             /\ SameAlert(job, RunManifest(p))
  <2>1. Walking(RunManifest(p))
    BY RunRouted
  <2> DEFINE ran == Append(job.ran, p)
             sent == job.sent \cup {<<p, Destination(p, registries[job.reg][p], job.context.to)>>}
  <2>2. RunManifest(p) = [job EXCEPT !.ran = ran, !.sent = sent]
    BY DEF RunManifest
  <2> HIDE DEF sent, ran
  <2>3. /\ RunManifest(p).ran = ran
        /\ RunManifest(p).todo = job.todo /\ RunManifest(p).visited = job.visited
        /\ RunManifest(p).step = job.step /\ RunManifest(p).reg = job.reg
        /\ SameAlert(job, RunManifest(p))
    BY <2>2 DEF Walking, SameAlert
  <2> QED
    BY <2>1, <2>3 DEF ran
<1>4. /\ Walking(j0) /\ j0.todo = job.todo /\ j0.visited = job.visited /\ j0.step = job.step
      /\ j0.reg = job.reg /\ SameAlert(job, j0)
      /\ j0.ran = IF runs THEN Append(job.ran, path) ELSE job.ran
  <2> HIDE DEF runs, path
  <2>1. SameAlert(job, job)
    BY DEF SameAlert
  <2> QED
    BY <1>3, <2>1
<1>5. CASE n \in job.visited
  <2>1. job' = [job EXCEPT !.todo = Tail(job.todo)]
    BY <1>5 DEF VisitNode
  <2>2. Walking(job')
    BY <2>1, GoingOn
  <2>3. job'.step = job.step /\ job'.reg = job.reg /\ SameAlert(job, job') /\ Skips(job, job')
    BY <2>1 DEF Walking, SameAlert, Skips
  <2> QED
    BY <1>1, <1>5, <2>2, <2>3
<1>6. CASE n \notin job.visited
  <2>1. job' = [j0 EXCEPT !.visited = vs, !.todo = td]
    BY <1>6 DEF VisitNode
  <2> HIDE DEF j0, td, vs, runs, path, n, R
  <2>2. Right(j0)
    BY RunRouted DEF j0
  <2>3. Walking(job')
    BY <1>4, <2>1, <2>2, GoingOn
  <2>4. /\ job'.todo = td /\ job'.visited = vs /\ job'.ran = j0.ran /\ job'.step = job.step /\ job'.reg = job.reg
        /\ SameAlert(j0, job')
    BY <1>4, <2>1 DEF Walking, SameAlert
  <2>5. SameAlert(job, job')
    BY <1>4, <2>4 DEF SameAlert
  <2>6. td = Successors(job.doc, n, job.alert) \o Tail(job.todo) /\ vs = job.visited \cup {n}
    BY <1>4 DEF td, vs
  <2>7. Visits(job, job', n, R)
    BY <1>2, <1>4, <2>4, <2>6 DEF Visits, path
  <2> QED
    BY <1>1, <1>6, <2>3, <2>4, <2>5, <2>7 DEF n, R
<1> QED
  BY <1>5, <1>6

-----------------------------------------------------------------------------
(* What a step leaves of a plan.                                            *)
DocumentsInv == IsDocument(stored) /\ IsDocument(save)
JobPlanned ==
  job.step \in {"walk", "walked"} =>
    job.reg \in DOMAIN registries /\ Drawn(job, DOMAIN registries[job.reg])

(* The rules' jobs stay what they are.                                      *)
LEMMA RulesGoOn ==
  ASSUME JobInv, EvaluateAlertRules \/ RunMatch
  PROVE  job'.step = "fan"
<1>1. CASE EvaluateAlertRules
  <2>1. Ruled(job)
    BY <1>1, InJob DEF EvaluateAlertRules
  <2>2. \E td : job' = [job EXCEPT !.step = "fan", !.todo = td]
    BY <1>1 DEF EvaluateAlertRules
  <2> QED
    BY <2>1, <2>2 DEF Ruled
<1>2. CASE RunMatch
  <2>1. Ruled(job) /\ Right(job) /\ job.step = "fan"
    BY <1>2, InJob DEF RunMatch
  <2>2. PICK p, td : job' = [RunManifest(p) EXCEPT !.todo = td]
    BY <1>2 DEF RunMatch
  <2>3. Ruled(RunManifest(p)) /\ RunManifest(p).step = "fan"
    BY <2>1, RunRouted
  <2> QED
    BY <2>2, <2>3 DEF Ruled
<1> QED
  BY <1>1, <1>2

(* Whatever step is taken, the walk still gives the list of the dry run.    *)
LEMMA PlanKept ==
  ASSUME JobInv, PlanInv, [Next]_vars
  PROVE  PlanInv'
<1>1. ObjectsInv /\ DocumentsInv /\ JobPlanned
  BY DEF PlanInv, ObjectsInv, DocumentsInv, JobPlanned
<1>2. ObjectsInv' /\ DocumentsInv' /\ JobPlanned' => PlanInv'
  BY DEF PlanInv, ObjectsInv, DocumentsInv, JobPlanned
<1>3. ASSUME UNCHANGED pluginVars PROVE ObjectsInv' /\ registries' = registries
  BY <1>1, <1>3 DEF pluginVars, ObjectsInv
<1>4. ASSUME UNCHANGED <<stored, save>> PROVE DocumentsInv'
  BY <1>1, <1>4 DEF DocumentsInv
<1>5. ASSUME UNCHANGED job, ObjectsStay PROVE JobPlanned'
  BY <1>1, <1>5 DEF JobPlanned, ObjectsStay, ObjectStays
<1>6. registries' = registries => ObjectsStay
  BY DEF ObjectsStay, ObjectStays
<1>7. ASSUME job'.step \notin {"walk", "walked"} PROVE JobPlanned'
  BY <1>7 DEF JobPlanned
<1>8. CASE RegistryStep /\ UNCHANGED workflowVars
  BY <1>1, <1>2, <1>4, <1>5, <1>8, ObjectsKept DEF workflowVars
<1>9. CASE UNCHANGED vars
  BY <1>2, <1>3, <1>4, <1>5, <1>6, <1>9 DEF vars, workflowVars, registryVars
<1>10. ASSUME NEW r, SaveProject(r) PROVE PlanInv'
  BY <1>2, <1>3, <1>4, <1>5, <1>6, <1>10 DEF SaveProject
<1>11. ASSUME NEW d, PutWorkflow(d), IsDocument(d) PROVE PlanInv'
  BY <1>1, <1>2, <1>3, <1>5, <1>6, <1>11 DEF PutWorkflow, DocumentsInv
<1>12. CASE SaveProjectWorkflow \/ ClearProjectWorkflow
  BY <1>1, <1>2, <1>3, <1>5, <1>6, <1>12, NoDocIsDocument
  DEF SaveProjectWorkflow, ClearProjectWorkflow, DocumentsInv, registryVars
<1>13. ASSUME NEW a, ReadColumns(a) \/ ReadContext PROVE PlanInv'
  BY <1>2, <1>3, <1>4, <1>7, <1>13 DEF ReadColumns, ReadContext, registryVars
<1>14. CASE RunPostIngestRemediation
  <2>1. engine \in DOMAIN registries
    BY <1>1, <1>14, ObjectsAre DEF RunPostIngestRemediation
  <2>k. PICK key : LET context == [to |-> Keyed(job.context.to, key), allowed |-> job.context.allowed]
       IN  job' = IF IsWorkflowActive(stored)
                  THEN [step |-> "walk", alert |-> job.alert, asked |-> job.asked, context |-> context, reg |-> engine,
                        ran |-> <<>>, sent |-> {}, todo |-> <<stored.entry>>, doc |-> stored, visited |-> {}]
                  ELSE [step |-> "rules", alert |-> job.alert, asked |-> job.asked, context |-> context, reg |-> engine,
                        ran |-> <<>>, sent |-> {}, todo |-> {}]
    BY <1>14 DEF RunPostIngestRemediation
  <2> DEFINE context == [to |-> Keyed(job.context.to, key), allowed |-> job.context.allowed]
             w == [step |-> "walk", alert |-> job.alert, asked |-> job.asked, context |-> context, reg |-> engine,
                   ran |-> <<>>, sent |-> {}, todo |-> <<stored.entry>>, doc |-> stored, visited |-> {}]
             r == [step |-> "rules", alert |-> job.alert, asked |-> job.asked, context |-> context, reg |-> engine,
                   ran |-> <<>>, sent |-> {}, todo |-> {}]
  <2>2. Walking(w) /\ w.step = "walk" /\ w.doc = stored /\ w.ran = <<>> /\ w.todo = <<stored.entry>> /\ w.visited = {}
        /\ w.reg = engine /\ r.step = "rules"
    BY DEF Walking
  <2>3. job' = w \/ job' = r
    BY <2>k
  <2> HIDE DEF w, r
  <2>4. Drawn(w, DOMAIN registries[engine])
    BY <1>1, <2>2, WalkBegins DEF DocumentsInv
  <2>5. JobPlanned'
    BY <1>3, <1>14, <2>1, <2>2, <2>3, <2>4 DEF JobPlanned, RunPostIngestRemediation, registryVars
  <2> QED
    BY <1>2, <1>3, <1>4, <1>14, <2>5 DEF RunPostIngestRemediation, registryVars
<1>15. CASE VisitNode
  <2> DEFINE R == DOMAIN registries[job.reg]
  <2>1. Drawn(job, R) /\ job.reg \in DOMAIN registries /\ job.step = "walk" /\ job.todo # <<>>
    BY <1>1, <1>15 DEF VisitNode, JobPlanned
  <2>2. Walking(job) /\ Right(job)
    BY <2>1, InJob
  <2>3. /\ Walking(job') /\ job'.step = "walk" /\ job'.reg = job.reg /\ SameAlert(job, job')
        /\ \/ Head(job.todo) \in job.visited /\ Skips(job, job')
           \/ Head(job.todo) \notin job.visited /\ Visits(job, job', Head(job.todo), R)
    BY <1>15, <2>2, VisitFields
  <2>4. PICK A : Simulated(job, R, A)
    BY <2>1 DEF Drawn
  <2> HIDE DEF R
  <2>5. (\E B : Simulated(job', R, B)) /\ job'.todo \in Seq(Ids(job.doc)) /\ job'.visited \subseteq Ids(job.doc)
    BY <2>1, <2>3, <2>4, SimulatedVisit DEF Drawn
  <2>6. Drawn(job', R)
    BY <2>1, <2>3, <2>5 DEF Drawn, SameAlert
  <2>7. JobPlanned'
    BY <1>3, <1>15, <2>1, <2>3, <2>6 DEF JobPlanned, VisitNode, R, registryVars
  <2> QED
    BY <1>2, <1>3, <1>4, <1>15, <2>7 DEF VisitNode, registryVars
<1>16. CASE EndWalk
  <2> DEFINE R == DOMAIN registries[job.reg]
  <2>1. Drawn(job, R) /\ job.reg \in DOMAIN registries /\ job.todo = <<>> /\ Walking(job)
    BY <1>1, <1>16 DEF EndWalk, JobPlanned, Drawn
  <2>2. job' = [job EXCEPT !.step = "walked"]
    BY <1>16 DEF EndWalk
  <2>3. /\ job'.todo = <<>> /\ job'.reg = job.reg /\ job'.doc = job.doc /\ job'.visited = job.visited
        /\ job'.ran = job.ran /\ SameAlert(job, job') /\ Walking(job')
    BY <2>1, <2>2 DEF Walking, SameAlert
  <2>4. PICK A : Simulated(job, R, A)
    BY <2>1 DEF Drawn
  <2> HIDE DEF R
  <2>5. Simulated(job', R, A)
    BY <2>1, <2>3, <2>4 DEF Simulated, SameAlert, DryWalk, SoFar
  <2>6. Drawn(job', R)
    BY <2>1, <2>3, <2>5 DEF Drawn
  <2>7. JobPlanned'
    BY <1>3, <1>16, <2>1, <2>3, <2>6 DEF JobPlanned, EndWalk, R, registryVars
  <2> QED
    BY <1>2, <1>3, <1>4, <1>16, <2>7 DEF EndWalk, registryVars
<1>17. CASE EvaluateAlertRules
  BY <1>2, <1>3, <1>4, <1>7, <1>17, RulesGoOn DEF EvaluateAlertRules, registryVars
<1>18. CASE RunMatch
  BY <1>2, <1>3, <1>4, <1>7, <1>18, RulesGoOn DEF RunMatch, registryVars
<1>19. CASE EndJob
  BY <1>2, <1>3, <1>4, <1>7, <1>19 DEF EndJob, NoJob, registryVars
<1>20. CASE Restart
  <2>1. registries' = <<>> /\ engine' = 0 /\ job' = NoJob /\ save' = NoDoc /\ stored' = stored
    BY <1>20 DEF Restart, RestartRegistry
  <2>2. Len(registries') = 0 /\ IsSequence(registries')
    BY <2>1, NothingIsSequence
  <2>3. ObjectsInv'
    BY <2>1, <2>2 DEF ObjectsInv
  <2> QED
    BY <1>1, <1>2, <1>7, <2>1, <2>3, NoDocIsDocument DEF DocumentsInv, NoJob
<1> QED
  BY <1>8, <1>9, <1>10, <1>11, <1>12, <1>13, <1>14, <1>15, <1>16, <1>17, <1>18, <1>19, <1>20,
     CanvasAssumption, CatalogIsDocuments DEF Next, ApplyRunbook

LEMMA PlannedAtFirst ==
  ASSUME Init
  PROVE  JobInv /\ PlanInv
<1>1. job = NoJob /\ stored = NoDoc /\ save = NoDoc /\ registries = <<>> /\ engine = 0
  BY DEF Init, InitRegistry
<1>2. Len(registries) = 0 /\ IsSequence(registries)
  BY <1>1, NothingIsSequence
<1>3. IsSequence(registries) /\ engine = Len(registries)
  BY <1>1, <1>2
<1> QED
  BY <1>1, <1>3, NoDocIsDocument, SavedIsSynced DEF Init, JobInv, Followed, PlanInv, NoJob

(* The actions a workflow has run when it ends are those that the dry run,  *)
(* a recursion of its own, lists for its alert: in their order, as often,   *)
(* without the ones whose manifest is missing; for any documents, plugins   *)
(* and alerts, and whatever administrators change during the walk.          *)
THEOREM DryRunIsRun == Spec => []PlanIsRun
<1>1. Init => JobInv /\ PlanInv
  BY PlannedAtFirst
<1>2. JobInv /\ PlanInv /\ [Next]_vars => (JobInv /\ PlanInv)'
  BY JobKept, PlanKept
<1>3. JobInv /\ PlanInv => PlanIsRun
  <2> SUFFICES ASSUME PlanInv, job.step = "walked"
               PROVE  job.ran = Those(PlanExecution(job.doc, job.alert, job.context.allowed), DOMAIN registries[job.reg])
    BY DEF PlanIsRun
  <2>1. Drawn(job, DOMAIN registries[job.reg]) /\ job.todo = <<>>
    BY DEF PlanInv, Drawn
  <2> QED
    BY <2>1, WalkEnds
<1> QED
  BY <1>1, <1>2, <1>3, PTL DEF Spec

-----------------------------------------------------------------------------
(* A graph without a loop: from no node that the walk may come to do the    *)
(* edges lead back to it, on any way.                                       *)
NoLoop(d) ==
  \A n \in {d.entry} \cup Reachable(d, d.entry) :
    \E S : Targets(d, {n}) \subseteq S /\ Closed(d, S) /\ n \notin S

WellDrawn(d) ==
  /\ d.entry \in DOMAIN d.nodes /\ d.nodes[d.entry].type = "trigger" /\ NoLoop(d)
  /\ \A i \in DOMAIN d.edges : {d.edges[i].from, d.edges[i].to} \subseteq DOMAIN d.nodes

RunsWellDrawn == job.step \in {"walk", "walked"} => WellDrawn(job.doc)
CheckedInv == (stored.enabled => WellDrawn(stored)) /\ (save.enabled => WellDrawn(save)) /\ RunsWellDrawn

(* What validateWorkflow accepts is well drawn.                             *)
LEMMA AcceptedIsWellDrawn ==
  ASSUME NEW d, IsDocument(d), NEW known, NEW allowed, ValidateWorkflow(d, known, allowed)
  PROVE  WellDrawn(d)
<1>1. ASSUME NEW n \in {d.entry} \cup Reachable(d, d.entry)
      PROVE  \E S : Targets(d, {n}) \subseteq S /\ Closed(d, S) /\ n \notin S
  <2>1. n \notin Reachable(d, n)
    BY DEF ValidateWorkflow, HasCycle
  <2> QED
    BY <2>1, ReachableIsLeast
<1> QED
  BY <1>1 DEF ValidateWorkflow, WellDrawn, NoLoop

LEMMA CheckedKept ==
  ASSUME JobInv, PlanInv, CheckedInv, [Next]_vars
  PROVE  CheckedInv'
<1>1. ASSUME UNCHANGED <<stored, save>>, RunsWellDrawn' PROVE CheckedInv'
  BY <1>1 DEF CheckedInv
<1>2. ASSUME UNCHANGED job PROVE RunsWellDrawn'
  BY <1>2 DEF CheckedInv, RunsWellDrawn
<1>3. ASSUME job'.step \notin {"walk", "walked"} PROVE RunsWellDrawn'
  BY <1>3 DEF RunsWellDrawn
<1>4. ASSUME job.step \in {"walk", "walked"}, job'.doc = job.doc PROVE RunsWellDrawn'
  BY <1>4 DEF CheckedInv, RunsWellDrawn
<1>5. ~NoDoc.enabled
  BY DEF NoDoc
<1>6. ASSUME UNCHANGED vars \/ UNCHANGED workflowVars PROVE CheckedInv'
  BY <1>1, <1>2, <1>6 DEF vars, workflowVars
<1>7. ASSUME NEW r, SaveProject(r) PROVE CheckedInv'
  BY <1>1, <1>2, <1>7 DEF SaveProject
<1>8. ASSUME NEW d, PutWorkflow(d), IsDocument(d) PROVE CheckedInv'
  <2>1. d.enabled => WellDrawn(d)
    BY <1>8, AcceptedIsWellDrawn DEF PutWorkflow
  <2> QED
    BY <1>2, <1>8, <2>1 DEF PutWorkflow, CheckedInv
<1>9. CASE SaveProjectWorkflow \/ ClearProjectWorkflow
  BY <1>2, <1>5, <1>9 DEF SaveProjectWorkflow, ClearProjectWorkflow, CheckedInv
<1>10. ASSUME NEW a, ReadColumns(a) \/ ReadContext PROVE CheckedInv'
  BY <1>1, <1>3, <1>10 DEF ReadColumns, ReadContext
<1>11. CASE RunPostIngestRemediation
  <2>1. CASE IsWorkflowActive(stored)
    <3>1. job'.doc = stored
      BY <1>11, <2>1 DEF RunPostIngestRemediation
    <3>2. RunsWellDrawn'
      BY <2>1, <3>1 DEF CheckedInv, RunsWellDrawn, IsWorkflowActive
    <3> QED
      BY <1>1, <1>11, <3>2 DEF RunPostIngestRemediation
  <2>2. CASE ~IsWorkflowActive(stored)
    <3>1. job'.step = "rules"
      BY <1>11, <2>2 DEF RunPostIngestRemediation
    <3> QED
      BY <1>1, <1>3, <1>11, <3>1 DEF RunPostIngestRemediation
  <2> QED
    BY <2>1, <2>2
<1>12. CASE VisitNode
  <2>1. job.step = "walk" /\ Walking(job) /\ Right(job)
    BY <1>12, InJob DEF VisitNode
  <2>2. job'.doc = job.doc
    BY <1>12, <2>1, VisitFields DEF SameAlert
  <2> QED
    BY <1>1, <1>4, <1>12, <2>1, <2>2 DEF VisitNode
<1>13. CASE EndWalk
  <2>1. job.step = "walk" /\ Walking(job)
    BY <1>13, InJob DEF EndWalk
  <2>2. job' = [job EXCEPT !.step = "walked"]
    BY <1>13 DEF EndWalk
  <2>3. job'.doc = job.doc
    BY <2>1, <2>2 DEF Walking
  <2> QED
    BY <1>1, <1>4, <1>13, <2>1, <2>3 DEF EndWalk
<1>14. CASE EvaluateAlertRules
  BY <1>1, <1>3, <1>14, RulesGoOn DEF EvaluateAlertRules
<1>15. CASE RunMatch
  BY <1>1, <1>3, <1>15, RulesGoOn DEF RunMatch
<1>16. CASE EndJob
  BY <1>1, <1>3, <1>16 DEF EndJob, NoJob
<1>17. CASE Restart
  BY <1>3, <1>5, <1>17 DEF Restart, CheckedInv, NoJob
<1> QED
  BY <1>6, <1>7, <1>8, <1>9, <1>10, <1>11, <1>12, <1>13, <1>14, <1>15, <1>16, <1>17,
     CanvasAssumption, CatalogIsDocuments DEF Next, ApplyRunbook

(* A workflow that runs was accepted by validateWorkflow when it was saved: *)
(* it starts at a trigger, no edge of it dangles and it has no loop on any  *)
(* way from its entry, although a draft, which may have all of these, is    *)
(* stored in the same place.                                                *)
THEOREM OnlyCheckedRuns == Spec => []RunsWellDrawn
<1>1. Init => JobInv /\ PlanInv /\ CheckedInv
  BY PlannedAtFirst DEF Init, CheckedInv, RunsWellDrawn, NoJob, NoDoc
<1>2. JobInv /\ PlanInv /\ CheckedInv /\ [Next]_vars => (JobInv /\ PlanInv /\ CheckedInv)'
  BY JobKept, PlanKept, CheckedKept
<1>3. CheckedInv => RunsWellDrawn
  BY DEF CheckedInv
<1> QED
  BY <1>1, <1>2, <1>3, PTL DEF Spec
=============================================================================
