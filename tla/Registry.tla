------------------------------ MODULE Registry ------------------------------
(* The plugin registry: pkg/integrations/registry.go, its reloading in     *)
(* pkg/core/remediation.go and the toggles of system_handlers.go.          *)
(*                                                                         *)
(* A manifest lives twice: in its file, and in the registry object that    *)
(* LoadRegistry built from the files.  An update changes the object under  *)
(* the object's lock and then rewrites the file (open and truncate, then   *)
(* write), still under that lock.  A reload builds a new object, file by   *)
(* file and without the old one's lock, and replaces the engine, whatever  *)
(* other reloads and updates are doing.                                    *)
EXTENDS Naturals, Sequences, FiniteSets

CONSTANTS Paths,       \* files of the plugin directory
          Values,      \* what a manifest's config may hold
          Shipped,     \* [Paths -> manifest]: the files as installed
          Admins,      \* update requests that may be in progress at once
          Views,       \* requests for the list of plugins, likewise
          AutoReload,  \* plugins.auto_reload
          MaxRequests, \* bound: what users ask for, reloads among it
          MaxFaults    \* bound: crashes, failing writes and failing reads

IsManifest(m) ==
  m = [status |-> m.status, autoRun |-> m.autoRun, routingEnabled |-> m.routingEnabled, config |-> m.config]

ASSUME ShippedAssumption == DOMAIN Shipped = Paths /\ \A p \in Paths : IsManifest(Shipped[p])
ASSUME BoundsAssumption == {MaxRequests, MaxFaults} \subseteq Nat /\ AutoReload \in BOOLEAN

Empty == [torn |-> FALSE]          \* truncated, not written
Torn == [torn |-> TRUE]            \* written in part, or over another's longer text
IsJSON(f) == f \notin {Empty, Torn}

VARIABLES files,       \* the directory
          registries,  \* the registry objects built since the start, oldest first
          engine,      \* the one remediationEngine has, 0 before the first
          reload,      \* the object each LoadRegistry in progress is building
          upd,         \* the update each request is in the middle of
          answer,      \* what the last update of a manifest was told
          requests, faults,   \* counted against the bounds
          crossed      \* auxiliary: the paths whose manifest the engine read
                       \* while an update of it was in progress

pluginVars == <<files, registries, engine, reload, upd, answer, crossed>>
registryVars == <<pluginVars, requests, faults>>

Idle == [step |-> "idle"]
Loading(v) == reload[v].step = "loading"
Load(todo, got, x) == [step |-> "loading", todo |-> todo, got |-> got, crossed |-> x]
Requested == requests < MaxRequests /\ requests' = requests + 1
Fails == faults < MaxFaults /\ faults' = faults + 1
Restrict1(f, p, v) == [x \in DOMAIN f \cup {p} |-> IF x = p THEN v ELSE f[x]]

InitRegistry ==
  /\ files = Shipped
  /\ registries = <<>>
  /\ engine = 0
  /\ reload = [v \in Views |-> Idle]
  /\ upd = [s \in Admins |-> Idle]
  /\ answer = [p \in Paths |-> "none"]
  /\ requests = 0 /\ faults = 0
  /\ crossed = {}

-----------------------------------------------------------------------------
(* LoadRegistry, once at the start and, with auto_reload, whenever a page  *)
(* lists the plugins; nothing keeps two of them apart.  A file that is not *)
(* JSON is skipped without a word.                                         *)
BeingUpdated == {upd[s].path : s \in {x \in Admins : upd[x] # Idle}}

BeginReload(v) ==
  /\ reload[v] = Idle
  /\ \/ engine = 0 /\ (\A w \in Views : reload[w] = Idle) /\ UNCHANGED requests
     \/ engine # 0 /\ AutoReload /\ Requested
  /\ reload' = [reload EXCEPT ![v] = Load(Paths, <<>>, BeingUpdated)]
  /\ UNCHANGED <<files, registries, engine, upd, answer, faults, crossed>>

ReadManifest(v) ==
  /\ Loading(v)
  /\ \E p \in reload[v].todo :
       reload' = [reload EXCEPT ![v] =
         Load(reload[v].todo \ {p},
              IF IsJSON(files[p]) THEN Restrict1(reload[v].got, p, files[p]) ELSE reload[v].got,
              reload[v].crossed)]
  /\ UNCHANGED <<files, registries, engine, upd, answer, requests, faults, crossed>>

(* Of a path that was crossed, a manifest must be read to know it again.   *)
FinishReload(v) ==
  /\ Loading(v) /\ reload[v].todo = {}
  /\ registries' = Append(registries, reload[v].got)
  /\ engine' = Len(registries')
  /\ reload' = [reload EXCEPT ![v] = Idle]
  /\ crossed' = reload[v].crossed \cup (crossed \ DOMAIN reload[v].got)
  /\ UNCHANGED <<files, upd, answer, requests, faults>>

-----------------------------------------------------------------------------
IsActiveForRouting(m) == m.status = "active" /\ (m.routingEnabled \/ m.autoRun)

(* UpdateRoutingEnabled, UpdateAutoRun, UpdateConfig.                      *)
RoutingSet(m, on) == [m EXCEPT !.routingEnabled = on]
AutoRunSet(m, on) == IF on THEN [m EXCEPT !.autoRun = TRUE, !.routingEnabled = TRUE, !.status = "active"]
                           ELSE [m EXCEPT !.autoRun = FALSE]
ConfigSet(m, v, on) == [m EXCEPT !.config = v, !.routingEnabled = @ \/ on]

Changed(m) == {RoutingSet(m, on) : on \in BOOLEAN} \cup {AutoRunSet(m, on) : on \in BOOLEAN}
                \cup {ConfigSet(m, v, on) : v \in Values, on \in BOOLEAN}

Writing(s) == upd[s].step \in {"open", "write"}
Locked(r) == \E s \in Admins : Writing(s) /\ upd[s].reg = r

(* RemediationRegistry() hands the handler the object of the moment.       *)
AskUpdate(s, p) ==
  /\ upd[s] = Idle /\ engine # 0 /\ Requested
  /\ upd' = [upd EXCEPT ![s] = [step |-> "lock", path |-> p, reg |-> engine]]
  /\ reload' = [v \in Views |-> IF Loading(v) THEN Load(reload[v].todo, reload[v].got, reload[v].crossed \cup {p})
                                              ELSE reload[v]]
  /\ UNCHANGED <<files, registries, engine, answer, faults, crossed>>

Told(s, a) ==
  /\ upd' = [upd EXCEPT ![s] = Idle]
  /\ answer' = [answer EXCEPT ![upd[s].path] = a]

UpdateWith(s) ==
  LET p == upd[s].path
      r == upd[s].reg
  IN  IF p \notin DOMAIN registries[r]
      THEN Told(s, "error") /\ UNCHANGED registries
      ELSE \E m \in Changed(registries[r][p]) :
             /\ registries' = [registries EXCEPT ![r] = Restrict1(@, p, m)]
             /\ upd' = [upd EXCEPT ![s] = [step |-> "open", path |-> p, reg |-> r, data |-> m]]
             /\ UNCHANGED answer

\* Mutant of Update: the object is changed without its lock.
UpdateUnlocked(s) ==
  /\ upd[s].step = "lock"
  /\ UpdateWith(s)
  /\ UNCHANGED <<files, engine, reload, requests, faults, crossed>>

Update(s) ==
  /\ upd[s].step = "lock" /\ ~Locked(upd[s].reg)
  /\ UpdateWith(s)
  /\ UNCHANGED <<files, engine, reload, requests, faults, crossed>>

(* writeManifestFile: what was marshalled, into the emptied file; into     *)
(* another's text, if an update through another object has written since.  *)
OpenManifest(s) ==
  /\ upd[s].step = "open"
  /\ files' = [files EXCEPT ![upd[s].path] = Empty]
  /\ upd' = [upd EXCEPT ![s].step = "write"]
  /\ UNCHANGED <<registries, engine, reload, answer, requests, faults, crossed>>

WriteManifest(s) ==
  /\ upd[s].step = "write"
  /\ \E text \in {upd[s].data} \cup (IF files[upd[s].path] = Empty THEN {} ELSE {Torn}) :
       files' = [files EXCEPT ![upd[s].path] = text]
  /\ Told(s, "ok")
  /\ UNCHANGED <<registries, engine, reload, requests, faults, crossed>>

(* The object keeps the change, the file its old content, part of the new  *)
(* one or none.                                                            *)
WriteFails(s) ==
  /\ Writing(s) /\ Fails
  /\ \/ UNCHANGED files
     \/ upd[s].step = "write" /\ files' = [files EXCEPT ![upd[s].path] = Torn]
  /\ Told(s, "error")
  /\ UNCHANGED <<registries, engine, reload, requests, crossed>>

RestartRegistry ==
  /\ Fails
  /\ registries' = <<>> /\ engine' = 0 /\ reload' = [v \in Views |-> Idle]
  /\ answer' = [p \in Paths |-> IF p \in BeingUpdated THEN "none" ELSE answer[p]]
  /\ upd' = [s \in Admins |-> Idle]
  /\ UNCHANGED <<files, requests, crossed>>

RegistryStep ==
  \/ \E v \in Views : BeginReload(v) \/ ReadManifest(v) \/ FinishReload(v)
  \/ \E s \in Admins :
       \/ \E p \in Paths : AskUpdate(s, p)
       \/ Update(s) \/ OpenManifest(s) \/ WriteManifest(s) \/ WriteFails(s)

-----------------------------------------------------------------------------
(* An update that was answered with success, and that no other is          *)
(* overtaking, is in effect and is what the next start will find: the      *)
(* engine and the file have one manifest, neither of two updates is lost.  *)
(* So it is with automatic reloading too, except where the engine read     *)
(* that very manifest in a reload that crossed an update of it, until a    *)
(* reload that crosses none has read it again.                             *)
AnsweredIsSaved ==
  engine # 0 =>
    \A p \in Paths \ crossed :
      answer[p] = "ok" /\ p \notin BeingUpdated
        => p \in DOMAIN registries[engine] /\ files[p] = registries[engine][p]
=============================================================================
