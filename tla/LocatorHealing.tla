-------------------------- MODULE LocatorHealing --------------------------
(***************************************************************************)
(* How self-healing chooses the locator that replaces a broken one, and    *)
(* how it rewrites the test.  The code is sequential; what is hard is that *)
(* an answer may come from three places (a scan of the page, a language    *)
(* model, rules of thumb) and the page from three (a snapshot in the logs, *)
(* a URL in the logs, a URL in the test).                                  *)
(*                                                                         *)
(* A value of an attribute is the set of its words; "contains" is then set *)
(* inclusion.  A locator is a form, the tag it begins with and a value.    *)
(***************************************************************************)
EXTENDS Naturals, Sequences, FiniteSetsExt, SequencesExt

CONSTANTS
  InputWord, LinkWord,   \* the words "input" and "link"
  Submit,                \* the type "submit"
  NoPage,
  NoPath,                \* no file in the stack trace
  FormFields,            \* values of id= that name a field of a form
  MaxScanned             \* how many files a search for a test reads

NoTag == "none"
NoLocator == [form |-> "none", tag |-> NoTag, val |-> {}]
ModelOff == [form |-> "off", tag |-> NoTag, val |-> {}]     \* the model is switched
ModelFails == [form |-> "fails", tag |-> NoTag, val |-> {}] \* off, or does not answer
Attributes == {"testid", "qa", "name", "aria"}

Loc(form, val) == [form |-> form, tag |-> NoTag, val |-> val]

-----------------------------------------------------------------------------
(* The page: a sequence of elements, of which "div" is not interactive.    *)

\* One element per key, in the order void tags, buttons, anchors.
InteractiveElements(page) ==
  LET Key(e) == <<e.tag, e.id, e.testid, e.qa, e.name>>
      First(n) == \A k \in 1 .. n - 1 : Key(page[k]) # Key(page[n])
      Of(tags) == SelectSeq([n \in DOMAIN page |-> IF First(n) THEN page[n] ELSE [tag |-> "div"]],
                            LAMBDA e : e.tag \in tags)
  IN Of({"input"}) \o Of({"button"}) \o Of({"a"})

\* The text search for #v looks for id="v", which data-testid="v" contains.
LocatorExistsInHTML(page, loc) ==
  /\ page # NoPage
  /\ \/ loc.form = "#" /\ \E n \in DOMAIN page : loc.val \in {page[n].id, page[n].testid}
     \/ loc.form \in Attributes /\ \E n \in DOMAIN page : page[n][loc.form] = loc.val
     \/ loc.form = "tag" /\ \E n \in DOMAIN page : page[n].tag = loc.tag

\* The whole value, and the words of an attribute's value.
SelectorKeywords(loc) ==
  ({loc.val} \union (IF loc.form \in Attributes THEN {{w} : w \in loc.val} ELSE {})) \ {{}}

ElementToSelector(e) ==
  CASE e.id # {} -> Loc("#", e.id)
    [] e.id = {} /\ e.testid # {} -> Loc("testid", e.testid)
    [] e.id = {} /\ e.testid = {} /\ e.qa # {} -> Loc("qa", e.qa)
    [] e.id = {} /\ e.testid = {} /\ e.qa = {} /\ e.name # {} -> Loc("name", e.name)
    [] OTHER -> [form |-> "tag", tag |-> e.tag, val |-> {}]

ScoreElement(e, loc) ==
  LET Hits(kw) == \E v \in {e.id, e.testid, e.qa, e.name, e.text} : kw \subseteq v
  IN (IF loc.tag = e.tag THEN 3 ELSE 0)
     + 2 * Cardinality({kw \in SelectorKeywords(loc) : Hits(kw)})
     + (IF e.id # {} THEN 1 ELSE 0) + (IF e.type = Submit THEN 2 ELSE 0)

Answer(loc, by, conf) == [loc |-> loc, by |-> by, conf |-> conf]
NoAnswer == Answer(NoLocator, "none", 0)

\* The first element with the best score, if that is 4 or more.
HealLocatorFromHTML(orig, page) ==
  LET els == InteractiveElements(page)
      score == [n \in DOMAIN els |-> ScoreElement(els[n], orig)]
      best == CHOOSE n \in DOMAIN els : /\ \A k \in DOMAIN els : score[k] <= score[n]
                                        /\ \A k \in 1 .. n - 1 : score[k] < score[n]
      healed == ElementToSelector(els[best])
  IN IF orig = NoLocator \/ page = NoPage THEN NoAnswer
     ELSE IF LocatorExistsInHTML(page, orig) THEN Answer(orig, "present", 95)
     ELSE IF els = << >> \/ score[best] < 4 \/ healed = orig \/ ~ LocatorExistsInHTML(page, healed)
          THEN NoAnswer
     ELSE Answer(healed, "scan", IF els[best].id # {} THEN 92 ELSE IF score[best] >= 6 THEN 88 ELSE 75)

\* The rules of thumb; they do not look at the page.
SuggestHealedLocator(orig) ==
  CASE orig.form = "none" -> Answer(NoLocator, "rules", 0)
    [] orig.form = "#" -> Answer(Loc("testid", orig.val), "rules", 60)
    [] orig.form = "testid" ->
         Answer([form |-> "role", val |-> {},
                 tag |-> IF InputWord \in orig.val \/ orig.tag = "input" THEN "textbox"
                         ELSE IF LinkWord \in orig.val THEN "link" ELSE "button"], "rules", 45)
    [] orig.form = "class" -> Answer(Loc("class*", orig.val), "rules", 50)
    [] OTHER -> Answer(orig, "rules", 30)

\* The same attribute with the same value, in another syntax.
IsEquivalentBrokenLocator(orig, healed) ==
  /\ orig # NoLocator /\ healed # NoLocator
  /\ \/ orig = healed
     \/ /\ orig.form \in {"testid", "qa", "xpath"} /\ healed.form \in {"testid", "qa", "xpath"}
        /\ orig.val \subseteq healed.val

-----------------------------------------------------------------------------
(* The test: a Robot file, a sequence of variables and keywords.  A keyword's *)
(* target is a locator, or a variable (form "var", its name as the tag).      *)

NoTest == << >>
LooksLikeBrokenSelector(loc) ==
  loc.form \in {"#", "class", "class*", "xpath"} \union Attributes

\* The last assignment of a variable counts; a name without one stays a name.
Resolved(src, target) ==
  LET set == {n \in DOMAIN src : src[n].type = "var" /\ src[n].name = target.tag}
  IN IF target.form = "var" /\ set # {} THEN src[Max(set)].loc ELSE target

\* The last target that looks broken, in a keyword the extraction knows.
ExtractRobotLocator(src) ==
  LET broken == {n \in DOMAIN src : /\ src[n].type \in {"Click", "Fill Text"}
                                    /\ LooksLikeBrokenSelector(Resolved(src, src[n].loc))}
  IN IF broken = {} THEN NoLocator ELSE Resolved(src, src[Max(broken)].loc)

\* The locator in the message, else the one in the test, which is read as a
\* Robot file unless the framework is known to be none ("any": not known yet).
ResolveOriginalLocator(msg, src, framework) ==
  IF msg.loc # NoLocator THEN msg.loc
  ELSE IF framework \in {"robot", "any"} THEN ExtractRobotLocator(src) ELSE NoLocator

IsLocatorError(msg) == msg.word = "selector" \/ msg.loc.form \in {"#", "testid", "qa"}

IsLocatorFailure(msg, src) ==
  \/ IsLocatorError(msg)
  \/ ResolveOriginalLocator(msg, src, "any") # NoLocator /\ msg.word = "timeout"
  \/ \E n \in DOMAIN src : src[n].type = "var" /\ LooksLikeBrokenSelector(src[n].loc)

\* Mutant of Fixes: the variables of the test are not resolved.
FixesLiterally(src, n, orig) == src[n].type = "Click" /\ src[n].loc = orig

\* The keywords the rewriting knows are fewer: "Fill Text" is not one of them.
Fixes(src, n, orig) ==
  /\ src[n].type = "Click"
  /\ \/ orig # NoLocator /\ orig \in {src[n].loc, Resolved(src, src[n].loc)}
     \/ src[n].loc.form = "var" /\ src[n].loc.tag = "BROKEN"

ApplyLocatorFixToSource(src, orig, healed) ==
  IF healed = NoLocator THEN src
  ELSE [n \in DOMAIN src |-> IF Fixes(src, n, orig) THEN [src[n] EXCEPT !.loc = healed] ELSE src[n]]

\* The lines the user interface highlights: changed ones, or else all that hold
\* the new locator.
BuildFixHighlights(src, fixed, healed) ==
  LET lines == {n \in DOMAIN fixed : fixed[n].type = "Click" /\ fixed[n].loc = healed}
      changed == {n \in lines : n \notin DOMAIN src \/ src[n] # fixed[n]}
  IN IF healed = NoLocator \/ fixed = NoTest THEN {} ELSE IF changed # {} THEN changed ELSE lines

\* The before and after of the lines shown as a change.
BuildLocatorChangeLines(src, fixed, orig, healed) ==
  IF orig = NoLocator \/ healed = NoLocator \/ orig = healed THEN {}
  ELSE LET Uses(n) == src[n].loc = orig
           swapped == {<<src[n], [src[n] EXCEPT !.loc = healed]>> : n \in {k \in DOMAIN src : Uses(k)}}
           keywords == {<<src[n], fixed[n]>> : n \in {k \in DOMAIN src \cap DOMAIN fixed :
                                                   src[k] # fixed[k] /\ {src[k].type, fixed[k].type} = {"Click"}}}
           back == {<<[fixed[n] EXCEPT !.loc = orig], fixed[n]>> :
                      n \in {k \in DOMAIN fixed : fixed[k].loc = healed}}
           all == swapped \union keywords \union back
       IN IF all = {} THEN {<<orig, healed>>} ELSE all

-----------------------------------------------------------------------------
(* The incident, in: its message (as the error log has it), its name, a set of *)
(* words; the file in its stack trace; the pages in its logs and behind its    *)
(* URLs; the repository, a sequence of files in the order of a walk through    *)
(* its roots; the test a user has pasted, given; and what the model says of a  *)
(* locator (ModelOff, ModelFails or a locator, NoLocator for an answer without *)
(* JSON) and of a script (NoFix, or code with the locators it speaks of).      *)

\* A message that could not be read.
Unread == [word |-> "none", loc |-> NoLocator]

\* "[Robot]" before the test's name, or a .robot file in the stack trace.
DetectFramework(in) == IF in.tagged \/ in.trace # NoPath THEN "robot" ELSE "unknown"

\* The first file at that path, in the order of the places that are tried.
ReadTestFileAtPaths(path, repo) ==
  LET at == {n \in DOMAIN repo : repo[n].path = path}
  IN IF at = {} THEN NoTest ELSE repo[Min(at)].test

\* The whole name, and its words.
TestNameSearchTokens(name) == ({name} \union {{w} : w \in name}) \ {{}}

SearchScore(file, name) ==
  MapThenSumSet(Cardinality, {t \in TestNameSearchTokens(name) : t \subseteq file.words})

\* The first root with any hit decides, and in it the first best file; files
\* after the first MaxScanned are not read.
FindTestSourceInRepo(repo, name) ==
  LET hits == {n \in DOMAIN repo : n <= MaxScanned /\ SearchScore(repo[n], name) > 0}
      root == Min({repo[n].root : n \in hits})
      inRoot == {n \in hits : repo[n].root = root}
      score == Max({SearchScore(repo[n], name) : n \in inRoot})
  IN IF hits = {} THEN NoTest
     ELSE repo[Min({n \in inRoot : SearchScore(repo[n], name) = score})].test

\* The file of the stack trace, else one that has the test's name.
AutoReadTestFile(in) ==
  LET read == ReadTestFileAtPaths(in.trace, in.repo)
  IN IF read # NoTest THEN read ELSE FindTestSourceInRepo(in.repo, in.name)

\* The snapshot of the console, then that of the error log.
ExtractDOMSnapshotFromLogs(in) == IF in.console # NoPage THEN in.console ELSE in.errors

\* Snapshot, then the page behind a URL in the logs, then behind one in the test.
PageOf(in) ==
  IF ExtractDOMSnapshotFromLogs(in) # NoPage THEN ExtractDOMSnapshotFromLogs(in)
  ELSE IF in.logURL # NoPage THEN in.logURL
  ELSE IF AutoReadTestFile(in) # NoTest THEN in.srcURL ELSE NoPage

Or(first, second) == IF first = NoAnswer THEN second ELSE first

\* Mutant of AcceptedAnswer: only the page is asked, not the broken locator.
AnswerOnPage(llm, orig, page) == page = NoPage \/ LocatorExistsInHTML(page, llm)

\* The model's answer counts when it is new and the page, if any, has it.
AcceptedAnswer(llm, orig, page) ==
  /\ llm # NoLocator /\ ~ IsEquivalentBrokenLocator(orig, llm)
  /\ page = NoPage \/ LocatorExistsInHTML(page, llm)

\* The scan first, then the model, then the rules; a locator the caller did not
\* find is looked for again.
AILocatorHeal(found, framework, in) ==
  LET orig == IF found # NoLocator THEN found
              ELSE ResolveOriginalLocator(in.msg, AutoReadTestFile(in), framework)
      page == PageOf(in)
      scan == HealLocatorFromHTML(orig, page)
  IN IF scan # NoAnswer THEN scan
     ELSE IF orig = NoLocator /\ page = NoPage THEN SuggestHealedLocator(orig)
     ELSE IF in.llm \in {ModelOff, ModelFails} THEN SuggestHealedLocator(orig)
     ELSE IF AcceptedAnswer(in.llm, orig, page) THEN Answer(in.llm, "llm", 80)
     ELSE SuggestHealedLocator(orig)

\* Mutant of MCPAIHealLocatorDirect: an answer that is refused ends the search.
MCPAIHealLocatorOnce(orig, in) ==
  LET page == ExtractDOMSnapshotFromLogs(in)
  IN IF in.llm = ModelFails THEN Or(HealLocatorFromHTML(orig, page), SuggestHealedLocator(orig))
     ELSE IF page = NoPage \/ LocatorExistsInHTML(page, in.llm) THEN Answer(in.llm, "llm", 80)
     ELSE SuggestHealedLocator(orig)

\* record_healing_intervention without a new locator: the model first, on the
\* page it was handed or the snapshot, and no test for an equivalent answer.
MCPAIHealLocatorDirect(orig, in) ==
  LET page == ExtractDOMSnapshotFromLogs(in)
      scan == HealLocatorFromHTML(orig, page)
      good == /\ in.llm \notin {NoLocator, orig}
              /\ page = NoPage \/ LocatorExistsInHTML(page, in.llm)
  IN IF in.llm = ModelOff THEN SuggestHealedLocator(orig)
     ELSE IF in.llm # ModelFails /\ good THEN Answer(in.llm, "llm", 80)
     ELSE Or(scan, SuggestHealedLocator(orig))

\* What record_healing_intervention stores: its argument, or else an answer.
RecordedLocator(orig, given, in) ==
  IF given # NoLocator THEN given
  ELSE LET direct == MCPAIHealLocatorDirect(orig, in)
       IN IF direct.loc # NoLocator THEN direct.loc ELSE SuggestHealedLocator(orig).loc

NoFix == [code |-> NoTest, orig |-> NoLocator, healed |-> NoLocator]

\* ProposeFix: guidance by the category of the message, "none" being unknown.
ProposeFix(in) == Answer(NoLocator, "rules", IF in.msg.word = "none" THEN 40 ELSE 75)

\* heal_incident for a script: the model's code, else the rules.
MCPHealScriptFailure(in) ==
  IF in.fix # NoFix THEN Answer(NoLocator, "llm", 80) ELSE ProposeFix(in)

\* heal_incident: the locator's path, or the script's.
MCPHealIncident(in) ==
  LET src == AutoReadTestFile(in)
      orig == ResolveOriginalLocator(in.msg, src, DetectFramework(in))
  IN IF IsLocatorFailure(in.msg, src) THEN AILocatorHeal(orig, DetectFramework(in), in)
     ELSE MCPHealScriptFailure(in)

\* What the texts of the model are searched for: no classes, no attributes.
LooksLikeLocatorToken(loc) == loc.form \in {"#", "id=", "xpath", "var"}
Said(loc) == IF LooksLikeLocatorToken(loc) THEN loc ELSE NoLocator

\* The locators the model's code clicks most often, those with "#" before others;
\* of several the map's order decides.  None if the broken one is there still.
InferHealedLocatorFromCode(code, orig) ==
  LET clicks(loc) == Cardinality({n \in DOMAIN code : code[n].type = "Click" /\ code[n].loc = loc})
      score(loc) == 10 * clicks(loc) + (IF loc.form = "#" THEN 5 ELSE 0)
      found == {code[n].loc : n \in DOMAIN code} 
      tokens == {loc \in found : /\ clicks(loc) > 0 /\ LooksLikeLocatorToken(loc) /\ loc.form # "var"
                                 /\ ~ (loc.form = "id=" /\ loc.val \in FormFields)}
      best == {loc \in tokens : \A other \in tokens : score(other) <= score(loc)}
  IN IF orig \in found \/ best = {} THEN {NoLocator} ELSE best

Proposal(orig, answer, src, code) ==
  [orig |-> orig, answer |-> answer, src |-> src, code |-> code,
   shown |-> BuildLocatorChangeLines(src, code, orig, answer.loc),
   lines |-> BuildFixHighlights(src, code, answer.loc)]

\* The route "propose" for a script: where the model's code or text tells which
\* locator it replaced, its code is dropped for the test with that one change.
ProposeScript(in, src) ==
  LET read == ResolveOriginalLocator(Unread, src, "any")
      orig == IF read # NoLocator THEN read ELSE Said(in.fix.orig)
      healed == IF Said(in.fix.healed) # NoLocator THEN {Said(in.fix.healed)}
                ELSE IF in.fix.code = NoTest \/ orig = NoLocator THEN {NoLocator}
                ELSE InferHealedLocatorFromCode(in.fix.code, orig)
      code(h) == IF NoTest # src /\ NoLocator \notin {orig, h}
                 THEN ApplyLocatorFixToSource(src, orig, h) ELSE in.fix.code
  IN IF in.fix = NoFix THEN {Proposal(NoLocator, ProposeFix(in), src, src)}
     ELSE {Proposal(orig, Answer(h, "llm", 80), src, code(h)) : h \in healed}

\* The route "propose" for a locator.  The branches for AIService == nil
\* (healing_handlers.go:138, :257) are left out: InitSuperApp sets it at every
\* start, and a model that is switched off is ModelOff.
ProposeLocator(in, src) ==
  LET orig == ResolveOriginalLocator(Unread, src, "any")
      answer == AILocatorHeal(orig, "any", in)
  IN Proposal(orig, answer, src, ApplyLocatorFixToSource(src, orig, answer.loc))

\* The route "propose".  Its SELECT names a column that incidents does not have
\* and its error is ignored, so that only the test is looked at, the pasted one
\* before the repository's; aiLocatorHeal reads the logs itself.
HandlePropose(in) ==
  LET src == IF in.given # NoTest THEN in.given ELSE AutoReadTestFile(in)
  IN IF IsLocatorFailure(Unread, src) THEN {ProposeLocator(in, src)} ELSE ProposeScript(in, src)

-----------------------------------------------------------------------------
(* The cases: an incident arrives and is healed.                           *)
CONSTANT Cases   \* a sequence of sets
VARIABLE case

\* A test is a sequence of lines: what the line is, what it names, its locator.
IsTest(t) ==
  /\ Len(t) \in Nat /\ DOMAIN t = 1 .. Len(t)
  /\ \A n \in DOMAIN t : {"type", "name", "loc"} \subseteq DOMAIN t[n]

\* What is given or read as a test is one.
ASSUME CasesAssumption ==
  \A k \in DOMAIN Cases : \A in \in Cases[k] : IsTest(in.given) /\ IsTest(AutoReadTestFile(in))

NoCase == [msg |-> Unread, name |-> {}, tagged |-> FALSE, trace |-> NoPath, repo |-> << >>,
           given |-> NoTest, console |-> NoPage, errors |-> NoPage, logURL |-> NoPage,
           srcURL |-> NoPage, llm |-> ModelOff, fix |-> NoFix]
CaseInit == case = NoCase
Arrive == case = NoCase /\ \E k \in DOMAIN Cases : case' \in Cases[k]
CaseSpec == CaseInit /\ [][Arrive]_case

Original == ResolveOriginalLocator(case.msg, AutoReadTestFile(case), DetectFramework(case))

\* A broken locator is never sold as its own replacement: the same locator, or
\* the same test id in another syntax, is the answer only when the page has such
\* an element, or with the confidence of a guess (aiLocatorHeal: the scan, the
\* model and the rules each have a test of their own).
RepeatsOnlyIfPresent ==
  LET a == AILocatorHeal(Original, DetectFramework(case), case)
      page == PageOf(case)
      syntaxes == {"testid", "qa", "xpath"}
      present == \/ LocatorExistsInHTML(page, Original)
                 \/ \E f \in {"testid", "qa"} : LocatorExistsInHTML(page, Loc(f, Original.val))
  IN /\ Original # NoLocator
     /\ a.loc = Original \/ (a.loc.val = Original.val /\ {a.loc.form, Original.form} \subseteq syntaxes)
     => a.conf <= 30 \/ present

\* A proposal for a test that could be read removes the failure it was made for:
\* the locator that was found broken is not found again in the proposed test,
\* provided that the answer is another locator and the keyword one that is
\* rewritten; the highlighted lines are those the proposal changed, and it did
\* change one if the locator was read in the test.  That is so for a locator
\* (ExtractLocatorFromTestSource against applyLocatorFixToSource, each with its
\* own view of the variables) and for a script, whose locators are guessed from
\* the model's code and prose.
ProposalRemovesFailure ==
  \A p \in HandlePropose(case) :
    LET rewritable == \A n \in DOMAIN p.src :
                        p.src[n].type = "Fill Text" => Resolved(p.src, p.src[n].loc) # p.orig
        changed == {n \in DOMAIN p.code : n \notin DOMAIN p.src \/ p.code[n] # p.src[n]}
    IN /\ p.src # NoTest /\ p.orig # NoLocator /\ rewritable
       /\ p.answer.loc \notin {NoLocator, p.orig} /\ p.answer.loc.form # "var"
       => /\ ExtractRobotLocator(p.code) # p.orig
          /\ changed # {} => p.lines = changed
          /\ ExtractRobotLocator(p.src) = p.orig => changed # {}

\* Two tools, one answer: where the model contributes nothing (it fails, says
\* nothing or names what the page does not have) and both see the same page,
\* heal_incident proposes what record_healing_intervention then stores for the
\* locator it was given (mcpHealIncident against mcpAIHealLocatorDirect, two
\* copies of one chain of fallbacks).
ToolsAgree ==
  LET page == PageOf(case)
      silent == \/ case.llm \in {ModelFails, NoLocator}
                \/ page # NoPage /\ ~ LocatorExistsInHTML(page, case.llm)
  IN /\ IsLocatorFailure(case.msg, AutoReadTestFile(case)) /\ Original # NoLocator
     /\ page = ExtractDOMSnapshotFromLogs(case) /\ case.llm # ModelOff /\ silent
     => MCPHealIncident(case).loc = RecordedLocator(Original, NoLocator, case)
=============================================================================
