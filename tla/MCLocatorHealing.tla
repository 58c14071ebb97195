------------------------- MODULE MCLocatorHealing -------------------------
\* Values of the constants for TLC: locators, pages, tests and answers.
EXTENDS LocatorHealing, TLC
CONSTANTS login, send, input, link, submit, plain, p1, p2

A == {login}
B == {send}
AB == {login, send}
MCFormFields == {A}
El(tag, id, testid, qa, type) ==
  [tag |-> tag, id |-> id, testid |-> testid, qa |-> qa, name |-> {}, aria |-> {},
   text |-> IF tag = "a" THEN AB ELSE {}, type |-> type]
MCPages ==
  {<<El("button", AB, {}, {}, submit)>>, <<El("div", A, {}, {}, plain), El("button", {}, AB, {}, submit)>>,
   <<El("input", {}, {}, AB, plain), El("a", B, {}, {}, plain)>>, <<El("a", {}, {}, {}, submit)>>,
   <<El("button", {}, A, {}, submit), El("button", B, {}, {}, submit)>>, <<>>}
MCLocators == {Loc("#", A), Loc("#", AB), Loc("testid", A), Loc("testid", AB), Loc("qa", AB), Loc("xpath", AB), Loc("class", A),
               [form |-> "qa", tag |-> "button", val |-> AB], [form |-> "role", tag |-> "button", val |-> {}]}
Variable(v) == [form |-> "var", tag |-> v, val |-> {}]
Set(v, loc) == [type |-> "var", name |-> v, loc |-> loc]
Do(kw, loc) == [type |-> kw, name |-> NoTag, loc |-> loc]
MCTests ==
  {NoTest}
  \union {<<Set("B1", l), Do("Click", Variable("B1"))>> : l \in MCLocators}
  \union {<<Set("B1", l), Set("B1", Loc("id=", A)), Do("Click", Variable("B1")), Do("Click", l)>> : l \in MCLocators}
  \union {<<Set("BROKEN", Loc("#", A)), Do("Click", Variable("BROKEN")), Do(kw, l)>> : kw \in {"Click", "Fill Text"}, l \in MCLocators}
MCMessages == {[word |-> w, loc |-> NoLocator] : w \in {"none", "timeout"}}
              \union {[word |-> "selector", loc |-> l] : l \in MCLocators \union {NoLocator}}
MCAnswers == {ModelOff, ModelFails, NoLocator} \union MCLocators
At(place, page) == [k \in {"console", "errors", "logURL", "srcURL"} |-> IF k = place THEN page ELSE NoPage]
Case(m, src, a, p) ==
  [NoCase EXCEPT !.msg = m, !.trace = p1, !.llm = a, !.name = AB,
                 !.repo = <<[root |-> 1, path |-> p1, words |-> {}, test |-> src]>>,
                 !.console = p.console, !.errors = p.errors, !.logURL = p.logURL, !.srcURL = p.srcURL]
PagesOfCases == {At("console", NoPage)} \union {At("console", g) : g \in MCPages} \union {At("srcURL", g) : g \in MCPages}
LocatorCases == {Case(m, t, a, p) : m \in MCMessages, t \in MCTests, a \in MCAnswers, p \in PagesOfCases}

\* Two files, of which the stack trace names one, the other or none.
File(root, path, words, t) == [root |-> root, path |-> path, words |-> words, test |-> t]
TwoFiles(t, u) ==
  {<<File(r, p2, B, u), File(s, p1, AB, t)>> : r \in {1, 2}, s \in {1, 2}} \union {<<File(1, p1, A, t), File(1, p2, AB, u)>>}
OneClick(l) == <<Do("Click", l)>>
MCFewTests == {NoTest, <<Set("B1", Loc("#", A)), Do("Click", Variable("B1"))>>, OneClick(Loc("testid", AB))}
SearchCases ==
  {[Case(m, NoTest, a, At("srcURL", g)) EXCEPT !.trace = tr, !.repo = r, !.tagged = tag, !.name = w] :
     m \in {[word |-> w, loc |-> NoLocator] : w \in {"none", "timeout", "selector"}}, a \in {ModelOff, ModelFails, Loc("#", AB)},
     g \in {NoPage, <<El("button", AB, {}, {}, submit)>>}, tr \in {p1, p2, NoPath}, tag \in BOOLEAN, w \in {{}, A, AB},
     r \in UNION {TwoFiles(t, u) : t \in MCFewTests, u \in MCFewTests}}

\* Scripts: tests without a variable that looks broken, and the model's code.
Codes == {OneClick(Loc("#", AB)), OneClick(Loc("id=", A)), <<Do("Click", Loc("#", A)), Do("Click", Loc("#", AB))>>,
          <<Do("Click", Loc("id=", B)), Do("Click", Loc("id=", B)), Do("Fill Text", Loc("#", AB))>>, NoTest,
          <<Do("Click", Loc("#", B)), Do("Click", Loc("#", AB))>>}
Fixes1 == {[code |-> c, orig |-> o, healed |-> h] : c \in Codes,
             o \in {NoLocator, Loc("#", A), Variable("B2")}, h \in {NoLocator, Loc("#", AB), Loc("testid", AB)}}
Scripts == {NoTest, OneClick(Loc("#", A)), <<Do("Click", Variable("B2"))>>,
            <<Set("B2", Loc("id=", A)), Do("Click", Variable("B2")), Do("Fill Text", Loc("#", A))>>,
            <<Do("Click", Loc("#", A)), Do("Click", Loc("class", B)), Do("Click", Loc("#", A))>>}
ScriptCases ==
  {[Case(Unread, t, ModelOff, At("console", NoPage)) EXCEPT !.fix = f, !.given = g, !.msg.word = w] :
     t \in Scripts, f \in Fixes1, g \in Scripts, w \in {"none", "timeout"}}
MCCases == <<LocatorCases, SearchCases, ScriptCases>>
=============================================================================
