------------------------------- MODULE MCGates -------------------------------
(***************************************************************************)
(* The programs that judge a pull request, or act on what others judged,   *)
(* each in a world of its own: a behaviour moves one of them and leaves    *)
(* the others as they started.  Only safety is asked of them.              *)
(***************************************************************************)
EXTENDS Gates, TextGates, TLC

CONSTANT MaxChanges  \* Affected

VARIABLES
  part,  \* the one that moves
  ground, top, readable, chosen, full

selectVars == <<ground, top, readable, chosen, full>>

----------------------------------------------------------------------------
(* Their worlds *)

GrantKinds == {"doc", "code", "config", "workflow"}
GrantCategory == [docs |-> {"doc"}, build |-> {"config", "workflow"}]
GrantExclusion == [owners |-> [kinds |-> {"code"}, lines |-> FALSE],
                   security |-> [kinds |-> {"workflow"}, lines |-> TRUE]]
GrantPolicy == <<[titles |-> {"fix", "bump"}, categories |-> {"docs", "build"}, exclusions |-> {"security"}],
                 [titles |-> {"bump"}, categories |-> {"any"}, exclusions |-> {"owners"}]>>
GrantTitles == {"fix", "bump"}
GrantConditional == {"config"}
GrantChanges == UNION {[s -> {"plain", "odd"}] : s \in {{"doc"}, {"code"}, {"doc", "config"}, {"doc", "workflow"}}}
ASSUME GrantAssumption == Grant!load_policy

Says(none, lists, proofs) == [none |-> none, lists |-> lists, proofs |-> proofs]
WalkBodies == {Says(FALSE, <<>>, {}), Says(TRUE, <<>>, {1}), Says(FALSE, <<"x">>, {1}), Says(FALSE, <<"y">>, {})}
WalkTicket == <<"z">>
WalkCosts == [w \in {"x", "y", "z"} |-> 1]
WalkNames == [w \in {"x", "y", "z"} |-> {}]

Answer(method, url, status) == [method |-> method, url |-> url, status |-> status]
SiteAnswers == {Answer("GET", url, status) : url \in {"own", "other"}, status \in {"500", "ok"}} \cup {Answer("POST", "own", "422")}

Line(gate, args) == [gate |-> gate, args |-> args]
Tree(manifest) ==
  [manifest |-> manifest, rules |-> [old |-> "strict", new |-> "none"], block |-> [old |-> "strict", new |-> "none"],
   checks |-> "strict", own |-> ("lint" :> "strict" @@ "repo-rules" :> "none"), code |-> [a |-> <<1>>, b |-> <<>>],
   moved |-> [a |-> "a", b |-> "b"], planted |-> FALSE]
Manifests == {<<Line("repo-rules", {"doc"}), Line("qae-artifacts", {})>>,
              <<Line("repo-rules", {"soak"}), Line("repo-rules", {})>>,
              <<Line("lint", {}), Line("universal-checks", {"soak"})>>}
Trees == {Tree(m) : m \in Manifests}
AddedLines == {Line("universal-checks", {}), Line("lint", {"all"})}

Test(kind, head, before, reaches) ==
  [kind |-> kind, head |-> head, before |-> before, reaches |-> reaches, target |-> "local"]
Tests ==
  {Test("python", "passes", "bug", FALSE), Test("python", "passes", "refused", FALSE), Test("vitest", "passes", "passes", TRUE),
   Test("vitest", "passes", "missing", FALSE), Test("vitest package", "passes", "top", FALSE), Test("vitest", "fails", "bug", FALSE),
   Test("python", "load", "bug", FALSE), Test("jest package", "passes", "bug", FALSE), Test("spec", "passes", "bug", FALSE),
   Test("spec", "passes", "refused", FALSE), Test("spec", "passes", "load", TRUE), Test("spec", "load", "bug", FALSE),
   Test("vitest", "passes", "fails", FALSE), Test("spec", "passes", "unseen", FALSE),
   [Test("spec", "passes", "bug", FALSE) EXCEPT !.target = "away"]}
Variable(name, value) == [name |-> name, value |-> value, declared |-> FALSE]
FixInherits == {Variable("plain", "plain"), Variable("credential", "local jwt"), Variable("database host", "remote host")}

Hunk(first, removed, inserted) == [start |-> first, removed |-> removed, added |-> inserted]
Pull(fate, hunks, runner, added, reason, touched) ==
  [fate |-> fate, hunks |-> hunks, runner |-> runner, added |-> added, reason |-> reason, touched |-> touched, tool |-> "fits"]
Fates == {Pull("same", <<>>, "vitest", {}, FALSE, FALSE), Pull("same", <<>>, "python", {"q"}, TRUE, TRUE),
          Pull("test", <<>>, "node-test", {}, FALSE, TRUE), Pull("deleted", <<>>, "python", {}, FALSE, FALSE),
          [Pull("deleted", <<>>, "vitest", {}, FALSE, FALSE) EXCEPT !.tool = "other"],
          Pull("modified", <<Hunk(1, 0, 1)>>, "vitest", {"p", "q"}, FALSE, FALSE),
          Pull("modified", <<Hunk(0, 0, 2), Hunk(2, 1, 0)>>, "node-test", {}, FALSE, TRUE),
          Pull("moved", <<Hunk(1, 1, 2), Hunk(3, 0, 1)>>, "python", {}, FALSE, TRUE)}
Suite(fails, refused, none, report, outside) ==
  [fails |-> fails, refused |-> refused, none |-> none, report |-> report, outside |-> outside]
CoverDirs == <<"p", "q">>
CoverSuites ==
  {Suite(FALSE, FALSE, FALSE, TRUE, FALSE), Suite(TRUE, TRUE, FALSE, TRUE, FALSE), Suite(TRUE, FALSE, TRUE, FALSE, FALSE)}
CoverBases == {<<"ran", "ran", "ran">>, <<"ran", "missed", "missed">>}
CoverTips == {<<"ran", "ran", "ran">>, <<"missed", "absent", "missed">>, <<>>}

Body == <<"def", "one", "two">>
Mutant(line, fate) ==
  [line |-> line, fate |-> fate, first |-> 1, original |-> Body, copy |-> [Body EXCEPT ![line] = "broken"],
   decorated |-> fate = "disabled"]
File(name, lang, test, inside, spans, mutants) ==
  [name |-> name, lang |-> lang, test |-> test, inside |-> inside, spans |-> spans, mutants |-> mutants]
ToolRun(installed, fails, matched, refused, stats, suite) ==
  [installed |-> installed, fails |-> fails, matched |-> matched, refused |-> refused, stats |-> stats, suite |-> suite]
Sources(name, langs, sides, spans) ==
  {File(name, lang, side = "test", side # "away", changed, {Mutant(2, two), Mutant(3, three)}) :
     lang \in langs, side \in sides, changed \in spans,
     two \in {"killed", "survived"}, three \in {"not covered", "disabled", "unfinished"}}
ChangedFiles == {{}, {File(n, "script", FALSE, TRUE, {2}, {}) : n \in {"a", "b", "c"}}}
             \cup {{a, b} : a \in Sources("a", {"script", "python"}, {"src", "test", "away"}, {{2}, {2, 3}}),
                           b \in Sources("b", {"python"}, {"src"}, {{2, 3}})}
ToolRuns == {ToolRun(TRUE, FALSE, TRUE, FALSE, TRUE, "passes"), ToolRun(TRUE, FALSE, TRUE, TRUE, TRUE, "passes"),
             ToolRun(TRUE, TRUE, FALSE, FALSE, FALSE, "fails"), ToolRun(TRUE, FALSE, TRUE, FALSE, FALSE, "none")}

Ident(n) == <<"P", n>>
Section(reqs, cites, takes, ledger) == [reqs |-> reqs, cites |-> cites, takes |-> takes, rows |-> ledger]
Claim(id, kind, value) == [id |-> id, kind |-> kind, value |-> value]
Body_(links, claims, splits, marker, reason) ==
  [links |-> links, claims |-> claims, splits |-> splits, marker |-> marker, reason |-> reason]
Block(kind, level, aside) == [kind |-> kind, level |-> level, aside |-> aside]
Grade(status, quotes, owner) == [status |-> status, quotes |-> quotes, owner |-> owner]
Quote(title, line, words) == [title |-> title, line |-> line, text |-> words]
TestLine(kind, words) == [kind |-> kind, text |-> words]
AuditPlans ==
  {[a |-> Section(<<Ident(1), Ident(2)>>, {Ident(1), Ident(2)}, {}, <<Ident(1)>>), b |-> Section(<<>>, {}, {Ident(2)}, <<>>)],
   [a |-> Section(<<Ident(1)>>, {Ident(1)}, {}, <<>>), b |-> Section(<<Ident(1)>>, {Ident(1)}, {}, <<>>)]}
AuditStored ==
  [text |-> <<Block("heading", 1, TRUE), Block("item", 0, FALSE), Block("heading", 2, TRUE), Block("item", 0, FALSE)>>,
   amendments |-> <<>>]
AuditAmendments ==
  {<<Block("label", 0, FALSE), Block("item", 0, FALSE)>>, <<Block("label", 0, TRUE), Block("item", 0, FALSE)>>,
   <<Block("heading", 1, FALSE)>>}
AuditBodies ==
  {Body_({"a"}, {Claim(Ident(1), "proof", "src"), Claim(Ident(2), "deferred", "b")}, <<>>, FALSE, FALSE),
   Body_({"a"}, {Claim(Ident(1), "proof", "src"), Claim(Ident(2), "deferred", "b")},
         <<[id |-> <<"PL", 1>>, owner |-> "#2", formed |-> TRUE]>>, TRUE, FALSE),
   Body_({}, {}, <<[id |-> <<"PL", 1>>, owner |-> "#2", formed |-> TRUE]>>, TRUE, FALSE),
   Body_({}, {Claim(Ident(1), "proof", "gone")}, <<>>, FALSE, TRUE)}
AuditBlocks ==
  <<[title |-> "one", body |-> <<TestLine("open", "expect("), TestLine("value", "0,"), TestLine("assert", "same")>>],
    [title |-> "", body |-> <<TestLine("assert", "same"), TestLine("assert", "after")>>]>>
AuditOutputs ==
  {<<>>, <<Grade("PROVEN", {Quote("one", 9, "same")}, "")>>, <<Grade("PROVEN", {Quote("one", 3, "0,")}, "")>>,
   <<Grade("PROVEN", {Quote("one", 7, "after")}, "")>>, <<Grade("EXCLUDED", {}, "b")>>}

Path(dir, stem, ext, role) == [dir |-> dir, stem |-> stem, ext |-> ext, role |-> role]
Beside(dir, stem, ext) == [dir |-> dir, stem |-> stem, ext |-> ext]
Plain ==
  [imports |-> {}, names |-> {}, reads |-> FALSE, node_test |-> FALSE, playwright |-> FALSE, aliases |-> {}, base_url |-> {},
   extends |-> {}, name |-> "", exports |-> {}, deps |-> {}, version |-> 1]
Importing(specs) == [Plain EXCEPT !.imports = specs]
Named(name) == [kind |-> "name", name |-> name]
Relative(dir, stem, ext) == [kind |-> "relative", base |-> Beside(dir, stem, ext)]
Dotted(dots, module, names) == [kind |-> "python", dots |-> dots, module |-> module, names |-> names]
Alias(prefix, star, targets) == [prefix |-> prefix, star |-> star, targets |-> targets]
APP == <<"app">>
UnitTest == Path(APP, "a", "ts", "test")
BrowserTest == Path(<<>>, "e2e", "ts", "test")
NodeTest == Path(<<>>, "n", "js", "source")
UnitConfig == Path(APP, "vitest", "ts", "runner config")
SetupFile == Path(APP, "setup", "ts", "source")
Shared == Path(<<>>, "base", "json", "source")
TsConfig == Path(APP, "tsconfig", "json", "tsconfig")
ModJs == Path(APP, "m", "js", "source")
ModTs == Path(APP, "m", "ts", "source")
Aliased == Path(<<"app", "src">>, "x", "ts", "source")
Manifest == Path(<<"lib">>, "package", "json", "manifest")
LibMain == Path(<<"lib">>, "main", "ts", "source")
LibIndex == Path(<<"lib", "src">>, "index", "ts", "source")
ScriptTree ==
  (UnitTest :> Importing({Relative(APP, "m", "")}) @@ ModJs :> Importing({Named(<<"@", "x">>)})
   @@ Aliased :> Importing({Named(<<"lib">>)}) @@ LibMain :> Plain @@ LibIndex :> Plain
   @@ Manifest :> [Plain EXCEPT !.name = "lib", !.exports = {Alias(<<>>, FALSE, {<<"main">>})}]
   @@ TsConfig :> [Plain EXCEPT !.extends = {Shared}, !.base_url = {<<>>}]
   @@ Shared :> [Plain EXCEPT !.aliases = {Alias(<<"@">>, TRUE, {<<"app", "src">>})}]
   @@ UnitConfig :> [Plain EXCEPT !.names = {Beside(APP, "setup", "ts")}] @@ SetupFile :> Importing({Named(<<"lib">>)})
   @@ NodeTest :> [Importing({Relative(<<>>, "lib", "")}) EXCEPT !.node_test = TRUE, !.reads = TRUE]
   @@ BrowserTest :> [Importing({Relative(<<"app">>, "m", "js")}) EXCEPT !.playwright = TRUE]
   @@ Path(<<>>, "playwright", "ts", "playwright config") :> Plain)
Package == Path(<<"src", "pkg">>, "__init__", "py", "source")
Sub == Path(<<"src", "pkg", "sub">>, "__init__", "py", "source")
SubMod == Path(<<"src", "pkg", "sub">>, "mod", "py", "source")
PythonTree ==
  (Package :> Plain @@ Sub :> Plain @@ SubMod :> Importing({Dotted(2, <<>>, {"f"})})
   @@ Path(<<"tests">>, "test_x", "py", "test") :> Importing({Dotted(0, <<"pkg", "sub", "mod">>, {"f"})})
   @@ Path(<<"src", "pkg">>, "test_y", "py", "test") :> Importing({Dotted(1, <<"sub", "mod">>, {"g"})})
   @@ Path(<<"tests">>, "conftest", "py", "runner config") :> Importing({Dotted(0, <<"fix">>, {})})
   @@ Path(<<>>, "fix", "py", "source") :> Plain)
Put(path, words) == [path |-> path, text |-> words]
Select == INSTANCE Affected WITH
  base <- ground, head <- top, fetched <- readable, report <- full,
  Bases <- {<<>>, ScriptTree, PythonTree}, Roots <- <<<<"src">>, <<>>>>,
  Exclude <- {BrowserTest}, Always <- {}, AllOn <- {Path(<<>>, "run", "sh", "source")},
  Edits <- {Put(ModTs, Plain), Put(ModJs, <<>>), Put(Aliased, [Plain EXCEPT !.version = 2]), Put(LibMain, <<>>),
            Put(LibIndex, [Plain EXCEPT !.version = 2]), Put(Manifest, [ScriptTree[Manifest] EXCEPT !.deps = {"d"}]),
            Put(Manifest, [ScriptTree[Manifest] EXCEPT !.exports = {}]), Put(Shared, Plain), Put(SetupFile, Plain),
            Put(Path(<<>>, "playwright", "ts", "playwright config"), <<>>), Put(UnitConfig, Plain),
            Put(Path(<<>>, "lib", "ts", "source"), Plain), Put(Path(<<>>, "run", "sh", "source"), Plain),
            Put(Sub, [Plain EXCEPT !.version = 2]), Put(Package, [Plain EXCEPT !.version = 2]), Put(SubMod, <<>>),
            Put(Path(<<>>, "fix", "py", "source"), [Plain EXCEPT !.version = 2]),
            Put(Path(<<"src">>, "fix", "py", "source"), Plain)}

\* Pages of features: what their globs match, whether a browser can walk them, their steps and anchors.
Leaf(sources, none, steps, surfaces, tests) ==
  [sources |-> sources, none |-> none, steps |-> steps, surfaces |-> surfaces, tests |-> tests, sound |-> TRUE]
Leaves == [login |-> Leaf({"x"}, FALSE, {1}, {"login"}, {"t"}), narrow |-> Leaf({"y"}, FALSE, {1}, {"login"}, {}),
           redone |-> Leaf({"x"}, FALSE, {2}, {"login"}, {}), wide |-> Leaf({"x", "y"}, FALSE, {1}, {}, {}),
           quiet |-> Leaf({"x"}, TRUE, {1}, {}, {}), bare |-> [Leaf({}, FALSE, {}, {}, {}) EXCEPT !.sound = FALSE]]
Shelf == [none |-> <<<<>>, <<>>>>,
          two |-> <<Leaves.login, Leaves.wide>>, still |-> <<Leaves.quiet, Leaves.narrow>>]
Round(shots, says, anchored, shown) ==
  [shots |-> shots, lines |-> 1, says |-> says, anchored |-> anchored, known |-> 1, shown |-> shown]
Rounds == {Round({1}, "PASS", TRUE, FALSE), Round({}, "PASS", TRUE, FALSE), Round({1}, "PASS", FALSE, FALSE),
           Round({1}, "FAIL", TRUE, TRUE), Round({1}, "FAIL", TRUE, FALSE)}
FeaturePages == {Leaves[k] : k \in DOMAIN Leaves}
FeatureMaps == {Shelf[k] : k \in DOMAIN Shelf}

\* Diffs of a document, a source file and a spec among the documents, one of them renamed; lists of the first.
Edits(name) == [name |-> name, from |-> ""]
Renamed(name, from) == [name |-> name, from |-> from]
Diff(one, two, above) == [changes |-> <<one, two>>, above |-> <<above, above>>]
ScopeDiffs == {Diff(<<Edits("doc"), Edits("app")>>, <<Edits("doc")>>, <<Edits("text"), Edits("doc")>>),
               Diff(<<Renamed("doc", "app")>>, <<Edits("e2e")>>, <<Edits("doc")>>),
               Diff(<<Edits("doc")>>, <<Edits("text"), Edits("app")>>, <<Edits("app")>>)}
List(sound, inert, never) == [there |-> TRUE, sound |-> sound, inert |-> inert, never |-> never]
NoList == [List(TRUE, {}, {}) EXCEPT !.there = FALSE]
ScopeOwn == List(TRUE, {"doc", "text", "app", "e2e"}, {})
ScopeLists == {ScopeOwn, List(TRUE, {"doc", "text", "e2e"}, {}), List(TRUE, {"doc", "app"}, {"app"}), List(FALSE, {"app"}, {}), NoList}

----------------------------------------------------------------------------

Still == <<part, syncVars, grantVars, walkVars, evidenceVars, gateVars, fixVars, coverageVars, mutationVars, auditVars, selectVars, mapVars, scopeVars>>

PartInit ==
  /\ part \in {"sync", "grant", "walk", "evidence", "run", "fix", "coverage", "mutation", "audit", "select", "map", "scope"}
  \* What the others choose at first is fixed, for them to take no part in the count of states.
  /\ part = "grant" \/ change = [version |-> 1, title |-> "fix", changes |-> <<[k \in {"doc"} |-> "plain"]>>]
  /\ part = "walk" \/ body = Says(FALSE, <<>>, {})
  /\ \/ part = "run"
     \/ start = Tree(CHOOSE m \in Manifests : TRUE) /\ explicit = TRUE /\ fetched = FALSE /\ evidence = FALSE
  /\ \/ part = "fix"
     \/ /\ facts = [f \in {"f", "g"} |-> Test("python", "load", "bug", FALSE)]
        /\ tree = [s |-> "head", d |-> "none"] /\ inherit = Variable("plain", "plain")
  /\ \/ part = "coverage"
     \/ patch = Pull("same", <<>>, "vitest", {}, FALSE, FALSE)
  /\ \/ part = "mutation"
     \/ edited = {} /\ toolbox = [l \in {"script", "python"} |-> ToolRun(TRUE, FALSE, TRUE, FALSE, TRUE, "passes")]
  /\ \/ part = "audit"
     \/ owed = [a |-> Section(<<Ident(1), Ident(2)>>, {Ident(1), Ident(2)}, {}, <<Ident(1)>>), b |-> Section(<<>>, {}, {Ident(2)}, <<>>)]
                        /\ written = Body_({}, {Claim(Ident(1), "proof", "gone")}, <<>>, FALSE, TRUE)
  /\ \/ part = "select"
     \/ ground = <<>> /\ readable = FALSE
  /\ \/ part = "map"
     \/ map = Shelf.none /\ onBase = Shelf.none /\ points = {Shelf.none} /\ deep = FALSE /\ asked = FALSE /\ code = [changed |-> {"x"}, surfaces |-> {"login"}, tests |-> {"t"}]
  /\ \/ part = "scope"
     \/ /\ pr = [diff |-> CHOOSE d \in ScopeDiffs : TRUE, head |-> 1, stacked |-> FALSE, retargeted |-> FALSE]
        /\ list = NoList
  /\ Init /\ Grant!Init /\ Browse!Init /\ Left!Init /\ Run!Init
  /\ Fix!Init /\ Cover!Init /\ Mutate!Init /\ Audit!Init /\ Select!Init /\ Map!Init /\ Scope!Init

PartNext ==
  \/ part = "sync" /\ Next /\ UNCHANGED <<part, grantVars, walkVars, evidenceVars, gateVars, fixVars, coverageVars, mutationVars, auditVars, selectVars, mapVars, scopeVars>>
  \/ part = "grant" /\ Grant!Next /\ UNCHANGED <<part, syncVars, walkVars, evidenceVars, gateVars, fixVars, coverageVars, mutationVars, auditVars, selectVars, mapVars, scopeVars>>
  \/ part = "walk" /\ Browse!Next /\ UNCHANGED <<part, syncVars, grantVars, evidenceVars, gateVars, fixVars, coverageVars, mutationVars, auditVars, selectVars, mapVars, scopeVars>>
  \/ part = "evidence" /\ Left!Next /\ UNCHANGED <<part, syncVars, grantVars, walkVars, gateVars, fixVars, coverageVars, mutationVars, auditVars, selectVars, mapVars, scopeVars>>
  \/ part = "run" /\ Run!Next /\ UNCHANGED <<part, syncVars, grantVars, walkVars, evidenceVars, fixVars, coverageVars, mutationVars, auditVars, selectVars, mapVars, scopeVars>>
  \/ part = "fix" /\ Fix!Next /\ UNCHANGED <<part, syncVars, grantVars, walkVars, evidenceVars, gateVars, coverageVars, mutationVars, auditVars, selectVars, mapVars, scopeVars>>
  \/ part = "coverage" /\ Cover!Next /\ UNCHANGED <<part, syncVars, grantVars, walkVars, evidenceVars, gateVars, fixVars, mutationVars, auditVars, selectVars, mapVars, scopeVars>>
  \/ part = "mutation" /\ Mutate!Next /\ UNCHANGED <<part, syncVars, grantVars, walkVars, evidenceVars, gateVars, fixVars, coverageVars, auditVars, selectVars, mapVars, scopeVars>>
  \/ part = "audit" /\ Audit!Next /\ UNCHANGED <<part, syncVars, grantVars, walkVars, evidenceVars, gateVars, fixVars, coverageVars, mutationVars, selectVars, mapVars, scopeVars>>
  \/ part = "select" /\ Select!Next /\ UNCHANGED <<part, syncVars, grantVars, walkVars, evidenceVars, gateVars, fixVars, coverageVars, mutationVars, auditVars, mapVars, scopeVars>>
  \/ part = "map" /\ Map!Next /\ UNCHANGED <<part, syncVars, grantVars, walkVars, evidenceVars, gateVars, fixVars, coverageVars, mutationVars, auditVars, selectVars, scopeVars>>
  \/ part = "scope" /\ Scope!Next /\ UNCHANGED <<part, syncVars, grantVars, walkVars, evidenceVars, gateVars, fixVars, coverageVars, mutationVars, auditVars, selectVars, mapVars>>

PartSpec == PartInit /\ [][PartNext]_Still

----------------------------------------------------------------------------
(* The properties, as the modules state them *)

\* Affected: a test that loads anything else than at the base is selected, or told of.
AffectedIsRun == part = "select" => Select!AffectedIsRun
=============================================================================
