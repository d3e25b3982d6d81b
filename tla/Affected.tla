------------------------------ MODULE Affected ------------------------------
(***************************************************************************)
(* Affected-test selection (gates/_affected_tests.py, _affected_graph.py): *)
(* the test files a pull request must run, or ALL, from a graph of what    *)
(* each file at its head may import; and, after a full run, the failures   *)
(* the selection would have missed.                                        *)
(*                                                                         *)
(* A path is [dir, stem, ext, role], the role being what its name says it  *)
(* is.  A file's text is                                                   *)
(*   [imports, names, reads, node_test, playwright,  what a source shows    *)
(*    aliases, base_url, extends,                    of a tsconfig          *)
(*    name, exports, deps,                           of a package.json      *)
(*    version]                                                             *)
(* A specifier is [kind, ...]: "relative" with the `base` it names beside  *)
(* the file, "name" with its segments, or "python" with its leading `dots`,*)
(* its `module` and the `names` imported from it.                          *)
(***************************************************************************)
EXTENDS Naturals, Sequences, FiniteSets, SequencesExt, TLC

CONSTANTS
  Bases,     \* the trees a pull request may start from: functions from paths to texts
  Edits,     \* what a commit may do: [path, text], the text <<>> for a deletion
  Roots,     \* external: the directories Python's imports start from, in order
  Exclude, Always, AllOn,  \* paths the options' globs match
  MaxChanges

VARIABLES
  base, head,
  fetched,   \* whether the base can be read
  chosen,    \* the selection: [made, reason, tests, by_import, by_reads]
  report     \* the full run's: [made, failed, misses, unknown]

affectedVars == <<base, head, fetched, chosen, report>>

NoSelection == [made |-> FALSE, reason |-> "none", tests |-> {}, by_import |-> {}, by_reads |-> {}]
NoReport == [made |-> FALSE, failed |-> {}, misses |-> {}, unknown |-> {}]

Init ==
  /\ base \in Bases /\ head = base /\ fetched \in BOOLEAN
  /\ chosen = NoSelection /\ report = NoReport

Text(tree, p) == IF p \in DOMAIN tree THEN tree[p] ELSE <<>>

\* A rename is a deletion and an addition.
Changed == {p \in DOMAIN base \cup DOMAIN head : Text(base, p) # Text(head, p)}
Deleted == DOMAIN base \ DOMAIN head

Js(p) == p.ext \in {"ts", "js"}
Py(p) == p.ext = "py"

----------------------------------------------------------------------------
(* What a specifier may name, of the paths `known` *)

\* (mutant) Only the head's files are known.
known_Head == DOMAIN head

known == DOMAIN head \cup Deleted

\* The path itself, with an extension, with a TypeScript one for its .js, or a directory's index.
tries(at, index, of) ==
  {p \in of :
     \/ /\ p.dir = at.dir /\ p.stem = at.stem
        /\ at.ext = p.ext \/ (at.ext = "" /\ Js(p)) \/ (at.ext = "js" /\ p.ext = "ts")
     \/ index /\ at.ext = "" /\ p.dir = Append(at.dir, at.stem) /\ p.stem = "index" /\ Js(p)}

At(segments) == [dir |-> Front(segments), stem |-> Last(segments), ext |-> ""]

\* `@/*` with `src/*` maps `@/lib/x` to `src/lib/x`.
alias_targets(name, alias) ==
  IF alias.star THEN {t \o SubSeq(name, Len(alias.prefix) + 1, Len(name)) :
                        t \in IF Len(name) > Len(alias.prefix) /\ IsPrefix(alias.prefix, name) THEN alias.targets ELSE {}}
  ELSE IF name = alias.prefix THEN alias.targets ELSE {}

\* A tsconfig's own paths, else those of what it extends, each from its base or its directory.
NoPaths == [aliases |-> {}, base_url |-> {}]
RECURSIVE compiler_paths(_, _, _)
compiler_paths(tree, p, seen) ==
  LET own == tree[p]
      base_url == {p.dir \o b : b \in own.base_url}
      root == IF base_url = {} THEN p.dir ELSE CHOOSE b \in base_url : TRUE
      parents == {q \in own.extends : q \in DOMAIN tree /\ q \notin seen \cup {p}}
      theirs == {s \in {compiler_paths(tree, q, seen \cup {p}) : q \in parents} : s # NoPaths}
      taken == IF theirs = {} THEN NoPaths ELSE CHOOSE s \in theirs : TRUE
  IN  IF own.aliases # {}
      THEN [aliases |-> {[a EXCEPT !.targets = {root \o t : t \in @}] : a \in own.aliases}, base_url |-> base_url]
      ELSE [taken EXCEPT !.base_url = IF base_url = {} THEN @ ELSE base_url]

\* The nearest directory above the source whose tsconfig defines any.
scope(tree, source) ==
  LET configs == {p \in DOMAIN tree : p.role = "tsconfig" /\ IsPrefix(p.dir, source.dir) /\ compiler_paths(tree, p, {}) # NoPaths}
      nearest == {p \in configs : \A q \in configs : Len(q.dir) <= Len(p.dir)}
      found == {compiler_paths(tree, p, {}) : p \in nearest}
  IN  [aliases |-> UNION {s.aliases : s \in found}, base_url |-> UNION {s.base_url : s \in found}]

ByAlias(tree, source, name) == UNION {alias_targets(name, a) : a \in scope(tree, source).aliases}
ByBaseUrl(tree, source, name) == {b \o name : b \in scope(tree, source).base_url}

\* Every file a package's exports map a subpath to, `<<>>` being the package itself.
Exported(manifest, rest) == UNION {alias_targets(rest, e) : e \in manifest.exports}

\* A workspace package's entries, its index, and its subpaths.
ByPackage(tree, name) ==
  UNION {LET manifest == tree[p]
             rest == Tail(name)
             usual == IF rest = <<>> THEN {<<"src", "index">>, <<"index">>} ELSE {rest, <<"src">> \o rest}
         IN  {p.dir \o e : e \in Exported(manifest, rest) \cup usual} :
         p \in {p \in DOMAIN tree : p.role = "manifest" /\ tree[p].name = name[1]}}

resolve_js(source, spec) ==
  IF spec.kind = "relative" THEN tries(spec.base, TRUE, known)
  ELSE UNION {tries(At(s), TRUE, known) :
                s \in ByAlias(head, source, spec.name) \cup ByBaseUrl(head, source, spec.name) \cup ByPackage(head, spec.name)}

dotted(p) == IF p.stem = "__init__" THEN p.dir ELSE Append(p.dir, p.stem)

\* A dotted path finds what ends with it, and the packages on the way; a relative one only what it ends at.
resolve_python(source, spec) ==
  LET package == SubSeq(source.dir, 1, Len(source.dir) - (spec.dots - 1)) \o spec.module
      paths(from) == {from} \cup {Append(from, n) : n \in spec.names}
      prefixes == UNION {{SubSeq(m, 1, n) : n \in 1..Len(m)} : m \in paths(spec.module)}
  IN  {p \in known : Py(p) /\ IF spec.dots > 0 THEN dotted(p) \in paths(package)
                              ELSE \E m \in prefixes : IsSuffix(m, dotted(p))}

imports(p) ==
  UNION {IF s.kind = "python" THEN resolve_python(p, s) ELSE resolve_js(p, s) : s \in head[p].imports}

\* The files a config names in quotes; a directory's index is not one.
named_paths(p) == UNION {tries(n, FALSE, known) : n \in head[p].names}

----------------------------------------------------------------------------
(* The selection *)

is_test(tree, p) == p.role = "test" \/ (Js(p) /\ tree[p].node_test)

tests == {p \in DOMAIN head : is_test(head, p)} \ Exclude

playwright == \E t \in tests : head[t].playwright

\* A Playwright config matters only to Playwright tests.
runs_config(p) == p.role = "runner config" \/ (p.role = "playwright config" /\ playwright)
configs == {p \in DOMAIN head : runs_config(p)}

trigger(p) == p.role \in {"lockfile", "tsconfig", "pin"} \/ runs_config(p) \/ p \in AllOn

\* What a package.json installs, of which one that is not there has nothing.
deps(tree, p) == IF p \in DOMAIN tree THEN tree[p].deps ELSE {}

named_reason ==
  \E p \in Changed : trigger(p) \/ (p.role = "manifest" /\ deps(base, p) # deps(head, p))

RECURSIVE reach(_, _)
reach(graph, seen) ==
  LET more == UNION {graph[p] : p \in seen} \ seen
  IN  IF more = {} THEN seen ELSE reach(graph, seen \cup more)

importers == [p \in DOMAIN base \cup DOMAIN head |-> {q \in DOMAIN head : p \in imports(q) \/ (q \in configs /\ p \in named_paths(q))}]

\* A config, and what it names or imports, runs before every test under its directory; what it reads is not theirs.
always == reach(importers, {p \in DOMAIN head : head[p].reads})
Before == [p \in DOMAIN importers |-> importers[p] \cup
             (IF p \in configs THEN {t \in tests : IsPrefix(p.dir, t.dir)} ELSE {})]
affected == reach(Before, Changed)

select ==
  /\ ~chosen.made
  /\ chosen' =
       IF ~fetched \/ named_reason
       THEN [NoSelection EXCEPT !.made = TRUE, !.tests = tests, !.reason = IF fetched THEN "changed" ELSE "no base"]
       ELSE [made |-> TRUE, reason |-> "none", tests |-> tests, by_import |-> affected \cap tests,
             by_reads |-> (always \cup Always) \cap tests]
  /\ UNCHANGED <<base, head, fetched, report>>

selected == IF chosen.reason # "none" THEN chosen.tests ELSE chosen.by_import \cup chosen.by_reads

----------------------------------------------------------------------------
(* The full run's report *)

PathOf(t) == Append(t.dir, t.stem)

\* Every test file the name can mean: its path, or the end of it.
locate(name) == {t \in chosen.tests : name = PathOf(t) \/ IsSuffix(name, PathOf(t))}

\* The full run fails some tests, and names each by its path from the root or from a directory a runner ran in.
FullRun ==
  /\ chosen.made /\ ~report.made
  /\ \E failed \in SUBSET tests, depth \in 0..1 :
       LET names == {SubSeq(PathOf(t), 1 + (IF Len(PathOf(t)) > depth THEN depth ELSE 0), Len(PathOf(t))) : t \in failed}
           found == UNION {locate(n) : n \in names}
       IN  report' = IF chosen.reason # "none" THEN [NoReport EXCEPT !.made = TRUE, !.failed = failed]
                     ELSE [made |-> TRUE, failed |-> failed, misses |-> found \ selected,
                           unknown |-> {n \in names : locate(n) = {}}]
  /\ UNCHANGED <<base, head, fetched, chosen>>

Commit(edit) ==
  /\ ~chosen.made
  /\ Text(head, edit.path) # edit.text
  /\ Cardinality(Changed \cup {edit.path}) <= MaxChanges
  /\ head' = IF edit.text = <<>> THEN [p \in DOMAIN head \ {edit.path} |-> head[p]]
             ELSE (edit.path :> edit.text) @@ head
  /\ UNCHANGED <<base, fetched, chosen, report>>

Next ==
  \/ select \/ FullRun
  \/ \E edit \in Edits : Commit(edit)

Spec == Init /\ [][Next]_affectedVars

----------------------------------------------------------------------------
(* External: what a test loads when a tool runs it in a tree, one file for *)
(* each specifier.                                                         *)

Preferred(of) ==
  LET rank(p) == IF p.stem = "index" THEN 3 ELSE IF p.ext = "ts" THEN 1 ELSE 2
  IN  {p \in of : \A q \in of : rank(p) <= rank(q)}

\* The first of several sources that has any.
FirstOf(sources) ==
  LET have == {i \in DOMAIN sources : sources[i] # {}}
  IN  IF have = {} THEN {} ELSE sources[CHOOSE i \in have : \A j \in have : i <= j]

Of(tree, at) == UNION {tries(At(s), TRUE, DOMAIN tree) : s \in at}

\* The packages on the way of a relative import run too, which neither this nor the code follows.
PythonLoads(tree, source, spec) ==
  LET from == SubSeq(source.dir, 1, Len(source.dir) - (spec.dots - 1))
      on(root, least) == {p \in DOMAIN tree : Py(p) /\
        \E m \in {root \o spec.module} \cup {root \o Append(spec.module, n) : n \in spec.names} :
          \E k \in least..Len(m) : dotted(p) = SubSeq(m, 1, k)}
  IN  IF spec.dots > 0 THEN on(from, Len(from) + Len(spec.module))
      ELSE FirstOf([i \in DOMAIN Roots |-> on(Roots[i], Len(Roots[i]) + 1)])

Loads(tree, source, spec) ==
  CASE spec.kind = "relative" -> Preferred(tries(spec.base, TRUE, DOMAIN tree))
    [] spec.kind = "python" -> PythonLoads(tree, source, spec)
    [] OTHER -> Preferred(FirstOf(<<Of(tree, ByAlias(tree, source, spec.name)), Of(tree, ByBaseUrl(tree, source, spec.name)),
                                    Of(tree, ByPackage(tree, spec.name))>>))

RECURSIVE Closure(_, _)
Closure(tree, seen) ==
  LET more == UNION {UNION {Loads(tree, p, s) : s \in tree[p].imports} : p \in seen} \ seen
  IN  IF more = {} THEN seen ELSE Closure(tree, seen \cup more)

\* The configs of a test's directories run before it, and the setup files they name.
SetUp(tree, t) ==
  LET mine == {p \in DOMAIN tree : /\ IsPrefix(p.dir, t.dir)
                                   /\ p.role = "runner config" \/ (p.role = "playwright config" /\ tree[t].playwright)}
  IN  mine \cup UNION {UNION {Preferred(tries(n, FALSE, DOMAIN tree)) : n \in tree[p].names} : p \in mine}

Differs(t) ==
  LET run(tree) == Closure(tree, {t} \cup SetUp(tree, t))
  IN  t \notin DOMAIN base \/ [p \in run(base) |-> base[p]] # [p \in run(head) |-> head[p]]

ReadsFiles(t) == \E p \in Closure(head, {t}) : head[p].reads

\* What the selection does not look at: a package.json that changes its entries alone, and a config a tsconfig
\* extends under a name that is not a tsconfig's.
Unlooked ==
  \E p \in Changed :
    \/ p.role = "manifest" /\ deps(base, p) = deps(head, p)
    \/ \E q \in DOMAIN head : q.role = "tsconfig" /\ p \in head[q].extends /\ p.role # "tsconfig"

Owes == {t \in chosen.tests : Differs(t) \/ (ReadsFiles(t) /\ Changed # {})}

----------------------------------------------------------------------------
(* Properties *)

\* A test that loads anything else than at the base, through whatever it imports, whatever file was added before
\* another, removed or renamed, and whatever its runner's config sets up first, is selected, and so is one that
\* reads files; and a test that fails in the full run without being selected is told of (reached, select, report).
AffectedIsRun ==
  /\ chosen.made /\ ~Unlooked => Owes \subseteq selected
  /\ report.made => report.failed \subseteq selected \cup report.misses
=============================================================================
