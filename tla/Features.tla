------------------------------- MODULE Features -------------------------------
(***************************************************************************)
(* The feature map - one page per feature, naming the files that implement *)
(* it, the surfaces it owns and how to verify it - and the two gates that  *)
(* read it for a pull request: feature-map holds it against the code, and  *)
(* acceptance-verdict asks for a re-walk of every feature a changed file   *)
(* touches.  The branch and the base edit the map meanwhile, and the       *)
(* explorer and the gate each select for themselves.                       *)
(*                                                                         *)
(* A glob is the files it matches, an anchor the test it names, a step its *)
(* line.  A map gives every id its page, or <<>> for no such file.         *)
(***************************************************************************)
EXTENDS FiniteSetsExt, Naturals

CONSTANTS
  Ids,         \* numbers, in the order of the ids
  Pages,       \* [sources, none, steps, surfaces, tests, sound]
  Maps,        \* that the branch, the base and their merge bases may start with
  Files, Surfaces, Tests,
  Walks,       \* what a re-walk may leave: [shots, lines, says, anchored, known, shown]
  SharedOver,  \* a file listed by more features selects none
  Cap,         \* of selected features
  MaxMoves

VARIABLES
  map,      \* of the branch's head
  onBase,
  points,   \* at the merge bases
  code,     \* of the head: files changed since, surfaces declared, tests there
  deep,     \* the checkout has the base
  asked,    \* the body, or the ticket, has a criterion a run checks
  moves,
  walked,   \* what the explorer left of each feature; <<>> before it ran
  drift,    \* what feature-map said
  rewalk    \* what acceptance-verdict said, and the notes it printed

featureVars == <<map, onBase, points, code, deep, asked, moves, walked, drift, rewalk>>

\* A page as its file is parsed; unsound: a malformed bullet, a missing section, an id that is no word.
Feature == [sources : SUBSET Files, none : BOOLEAN, steps : SUBSET Nat, surfaces : SUBSET Surfaces,
            tests : SUBSET Tests, sound : BOOLEAN]

feature_paths(m) == {id \in Ids : m[id] # <<>>}
NoMap == [id \in Ids |-> <<>>]

----------------------------------------------------------------------------
(* What a head without a feature file is judged by *)

\* "predates": the base gained its map after the branch left it.  "cannot": the branch removed the map,
\* or nothing tells.
missing_map ==
  IF deep /\ (\A point \in points : feature_paths(point) = {}) /\ feature_paths(onBase) # {}
  THEN "predates" ELSE "cannot"

----------------------------------------------------------------------------
(* feature-map: the whole map against the code *)

\* The surfaces --surface finds in the code.
extract == code.surfaces

structure_findings(id) ==
  LET page == map[id] IN ~page.sound \/ page.sources = {} \/ (page.tests = {} /\ page.steps = {})
source_findings(id) == map[id].sources \intersect Files = {}
surface_findings(id) == ~(map[id].surfaces \subseteq extract)
anchor_findings(id) == ~(map[id].tests \subseteq code.tests)

Owned == UNION {map[id].surfaces : id \in feature_paths(map)}

\* An extractor that finds no surface is an error, not an empty code.
feature_map ==
  CASE feature_paths(map) = {} -> missing_map
    [] feature_paths(map) # {} /\ extract = {} -> "cannot"
    [] OTHER -> IF \/ \E id \in feature_paths(map) : \/ structure_findings(id) \/ source_findings(id)
                                                     \/ surface_findings(id) \/ anchor_findings(id)
                   \/ ~(extract \subseteq Owned)
                THEN "red" ELSE "pass"

----------------------------------------------------------------------------
(* Which features are re-walked *)

\* The base's map; none when the checkout does not have the base.
base_map == IF deep THEN onBase ELSE NoMap

\* (mutant) a feature selects by the branch's own page
Speaks_Head(id) == map[id]

\* What a feature selects by: the page the base has, or its own when the base has none.
Speaks(id) == IF base_map[id] # <<>> THEN base_map[id] ELSE map[id]

listers(file) == {id \in feature_paths(map) : file \in Speaks(id).sources}
shared == {file \in code.changed : Cardinality(listers(file)) > SharedOver}
owned(id) == {file \in code.changed \ shared : id \in listers(file)}

\* Those that own a changed file and that a browser can walk; the most files first, then by id.
ranked == {id \in feature_paths(map) : owned(id) # {} /\ ~Speaks(id).none}
Before(id, other) ==
  LET more == Cardinality(owned(id)) IN
  \/ more > Cardinality(owned(other))
  \/ more = Cardinality(owned(other)) /\ id < other
select == {id \in ranked : Cardinality({other \in ranked : Before(other, id)}) < Cap}

\* Selected features whose steps are not those of the commit the pull request started from.
verify_edits(point) ==
  {id \in select : point[id] = <<>> \/ point[id].steps # map[id].steps}

----------------------------------------------------------------------------
(* What a re-walk must have left *)

Nothing == [shots |-> {}, lines |-> 0, says |-> "", anchored |-> FALSE, known |-> 0, shown |-> FALSE]
Left(id) == IF walked = <<>> THEN Nothing ELSE walked[id]

\* Log lines of the feature's own walk that have their screenshot.
walked_steps(id) == Left(id).shots

\* Exactly one line, PASS, with an anchor that resolves, over a walked step.
regression_finding(id) ==
  \/ Left(id).lines # 1
  \/ walked_steps(id) = {}
  \/ Left(id).says # "PASS"
  \/ ~Left(id).anchored

\* One line that cites a step of the walk on the base branch's site, with its screenshot.
known_on_main(id) ==
  /\ Left(id).lines = 1 /\ walked_steps(id) # {} /\ Left(id).says = "FAIL"
  /\ Left(id).known = 1 /\ Left(id).shown

regression_findings == {id \in select : regression_finding(id) /\ ~known_on_main(id)}

----------------------------------------------------------------------------
(* The branch and the base *)

Moves ==
  /\ moves < MaxMoves /\ rewalk.verdict = ""
  /\ moves' = moves + 1
  /\ UNCHANGED <<deep, drift, rewalk>>

\* A push: what was walked was of the head before.
Pushes == Moves /\ walked' = <<>> /\ UNCHANGED asked

\* The pull request's body is edited: it lists a first criterion, declares `- None: <why>`, or proves by a test
\* the last that was left to walk.
EditBody == Moves /\ asked' = ~asked /\ UNCHANGED <<map, onBase, points, code, walked>>

Change(file) ==
  /\ Pushes
  /\ code' = [code EXCEPT !.changed = @ \cup {file}]
  /\ UNCHANGED <<map, onBase, points>>

Declare(surface) ==
  /\ Pushes
  /\ code' = [code EXCEPT !.surfaces = IF surface \in @ THEN @ \ {surface} ELSE @ \cup {surface}]
  /\ UNCHANGED <<map, onBase, points>>

RemoveTest(test) ==
  /\ Pushes /\ test \in code.tests
  /\ code' = [code EXCEPT !.tests = @ \ {test}]
  /\ UNCHANGED <<map, onBase, points>>

\* Adds a feature, edits its page, or retires it.
Write(id, page) ==
  /\ Pushes /\ map[id] # page /\ page \in Feature \cup {<<>>}
  /\ map' = [map EXCEPT ![id] = page]
  /\ UNCHANGED <<onBase, points, code>>

BaseWrites(id, page) ==
  /\ Moves /\ onBase[id] # page /\ page \in Feature \cup {<<>>}
  /\ onBase' = [onBase EXCEPT ![id] = page]
  /\ UNCHANGED <<map, points, code, asked, walked>>

\* git's three ways: a file only one side changed is that side's; of two changes, ours.
Merged(ours, theirs, point) == [id \in Ids |-> IF ours[id] = point[id] THEN theirs[id] ELSE ours[id]]

TakeBase ==
  /\ Pushes
  /\ \E point \in points : map' = Merged(map, onBase, point)
  /\ points' = {onBase}
  /\ UNCHANGED <<onBase, code>>

\* Each side merges the other's head as it was: two merge bases.
CrissCross ==
  /\ Pushes
  /\ \E point \in points : map' = Merged(map, onBase, point) /\ onBase' = Merged(onBase, map, point)
  /\ points' = {map, onBase}
  /\ UNCHANGED code

----------------------------------------------------------------------------
(* The run *)

\* It runs when there is a criterion to check, is given the pages of what is selected now and leaves what it
\* leaves; a head without a feature file gives it none.
Explore ==
  /\ asked /\ walked = <<>> /\ rewalk.verdict = ""
  /\ map = NoMap => missing_map = "predates"
  /\ walked' \in [Ids -> {Nothing} \cup Walks]
  /\ \A id \in Ids \ select : walked'[id] = Nothing
  /\ UNCHANGED <<map, onBase, points, code, deep, asked, moves, drift, rewalk>>

\* Both gates, on the head and the base of that moment; what the criteria themselves lack is not judged here.
\* With none to check, acceptance-verdict returns before it reads the map at all.
Judge ==
  /\ rewalk.verdict = ""
  /\ drift' = feature_map
  /\ \E point \in points :
       rewalk' = [verdict |-> CASE ~asked -> "pass"
                                [] asked /\ map = NoMap -> missing_map
                                [] asked /\ map # NoMap /\ regression_findings # {} -> "red"
                                [] OTHER -> "pass",
                  notes |-> IF asked /\ deep THEN verify_edits(point) ELSE {}]
  /\ UNCHANGED <<map, onBase, points, code, deep, asked, moves, walked>>

----------------------------------------------------------------------------

Init ==
  /\ map \in Maps /\ onBase \in Maps
  /\ points \in {{m, n} : m, n \in Maps}
  /\ \E changed \in (SUBSET Files) \ {{}} : code = [changed |-> changed, surfaces |-> Surfaces, tests |-> Tests]
  /\ deep \in BOOLEAN /\ asked \in BOOLEAN
  /\ moves = 0
  /\ walked = <<>>
  /\ drift = ""
  /\ rewalk = [verdict |-> "", notes |-> {}]

Next ==
  \/ \E file \in Files : Change(file)
  \/ \E surface \in Surfaces : Declare(surface)
  \/ \E test \in Tests : RemoveTest(test)
  \/ \E id \in Ids, page \in Pages \cup {<<>>} : Write(id, page) \/ BaseWrites(id, page)
  \/ TakeBase \/ CrissCross \/ EditBody \/ Explore \/ Judge

Spec == Init /\ [][Next]_featureVars

----------------------------------------------------------------------------
(* Properties *)

\* The features both sides have.
Kept == feature_paths(map) \intersect feature_paths(onBase)
Added == feature_paths(map) \ feature_paths(onBase)

\* What the base's own pages say of the changed files: which features they touch, and which come first.
Touched(id) ==
  {file \in code.changed \intersect onBase[id].sources :
     ~(Cardinality({other \in Kept : file \in onBase[other].sources}) > SharedOver)}
Walkable == {id \in Kept : Touched(id) # {} /\ ~onBase[id].none}
First(id, other) ==
  \/ Cardinality(Touched(id)) > Cardinality(Touched(other))
  \/ Cardinality(Touched(id)) = Cardinality(Touched(other)) /\ id < other
Due == {id \in Walkable : Cardinality({other \in Walkable : First(other, id)}) < Cap}

\* One PASS, or a failure the base has too, over a step that was walked.
OnRecord(id) ==
  /\ Left(id).shots # {} /\ Left(id).lines = 1
  /\ \/ Left(id).says = "PASS" /\ Left(id).anchored
     \/ Left(id).known = 1 /\ Left(id).shown

\* No pass of a pull request with a criterion a run checks without the re-walks the base's map asks for: when
\* acceptance-verdict passes it, each feature the base's pages select for the changed files was walked and its
\* line stands, whatever the branch did to those pages and however the base and the body moved since the explorer
\* chose - unless the branch adds a feature of its own that lists a changed file; merging cannot change the steps
\* of a feature it re-walked without the log saying so. A body that declares no criterion, or a ticket whose every
\* criterion a test proves, passes without them (acceptance_verdict.py:364-372; docs/feature-map.md:335-337 names
\* the first). Merging a head without a map that the gate lets pass leaves the base its map; and when
\* feature-map passes, the code declares exactly the surfaces the map lists.
ReWalkStands ==
  /\ rewalk.verdict = "pass" /\ asked /\ deep =>
       /\ (\A id \in Added : map[id].sources \intersect code.changed = {}) => \A id \in Due : OnRecord(id)
       /\ \A id \in select :
            (\A point \in points : Merged(onBase, map, point)[id] # onBase[id]
                                   /\ onBase[id] # <<>> /\ map[id].steps # onBase[id].steps)
            /\ Cardinality(points) = 1 => id \in rewalk.notes
  /\ rewalk.verdict = "predates" =>
       \A point \in points : Merged(onBase, map, point) # NoMap
  /\ drift = "pass" => code.surfaces = UNION {map[id].surfaces : id \in feature_paths(map)}
=============================================================================
