-------------------------------- MODULE Gates --------------------------------
(***************************************************************************)
(* What decides on a pull request from what it read earlier: pull-sync,    *)
(* the answer whether an agent may merge it, the browser check and its     *)
(* evidence, the run of the gates, the regression gate's own run, mutants, *)
(* the feature map and the suites' scope, each in a world of its own.      *)
(***************************************************************************)
EXTENDS PullSync

CONSTANTS
  Kinds, Category, Conditional, Exclusion, Grants, Titles, Changes, Readers, MaxVersions,  \* MergeGrant
  Bodies, Ticket, Walks, Names, ShardWalks, MaxShards, MaxMoves, MaxAttempts, Tested,      \* Walk
  Explorers, Walkers, Doings, Answers, DeclaredFailures, Widths, Records, MaxEvents, MaxAsides, \* Evidence
  Starts, Paths, RulePaths, OwnNames, NewLines, Texts, MaxUses, MaxCommits,                \* GateRun
  Files, Facts, Inherits, Swapped, Deletes, Containers, MaxFaults,                         \* Regression
  ChangeSets, Tools, Break, MaxFiles,                                                      \* Mutation
  Ids, Pages, Maps, SourceFiles, Surfaces, Specs, ReWalks, SharedOver, Cap, MaxMapMoves,   \* Features
  Commits, Diffs, Reads, Lists, Own, Contexts, Listed, MaxMerges, MaxSlips                 \* SuiteScope

VARIABLES
  change, reader, known,
  start, tip, heads, explicit, fetched, evidence, course,
  commits, base, body, edits, current, past,
  calls, log, made, console, pageAt, record,
  pc, facts, inherit, tree, began, nets, stale, seal, caught, ran, verdict, undo, faults,
  edited, toolbox, now, tried, scored,
  map, onBase, points, code, deep, asked, moves, walked, drift, rewalk,
  pr, list, merges, runs, posted, slips

Grant == INSTANCE MergeGrant WITH pull <- change
Browse == INSTANCE Walk
Left == INSTANCE Evidence
Run == INSTANCE GateRun WITH base <- tip, commits <- heads, run <- course
Fix == INSTANCE Regression
Mutate == INSTANCE Mutation WITH files <- edited, tools <- toolbox, pc <- now, verdict <- scored, Pulls <- ChangeSets
Map == INSTANCE Features WITH Files <- SourceFiles, Tests <- Specs, Walks <- ReWalks, MaxMoves <- MaxMapMoves
Scope == INSTANCE SuiteScope

grantVars == <<change, reader, known>>
walkVars == <<commits, base, body, edits, current, past>>
evidenceVars == <<calls, log, made, console, pageAt, record>>
gateVars == <<start, tip, heads, explicit, fetched, evidence, course>>
fixVars == <<pc, facts, inherit, tree, began, nets, stale, seal, caught, ran, verdict, undo, faults>>
mutationVars == <<edited, toolbox, now, tried, scored>>
mapVars == <<map, onBase, points, code, deep, asked, moves, walked, drift, rewalk>>
scopeVars == <<pr, list, merges, runs, posted, slips>>

\* A branch starts from a tree whose code is counted and whose files have a place.
ASSUME TreesAssumption == MaxUses \in Nat /\ \A t \in Starts : Run!Lawful(t)
\* A pull request has finitely many mutants, each breaking the line its function first differs at.
ASSUME MutantsAssumption ==
  /\ Break \in Nat
  /\ \A fs \in ChangeSets : IsFiniteSet(fs) /\ IsFiniteSet(UNION {f.mutants : f \in fs}) /\ Mutate!Lawful(fs)
\* The heads are numbered, the files they change listed, and a file that was not renamed has no old name to read.
ASSUME ScopeAssumption == Scope!Lawful

----------------------------------------------------------------------------
(* The properties, as the modules state them *)

\* MergeGrant: the badge beside a head is of the whole of what it changes, if it was listed while it was the head.
BadgeHolds == Grant!BadgeHolds
\* Walk: a green check stands on a walk of every criterion, in its words, of this page.
GreenIsWalked == Browse!GreenIsWalked
\* Evidence: what failed in a run that passes was declared, worked at another time, or was the answer to an input tried.
PassMeansServed == Left!PassMeansServed
\* GateRun: what the base's manifest blocks on holds of a head that passes, whatever the branch edits.
NothingWeakened == Run!NothingWeakened
\* Regression: a fix that passes has a test that failed before the fix, for no name missing and no refusal the gate knows of.
ShownIsReal == Fix!ShownIsReal
\* Regression: whatever stopped the run, the tree and the stack are as they were.
LeavesAsFound == Fix!LeavesAsFound
\* Mutation: a verdict counts every mutant of every changed line, in both languages.
ScoreOfWhole == Mutate!ScoreOfWhole
\* Features: a pass with a criterion to check means every feature the base's map selects was re-walked; the map survives.
ReWalkStands == Map!ReWalkStands
\* SuiteScope: the suite is skipped only for a diff it cannot see
SkipIsInert == Scope!SkipIsInert
=============================================================================
