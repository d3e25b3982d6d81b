------------------------------- MODULE TextGates -------------------------------
(***************************************************************************)
(* The two gates that read texts line by line, each in a world of its own. *)
(* The proof audit quotes the lines of a test file, for a repository's     *)
(* plan, a plan store, a body that is edited and a model that may say      *)
(* anything; coverage-not-lost follows the lines of a source file from the *)
(* merge base to the head.                                                 *)
(***************************************************************************)
EXTENDS Integers, Sequences

CONSTANTS RepoPlans, StoredPlan, Amendments, PullBodies, HeadPaths, TestBlocks, Outputs,
          MaxIds, MaxAmendments, MaxEdits,                                       \* ProofAudit
          FileLength, SuiteDirs, Patches, SuiteRuns, BaseLines, HeadLines        \* Coverage

VARIABLES
  owed, shelf, written, rewrites, cuts, graded, verdicts,
  patch, stage, trees, pairs, findings, outcome

Audit == INSTANCE ProofAudit WITH
  sections <- owed, stored <- shelf, body <- written, edits <- rewrites,
  Plans <- RepoPlans, Stored <- StoredPlan, Bodies <- PullBodies, Paths <- HeadPaths, Tests <- TestBlocks

Cover == INSTANCE Coverage WITH
  change <- patch, pc <- stage, runs <- pairs, verdict <- outcome,
  N <- FileLength, Projects <- SuiteDirs, Worlds <- Patches, Suites <- SuiteRuns, Bases <- BaseLines, Tips <- HeadLines

auditVars == <<owed, shelf, written, rewrites, cuts, graded, verdicts>>
coverageVars == <<patch, stage, trees, pairs, findings, outcome>>

\* A line of a test is one of three kinds, and the model's output has the shape its schema demands.  A body's
\* links and deferrals can be read: one of a section that is not there ends either gate with no verdict.
ASSUME AuditAssumption ==
  /\ TestBlocks \in Seq([title : STRING, body : Seq([kind : {"assert", "open", "value"}, text : STRING])])
  /\ Outputs \subseteq Seq([status : STRING, quotes : SUBSET [title : STRING, line : Int, text : STRING], owner : STRING])
  /\ \A b \in PullBodies, plan \in RepoPlans :
       /\ b.links \subseteq DOMAIN plan
       /\ \A c \in b.claims : c.kind = "proof" \/ c.value \in DOMAIN plan

\* What `git diff -U0` prints: hunks in the file's order, none touching the next; a file without any is as it was.
\* Only lines the file has are removed from it.
ASSUME CoverageAssumption ==
  /\ FileLength \in Nat
  /\ \A p \in Patches :
       /\ p.hunks \in Seq([start : Nat, removed : Nat, added : Nat])
       /\ \A k \in DOMAIN p.hunks : p.hunks[k].removed > 0 => p.hunks[k].start > 0
       /\ \A k, l \in DOMAIN p.hunks :
            k < l => /\ p.hunks[k].start < p.hunks[l].start
                     /\ p.hunks[k].start + p.hunks[k].removed <= p.hunks[l].start
       /\ p.fate \in {"modified", "moved"} \/ p.hunks = <<>>

\* ProofAudit: nothing a pull request owes is dropped on the way to a pass.
NothingDropped == Audit!NothingDropped
\* Coverage: the lines told of are those the pull request left as they were and that no longer run.
LossIsReal == Cover!LossIsReal
=============================================================================
