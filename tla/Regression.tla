----------------------------- MODULE Regression -----------------------------
(***************************************************************************)
(* A run of regression-test-fails-on-base: the tests a fix changed, run at *)
(* the head and again on the code before the fix.  Unit tests run on this  *)
(* machine under the guard of _local_guard.py; browser specs run in a      *)
(* Docker network of their own, with the job's stack moved into it         *)
(* (_regression_sealed.py).  Both the working tree and the stack are put   *)
(* back whatever stops the run.                                            *)
(*                                                                         *)
(* What a test file is and does is chosen once and read only by the runs:  *)
(* `kind` is what its text and its package say of it, `head` and `before`  *)
(* how its tests end on the two trees.  "bug" is an assertion that fails,  *)
(* "top" the same at the file's top level, "refused" a failure that comes  *)
(* of a connection the run refused, "unseen" of one a spec's network       *)
(* refused and did not count (an IPv6 address given as numbers, or what    *)
(* the stack's own containers try), "missing" of a name not there yet in   *)
(* the words the gate knows, and "fails" of anything else: a TypeError, a  *)
(* timeout, a fixture, a name that is missing in other words.              *)
(***************************************************************************)
EXTENDS Naturals, FiniteSets

CONSTANTS
  Files,      \* the test files the fix changed
  Facts,      \* what each may be
  Inherits,   \* the variables a run may inherit, one at a time
  Swapped,    \* the other paths the fix changed
  Deletes,    \* those of them it deleted
  Containers, \* the stack's containers
  MaxFaults   \* docker commands that fail, timeouts and signals, together

VARIABLES
  pc,      \* where the run is
  facts,   \* the test files
  inherit, \* the variable
  tree,    \* each swapped path's content in the working tree
  began,   \* what it was at first
  nets,    \* the networks each container is on
  stale,   \* the containers not restarted since they last moved
  seal,    \* the seal: its network, whether the stack entered it, its relay
  caught,  \* SIGTERM and SIGINT are caught
  ran,     \* how each file's tests ended on the tree they ran on, at the head and before
  verdict,
  undo,    \* putting back itself was disturbed
  faults

regressionVars == <<pc, facts, inherit, tree, began, nets, stale, seal, caught, ran, verdict, undo, faults>>
world == <<facts, inherit, began>>

Kept(p) == IF p \in Deletes THEN {"none", "untracked"} ELSE {"head", "edited"}

Init ==
  /\ pc = "check" /\ verdict = "none" /\ caught = FALSE /\ undo = FALSE /\ faults = 0
  /\ facts \in [Files -> Facts] /\ inherit \in Inherits
  /\ tree \in {t \in [Swapped -> UNION {Kept(p) : p \in Swapped}] : \A p \in Swapped : t[p] \in Kept(p)}
  /\ began = tree
  /\ nets = [c \in Containers |-> {"own"}] /\ stale = {}
  /\ seal = [network |-> FALSE, entered |-> FALSE, relay |-> FALSE]
  /\ ran = [at |-> [f \in {} |-> "x"], before |-> [f \in {} |-> "x"]]

----------------------------------------------------------------------------
(* What the run's code would inherit (_local_only.py) *)

\* What a value says by its shape: where it reaches, or neither.
value_reason(value) ==
  CASE value \in {"token", "hosted jwt", "remote database", "password url", "webhook", "hosted project"} -> "away"
    [] value \in {"local jwt", "local database", "local url"} -> "here"
    [] OTHER -> "neither"

why(v) ==
  \/ value_reason(v.value) = "away"
  \/ value_reason(v.value) = "neither"
       /\ \/ v.name = "database host" /\ v.value = "remote host"
          \/ v.name = "credential" /\ ~v.declared

----------------------------------------------------------------------------
(* Which runner a file belongs to (_regression_frameworks.py) *)

framework(kind) == IF kind \in {"vitest", "vitest package"} THEN "unit"
                   ELSE IF kind \in {"jest", "jest package", "bun"} THEN "unsupported" ELSE "none"

\* A file that imports no framework, or Playwright's, is listed under the config.
maybe_playwright(f) == facts[f].kind \in {"spec", "spec not collected", "jest package", "vitest package", "script"}

runner(f) == IF facts[f].kind = "spec" THEN IF facts[f].head = "load" THEN "none" ELSE "spec"
             ELSE IF facts[f].kind = "python" THEN "unit" ELSE framework(facts[f].kind)

Unit == {f \in Files : runner(f) = "unit"}
Spec_ == {f \in Files : runner(f) = "spec"}
Judged == Unit \cup Spec_

----------------------------------------------------------------------------
(* Ending, and being stopped *)

Idle(s) == s = [network |-> FALSE, entered |-> FALSE, relay |-> FALSE]

\* The run's exit, with the seal (if there is one) to close first.
Leave(v) == /\ pc' = IF seal.network THEN "close" ELSE "done"
            /\ verdict' = v

\* A listing that cannot run, of files of which none imports Playwright, takes none for a spec.
listed_specs == pc \in {"open", "list"} /\ \A f \in Files : facts[f].kind \notin {"spec", "spec not collected"}

\* An exception: the tree is put back first, if it was being swapped.
Raise == IF listed_specs THEN pc' = "unit at head" /\ UNCHANGED verdict
         ELSE IF pc \in {"swap", "unit before", "specs before"} THEN pc' = "put back" /\ verdict' = "cannot run"
         ELSE Leave("cannot run")

Disturb == faults < MaxFaults /\ faults' = faults + 1

\* A command fails, the deadline passes, or a signal arrives: before run_tool or the swap
\* has set its handlers, that one ends the process where it is.
Stopped ==
  /\ pc \notin {"done", "killed", "check"} /\ Disturb
  /\ CASE pc \in {"put back", "close"} ->
            /\ undo' = TRUE /\ verdict' = "cannot run"
            /\ pc' = IF pc = "put back" /\ seal.network THEN "close" ELSE "done"
       [] OTHER -> undo' = undo /\ Raise
  /\ UNCHANGED <<world, tree, nets, stale, seal, caught, ran>>

Killed ==
  /\ pc \notin {"done", "killed"} /\ ~caught /\ Disturb
  /\ pc' = "killed"
  /\ UNCHANGED <<world, tree, nets, stale, seal, caught, ran, verdict, undo>>

----------------------------------------------------------------------------
(* The gate *)

\* (mutant) An untracked file where the fix deleted one is no difference.
dirty_TrackedOnly == \E p \in Swapped : tree[p] \notin {"head", "none", "untracked"}

\* Nothing starts in a tree that differs from the head at a path of the fix.
dirty == \E p \in Swapped : tree[p] \notin {"head", "none"}

compare ==
  /\ pc = "check"
  /\ IF dirty THEN Leave("cannot run")
     ELSE /\ pc' = IF \E f \in Files : maybe_playwright(f) THEN "open" ELSE "unit at head"
          /\ UNCHANGED verdict
  /\ UNCHANGED <<world, tree, nets, stale, seal, caught, ran, undo, faults>>

\* The seal's network, made at the first call under Playwright.
open ==
  /\ pc = "open"
  /\ IF why(inherit) THEN Raise /\ UNCHANGED seal
     ELSE pc' = "list" /\ seal' = [seal EXCEPT !.network = TRUE] /\ UNCHANGED verdict
  /\ UNCHANGED <<world, tree, nets, stale, caught, ran, undo, faults>>

\* `playwright test --list` in the sealed network, the stack where it was.
listed ==
  /\ pc = "list"
  /\ pc' = "unit at head" /\ caught' = TRUE
  /\ UNCHANGED <<world, tree, nets, stale, seal, ran, verdict, undo, faults>>

\* How a file ends on the tree it runs on.
Ends(f) == IF \A p \in Swapped : tree[p] \in {"head", "none"} THEN facts[f].head ELSE facts[f].before

Fails(end) == end \in {"bug", "top", "refused", "unseen", "missing", "load", "fails"}

\* (mutant) A failing file answers for its own refusals only, as it passes with them at the head.
judge_Passes(files) == \E f \in files : facts[f].reaches /\ Fails(Ends(f))

\* A failure in a run that was refused anything cannot be told from the refusal; one refused unseen is not known.
judge(files) == (\E f \in files : facts[f].reaches \/ Ends(f) = "refused") /\ \E f \in files : Fails(Ends(f))

Record(when, files) == [ran EXCEPT ![when] = [f \in DOMAIN @ \cup files |-> IF f \in files THEN Ends(f) ELSE @[f]]]

\* Before the fix, only the files with a test that passed at the head run again.
Runs(when, files) == IF when = "at" THEN files ELSE {f \in files : ran.at[f] = "passes"}

\* The files under the project's own runner on this machine, guarded.
run_unit(at, when, next) ==
  /\ pc = at
  /\ IF Runs(when, Unit) = {} THEN pc' = next /\ UNCHANGED <<verdict, caught, ran>>
     ELSE IF why(inherit) THEN Raise /\ UNCHANGED <<caught, ran>>
     ELSE /\ caught' = TRUE
          /\ IF judge(Runs(when, Unit)) THEN Raise /\ UNCHANGED ran
             ELSE pc' = next /\ ran' = Record(when, Runs(when, Unit)) /\ UNCHANGED verdict
  /\ UNCHANGED <<world, tree, nets, stale, seal, undo, faults>>

\* A spec's project must go to this machine, and the config must start its site here.
refuse_targets == \E f \in Spec_ : facts[f].target # "local"

\* The specs under their config, once the stack is in the seal.
run_specs(at, when, next) ==
  /\ pc = at
  /\ Runs(when, Spec_) # {} => seal.entered \/ refuse_targets
  /\ IF Runs(when, Spec_) = {} THEN pc' = next /\ UNCHANGED <<verdict, ran>>
     ELSE IF refuse_targets \/ judge({f \in Runs(when, Spec_) : Ends(f) # "load"}) THEN Raise /\ UNCHANGED ran
     ELSE pc' = next /\ ran' = Record(when, Runs(when, Spec_)) /\ UNCHANGED verdict
  /\ UNCHANGED <<world, tree, nets, stale, seal, caught, undo, faults>>

----------------------------------------------------------------------------
(* The stack, moved into the seal and out of it *)

Between(c) == \A d \in Containers \ {c} : Cardinality(nets[d]) = 1

\* Joined to the sealed network, then taken off its own, one container after the other.
Enter(c) ==
  /\ pc = "specs at head" /\ Spec_ # {} /\ ~refuse_targets /\ ~seal.entered /\ "own" \in nets[c] /\ Between(c)
  /\ nets' = [nets EXCEPT ![c] = IF "sealed" \in @ THEN @ \ {"own"} ELSE @ \cup {"sealed"}]
  /\ stale' = stale \cup {c}
  /\ UNCHANGED <<pc, world, tree, seal, caught, ran, verdict, undo, faults>>

\* Restarted there, and its ports published again through the relay.
Entered ==
  /\ pc = "specs at head" /\ Spec_ # {} /\ ~refuse_targets /\ ~seal.entered
  /\ \A c \in Containers : nets[c] = {"sealed"}
  /\ stale' = {}
  /\ seal' = [seal EXCEPT !.entered = TRUE, !.relay = TRUE]
  /\ UNCHANGED <<pc, world, tree, nets, caught, ran, verdict, undo, faults>>

\* Back, each step as far as the container went.
Leaves(c) ==
  /\ pc = "close" /\ Between(c) /\ nets[c] # {"own"}
  /\ nets' = [nets EXCEPT ![c] = IF "own" \in @ THEN @ \ {"sealed"} ELSE @ \cup {"own"}]
  /\ stale' = stale \cup {c}
  /\ seal' = [seal EXCEPT !.relay = FALSE]
  /\ UNCHANGED <<pc, world, tree, caught, ran, verdict, undo, faults>>

close ==
  /\ pc = "close" /\ \A c \in Containers : nets[c] = {"own"}
  /\ pc' = "done" /\ stale' = {} /\ seal' = [network |-> FALSE, entered |-> FALSE, relay |-> FALSE]
  /\ UNCHANGED <<world, tree, nets, caught, ran, verdict, undo, faults>>

----------------------------------------------------------------------------
(* The code before the fix *)

\* A test that fails at the head is a red suite; a file in which none ran is not judged.
passed_at_head ==
  /\ pc = "judge head"
  /\ LET red == {f \in Judged : ran.at[f] \in {"bug", "missing", "fails", "refused", "unseen"}}
         passed == {f \in Judged : ran.at[f] = "passes"}
     IN  IF red # {} THEN Leave("cannot run")
         ELSE IF passed = {} THEN
           Leave(IF \A f \in Files : runner(f) = "unsupported" THEN "not judged" ELSE "cannot run")
         ELSE pc' = "swap" /\ UNCHANGED verdict
  /\ UNCHANGED <<world, tree, nets, stale, seal, caught, ran, undo, faults>>

\* One path after another goes back to the merge base, under the handlers.
Swap(p) ==
  /\ pc = "swap" /\ tree[p] # "base"
  /\ tree' = [tree EXCEPT ![p] = "base"] /\ caught' = TRUE
  /\ UNCHANGED <<pc, world, nets, stale, seal, ran, verdict, undo, faults>>

Swapped_ ==
  /\ pc = "swap" /\ \A p \in Swapped : tree[p] = "base"
  /\ pc' = "unit before" /\ caught' = TRUE
  /\ UNCHANGED <<world, tree, nets, stale, seal, ran, verdict, undo, faults>>

\* HEAD's again, and what the fix deleted is removed.
code_before_the_fix ==
  /\ pc = "put back"
  /\ tree' = [p \in Swapped |-> IF p \in Deletes THEN "none" ELSE "head"]
  /\ Leave(IF verdict = "none" THEN "judged" ELSE verdict)
  /\ UNCHANGED <<world, nets, stale, seal, caught, ran, undo, faults>>

\* A file shows the bug when a test of it fails there, and not for a name the gate knows to be missing.
before_the_fix(f) == f \in DOMAIN ran.before /\ ran.before[f] \in {"bug", "top", "refused", "unseen", "fails"}

----------------------------------------------------------------------------

Next ==
  \/ compare \/ open \/ listed
  \/ run_unit("unit at head", "at", "specs at head")
  \/ run_specs("specs at head", "at", "judge head")
  \/ passed_at_head
  \/ \E p \in Swapped : Swap(p)
  \/ Swapped_
  \/ run_unit("unit before", "before", "specs before")
  \/ run_specs("specs before", "before", "put back")
  \/ code_before_the_fix
  \/ \E c \in Containers : Enter(c) \/ Leaves(c)
  \/ Entered \/ close
  \/ Stopped \/ Killed

Spec == Init /\ [][Next]_regressionVars

----------------------------------------------------------------------------
(* Properties *)

Passes == pc = "done" /\ verdict = "judged" /\ \E f \in Judged : before_the_fix(f)

\* A fix that passes has a test that held at the head and failed on the code before the fix, on that tree and
\* no other, for no name the gate knows to be missing and no connection the run knows it refused (judge,
\* before_the_fix, code_before_the_fix). Any other failure counts, an assertion's or not; so does one of a
\* connection refused unseen, the limit docs/GATE-CONTRACT.md:585 and docs/threat-model.md:64 name.
ShownIsReal ==
  Passes => \E f \in Judged : facts[f].head = "passes" /\ facts[f].before \in {"bug", "top", "fails", "unseen"}

\* Whatever stopped the run, the tree is as the run found it and the stack on its own networks, restarted
\* there, unless putting them back was itself disturbed; and a signal that ends the process outright comes
\* before anything was moved (code_before_the_fix, Seal.enter, Seal.close, run_tool).
LeavesAsFound ==
  /\ pc = "done" /\ ~undo => tree = began /\ stale = {} /\ Idle(seal) /\ \A c \in Containers : nets[c] = {"own"}
  /\ pc = "killed" => tree = began /\ \A c \in Containers : nets[c] = {"own"}
=============================================================================
