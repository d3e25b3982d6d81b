------------------------------ MODULE Coverage ------------------------------
(***************************************************************************)
(* A run of coverage-not-lost: the suites of the projects run with line    *)
(* coverage at the merge base and at the head, each in a checkout of its   *)
(* own, and a line the pull request left as it was must not stop running.  *)
(* Coverage can change from run to run, so a line counts only when two     *)
(* runs at each side agree.                                                *)
(*                                                                         *)
(* One source file stands for all: its lines at the merge base are 1..N,   *)
(* `hunks` is what `git diff -U0` says became of them, and a text of the   *)
(* head's file is the line it was, or 0 for one the pull request wrote.    *)
(***************************************************************************)
EXTENDS Integers, Sequences, FiniteSets, SequencesExt

CONSTANTS
  N,        \* lines of the file at the merge base
  Projects, \* the directories whose suites run, in order
  Worlds,   \* what a run may be of: [fate and hunks of the file, runner, added, reason, touched, tool], its fate "same",
            \* "modified", "moved", "deleted" or "test" (HEAD runs the file itself as a test); the projects new at
            \* the head; whether the body gives a reason; whether the pull request deleted or changed test files,
            \* not more of them than --max-files; and what of the runner is installed: "fits", "other" (coverage-v8
            \* of another version than Vitest's, which the catalog may pin: "pinned"; or too old), or "missing"
  Suites,   \* what a run may do: [fails, refused (a connection), none (no test ran), report (it wrote one),
            \* outside (it ran the working copy's code)]
  Bases,    \* what a run may measure at the merge base: [1..N -> {"ran", "missed"}], or <<>>, nothing of the file
  Tips      \* the same at the head, where a line may also be "absent" from what was measured

VARIABLES
  change,   \* the pull request and the run's arguments
  pc,
  trees,    \* the checkouts
  runs,     \* the runs so far, of the first and of the second pair: [side, project] -> what it measured
  findings, \* the lines of the head that are reported
  verdict

coverageVars == <<change, pc, trees, runs, findings, verdict>>

Sides == {"base", "head"}
None == [s \in {} |-> 0]

Init ==
  /\ change \in Worlds
  /\ pc = "check" /\ trees = {} /\ runs = <<None, None>> /\ findings = {} /\ verdict = "none"

----------------------------------------------------------------------------
(* The file, and where the diff says its lines are (Diff) *)

\* The pull request changed or deleted the line.
Gone(n) == \E h \in Range(change.hunks) : h.start <= n /\ n < h.start + h.removed

\* The head's file, hunk by hunk: after line 0 the start of the file.
Piece(i) ==
  LET starting == {h \in Range(change.hunks) : h.start = i /\ h.added > 0}
      new == IF starting = {} THEN <<>> ELSE [j \in 1..(CHOOSE h \in starting : TRUE).added |-> 0]
  IN  IF i = 0 \/ Gone(i) THEN new ELSE <<i>> \o new
Head_ == FlattenSeq([i \in 1..(N + 1) |-> Piece(i - 1)])

Nowhere == 0

\* (mutant) A hunk that only adds moves the line it comes after, too.
Before_Insertion(h, n) == h.start + h.removed <= n

\* Whether a hunk moves line n.
Before(h, n) == IF h.removed > 0 THEN h.start + h.removed <= n ELSE h.start < n

\* The line of the head that line n is; Nowhere when the pull request changed or deleted it.
line(n) ==
  LET hunks == change.hunks
      by == [k \in 1..Len(hunks) |-> IF Before(hunks[k], n) THEN hunks[k].added - hunks[k].removed ELSE 0]
      shift[k \in 0..Len(hunks)] == IF k = 0 THEN 0 ELSE shift[k - 1] + by[k]
  IN  IF Gone(n) THEN Nowhere ELSE n + shift[Len(hunks)]

moved(n) == IF change.fate \in {"modified", "moved"} THEN line(n) ELSE n

----------------------------------------------------------------------------
(* What a runner needs *)

\* The project's Vitest, and coverage-v8 of exactly its version: the project's own or one the catalog pins.
provider == change.tool \in {"fits", "pinned"}
\* The project's Python, able to run its tests, and new enough for the pinned coverage.py.
interpreter == change.tool = "fits"
\* A Node that can leave node_modules out of what it measures, and nothing else.
node_version == change.tool = "fits"

RUNNERS == [vitest |-> provider, python |-> interpreter] @@ ("node-test" :> node_version)

----------------------------------------------------------------------------
(* A run of a project's suite (_coverage_runs.py, _coverage_node.py) *)

\* A suite in which no test ran measured nothing. In Python pytest's exit code 5 says so, or `^Ran 0 tests` in the
\* output, which unittest prints too when a setUpClass or setUpModule raised before the first test: that suite
\* failed, and is taken for an empty one.
Empty(s) == s.none /\ (change.runner = "python" \/ ~s.fails)

\* A suite that fails has no coverage to compare, refused anything or not, unless it is a Python one that says no
\* test ran; nor has one whose report is missing, or that ran code of the working copy.
CannotRun(s) ==
  /\ ~(change.runner = "python" /\ s.none)
  /\ s.fails \/ (~s.report /\ ~s.none) \/ (s.outside /\ s.report)

\* What the report says of the file; of a test file nothing.
Measured(s, lines) == IF Empty(s) \/ ~s.report THEN <<>> ELSE lines

----------------------------------------------------------------------------
(* Two sides, and the lines lost between them *)

\* Every project's coverage of a side as one: a line ran if it ran in any.
Of(pair, side) == {pair[k] : k \in {k \in DOMAIN pair : k[1] = side}}
tested(pair, side) == \E r \in Of(pair, side) : r.tested
ran(pair, side, n) == \E r \in Of(pair, side) : r.lines # <<>> /\ r.lines[n] = "ran"
missed(pair, side, n) == ~ran(pair, side, n) /\ \E r \in Of(pair, side) : r.lines # <<>> /\ r.lines[n] = "missed"
measured(pair, side) == \E r \in Of(pair, side) : r.lines # <<>>

\* at_head.get(number) is False: a line the pull request wrote is taken for one that was not run.
False_(pair, at) == at \in 1..Len(Head_) /\ (Head_[at] = 0 \/ missed(pair, "head", Head_[at]))

\* Each line lost, at the head, with the one it was.
lost_lines(pair) ==
  IF change.fate \in {"deleted", "test"} THEN {}
  ELSE {l \in {<<moved(n), n>> : n \in {n \in 1..N : ran(pair, "base", n)}} :
          l[1] # Nowhere /\ (~measured(pair, "head") \/ False_(pair, l[1]))}

confirmed == lost_lines(runs[1]) \cap lost_lines(runs[2])

\* A reason in the body makes the loss intended.
intended(found) == IF found = {} THEN "passes" ELSE IF change.reason THEN "intended" ELSE "blocks"

----------------------------------------------------------------------------
(* The gate *)

\* The checkouts go whatever the end.
End(v) == pc' = "done" /\ verdict' = v /\ trees' = {}

check ==
  /\ pc = "check"
  /\ IF change.hunks = <<>> /\ change.fate = "same" /\ ~change.touched THEN End("passes")
     ELSE pc' = "start" /\ trees' = Sides /\ UNCHANGED verdict
  /\ UNCHANGED <<change, runs, findings>>

Suite ==
  /\ pc = "start"
  /\ IF RUNNERS[change.runner] THEN pc' = "first" /\ UNCHANGED <<verdict, trees>> ELSE End("cannot run")
  /\ UNCHANGED <<change, runs, findings>>

Pair == IF pc = "first" THEN 1 ELSE 2

Order == [i \in 1..(2 * Len(Projects)) |->
            IF i <= Len(Projects) THEN <<"base", Projects[i]>> ELSE <<"head", Projects[i - Len(Projects)]>>]

\* The base's projects, then the head's; a project new at the head ran nothing at the merge base.
run(side, project, s, lines) ==
  /\ pc \in {"first", "second"}
  /\ Cardinality(DOMAIN runs[Pair]) < Len(Order) /\ <<side, project>> = Order[Cardinality(DOMAIN runs[Pair]) + 1]
  /\ IF side = "base" /\ project \in change.added
     THEN runs' = [runs EXCEPT ![Pair] = (<<side, project>> :> [tested |-> FALSE, lines |-> <<>>]) @@ @]
          /\ UNCHANGED <<pc, verdict, trees>>
     ELSE IF CannotRun(s) THEN End("cannot run") /\ UNCHANGED runs
     ELSE runs' = [runs EXCEPT ![Pair] =
                     (<<side, project>> :> [tested |-> ~s.none, lines |-> Measured(s, lines)]) @@ @]
          /\ UNCHANGED <<pc, verdict, trees>>
  /\ UNCHANGED <<change, findings>>

Complete(pair) == DOMAIN runs[pair] = Range(Order)

\* The guard refuses what a run inherits, or the deadline of them all passes.
Breaks ==
  /\ pc \in {"first", "second", "attribute"}
  /\ End("cannot run") /\ UNCHANGED <<change, runs, findings>>

\* The second pair runs only when the first finds a line.
measure ==
  /\ pc = "first" /\ Complete(1)
  /\ IF ~tested(runs[1], "base") /\ ~tested(runs[1], "head") THEN End("cannot run")
     ELSE IF lost_lines(runs[1]) = {} THEN End("passes")
     ELSE pc' = "second" /\ UNCHANGED <<verdict, trees>>
  /\ UNCHANGED <<change, runs, findings>>

\* What both agree on; which tests ran it comes from the contexts, or from the touched test files run again.
losses ==
  /\ pc = "second" /\ Complete(2)
  /\ findings' = {l[1] : l \in confirmed}
  /\ IF confirmed # {} /\ change.runner # "python" /\ change.touched THEN pc' = "attribute" /\ UNCHANGED <<verdict, trees>>
     ELSE End(intended(findings'))
  /\ UNCHANGED <<change, runs>>

test_files_that_ran(s) ==
  /\ pc = "attribute"
  /\ End(IF CannotRun(s) THEN "cannot run" ELSE intended(findings))
  /\ UNCHANGED <<change, runs, findings>>

Next ==
  \/ check \/ Suite \/ measure \/ losses \/ Breaks
  \/ \E project \in Range(Projects), s \in Suites :
       \/ \E lines \in Bases : run("base", project, s, lines)
       \/ \E lines \in Tips : run("head", project, s, lines)
  \/ \E s \in Suites : test_files_that_ran(s)

Spec == Init /\ [][Next]_coverageVars

----------------------------------------------------------------------------
(* Property *)

\* The lines a pair of runs shows to be lost, by the text of the line: as it was at the head, run by some
\* suite at the merge base, and at the head by none.
Stops(pair) ==
  {n \in 1..N :
     /\ change.fate \notin {"deleted", "test"} /\ n \in Range(Head_)
     /\ ran(pair, "base", n)
     /\ missed(pair, "head", n) \/ ~measured(pair, "head")}

\* A judged pull request is told of exactly the lines that it left as they were and that both pairs of runs
\* show lost, each where its text is at the head: never of a line of its own, of one that moved elsewhere, or
\* of one that only ran by chance.  It is blocked by them unless its body says why (lost_lines, Diff.line,
\* losses, findings).  A loss is what the runs measured: a Python suite that failed with no test run counts as
\* one that ran none of them (Empty), where coverage_not_lost.py:26 says a suite that fails cannot run.
LossIsReal ==
  pc = "done" /\ verdict # "cannot run" =>
    /\ verdict = "passes" <=> findings = {}
    /\ verdict = "blocks" => ~change.reason
    /\ \A at \in findings : at \in 1..Len(Head_) /\ Head_[at] # 0
    /\ {Head_[at] : at \in findings} = IF DOMAIN runs[2] = {} THEN {} ELSE Stops(runs[1]) \cap Stops(runs[2])
    /\ DOMAIN runs[2] = {} => ~Complete(1) \/ Stops(runs[1]) = {}
=============================================================================
